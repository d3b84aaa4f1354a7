------------------------------ MODULE Campaign ------------------------------
(***************************************************************************)
(* The scripts of a benchmark directory and its graphs.  A script empties  *)
(* its table and runs its program on one input after the other; what it    *)
(* adds to the table of a run that does not report differs from script to  *)
(* script.  The graphs script reads the tables of all scripts.  Scripts    *)
(* are run when someone likes, also together, and may be interrupted.      *)
(***************************************************************************)
EXTENDS Integers, Sequences, Functions

CONSTANTS
  Inputs,        (* The number of inputs, in order of size: 6.              *)
  Statistics,    (* Lines that a program prints behind its row, blank ones  *)
                 (* not counted: 6.                                         *)
  MaxStarts,     (* Bound: scripts started.                                 *)
  MaxFaults      (* Bound: programs without a report, and interruptions.    *)

ASSUME CampaignAssumption == {Inputs, MaxStarts, MaxFaults} \subseteq Nat \ {0}
ASSUME StatisticsAssumption == Statistics \in Nat /\ Inputs <= Statistics

VARIABLES
  dir,           (* The directory with the tables.                          *)
  at,            (* For every script the input it is at, 0 if it is not run. *)
  table,         (* The rows of its table: of a size, of what they were     *)
                 (* measured on, and of which run of the script.  Empty     *)
                 (* fields are 0; so is the size of a line of text.         *)
  run,           (* How often the script was started.                       *)
  lost,          (* Faults since it was started.                            *)
  picture        (* The pictures last drawn: sizes, and rows placed at them. *)

campaign == <<dir, at, table, run, lost, picture>>

(* What a script does with the output of a program:                        *)
(*   "pipe"    awk makes a row when it comes to the last line of a report; *)
(*   "append"  the output is the row;                                      *)
(*   "verbose" the same, but the output is a row and lines of statistics;  *)
(*   "strict"  the same, and the script ends when the program fails;       *)
(*   "fields"  there is always a row, with what is found in the output.    *)
Style ==
  [d \in {"aes-ni", "chacha20", "rijndael", "rijndael opt", "rijndael final"} |->
     CASE d = "aes-ni" -> [c |-> "pipe", ocaml |-> "append", oxcaml |-> "strict"]
       [] d = "chacha20" ->
            [c |-> "pipe", c_simd |-> "pipe", ocaml |-> "pipe", oxcaml |-> "pipe"]
       [] d = "rijndael" -> [c |-> "fields", ocaml |-> "append"]
       [] d = "rijndael opt" ->
            [c |-> "fields", ocaml |-> "append", ocaml_opt |-> "verbose"]
       [] d = "rijndael final" -> [c |-> "pipe", ocaml |-> "pipe"]]

Scripts == DOMAIN Style[dir]

Row(size, of, r) == [size |-> size, of |-> of, run |-> r]

(* What read_csv makes of a line of text: a row with nothing in its fields. *)
Text(r) == Row(0, 0, r)

(* Outputs one after the other: rows with n lines of text behind each.     *)
Lines(rows, n, r) ==
  [i \in 1 .. Len(rows) * (n + 1) |->
     IF (i - 1) % (n + 1) = 0 THEN rows[(i - 1) \div (n + 1) + 1] ELSE Text(r)]

(* The lines of text behind every row of the table of a script.  In the    *)
(* committed tables there are none: run 0.                                 *)
Behind(s) == IF Style[dir][s] = "verbose" /\ run[s] > 0 THEN Statistics ELSE 0

(* What a script leaves if nothing fails.  The committed tables are so.    *)
Sized(r) == [i \in 1 .. Inputs |-> Row(i, i, r)]
Whole(s) == Lines(Sized(run[s]), Behind(s), run[s])

CampaignInit ==
  /\ dir \in DOMAIN Style
  /\ at = [s \in Scripts |-> 0] /\ run = [s \in Scripts |-> 0]
  /\ lost = [s \in Scripts |-> 0]
  /\ table = [s \in Scripts |-> Sized(0)]
  /\ picture = [sizes |-> <<>>, placed |-> [s \in Scripts |-> <<>>]]

(* The sum over the scripts of the directory.                              *)
Total(f) ==
  LET Of(s) == IF s \in Scripts THEN f[s] ELSE 0
  IN  Of("c") + Of("c_simd") + Of("ocaml") + Of("ocaml_opt") + Of("oxcaml")

(* Bug: the header is appended, and the rows of the last run stay.         *)
Emptied_Not(s) == table[s]

(* The header is written with >, all the rest with >>.                     *)
Emptied(s) == <<>>

Start(s) ==
  /\ at[s] = 0 /\ Total(run) < MaxStarts
  /\ at' = [at EXCEPT ![s] = 1]
  /\ run' = [run EXCEPT ![s] = @ + 1]
  /\ lost' = [lost EXCEPT ![s] = 0]
  /\ table' = [table EXCEPT ![s] = Emptied(s)]
  /\ UNCHANGED <<dir, picture>>

After(i) == IF i < Inputs THEN i + 1 ELSE 0

(* What the report puts into the table.                                    *)
Printed(s) == Lines(<<Row(at[s], at[s], run[s])>>, Behind(s), run[s])

(* The program reports: its verdict is not looked at, only that it is there. *)
Reports(s) ==
  /\ at[s] # 0
  /\ table' = [table EXCEPT ![s] = @ \o Printed(s)]
  /\ at' = [at EXCEPT ![s] = After(@)]
  /\ UNCHANGED <<dir, run, lost, picture>>

(* Bug: the fields of the input before are still there.                    *)
Unreported_Stale(s) == Row(at[s], at[s] - 1, run[s])

(* The row of a program that has printed nothing.                          *)
Unreported(s) == Row(at[s], 0, run[s])

(* The program ends without a report, and with an exit status that only a  *)
(* script with set -e and without a pipe looks at.                         *)
NoReport(s) ==
  /\ at[s] # 0 /\ Total(lost) < MaxFaults
  /\ lost' = [lost EXCEPT ![s] = @ + 1]
  /\ table' = IF Style[dir][s] = "fields"
              THEN [table EXCEPT ![s] = Append(@, Unreported(s))] ELSE table
  /\ at' = [at EXCEPT ![s] = IF Style[dir][s] = "strict" THEN 0 ELSE After(@)]
  /\ UNCHANGED <<dir, run, picture>>

Interrupt(s) ==
  /\ at[s] # 0 /\ Total(lost) < MaxFaults
  /\ lost' = [lost EXCEPT ![s] = @ + 1]
  /\ at' = [at EXCEPT ![s] = 0]
  /\ UNCHANGED <<dir, table, run, picture>>

(* Bug: as many points as there are sizes are taken.                       *)
Drawable_Cut == \A s \in Scripts : Len(table[s]) >= Len(table["c"])

(* plt.plot of two columns of different lengths is an error.               *)
Drawable == \A s \in Scripts : Len(table[s]) = Len(table["c"])

(* The sizes are those of the C table; row i of every table goes to size   *)
(* number i.  After an error the old pictures are still there.             *)
Draw ==
  /\ Drawable
  /\ picture' = [sizes  |-> [i \in DOMAIN table["c"] |-> table["c"][i].size],
                 placed |-> [s \in Scripts |-> [i \in DOMAIN table["c"] |-> table[s][i].of]]]
  /\ UNCHANGED <<dir, at, table, run, lost>>

Step(s) == Reports(s) \/ NoReport(s)
CampaignNext == Draw \/ \E s \in Scripts : Start(s) \/ Step(s) \/ Interrupt(s)

(* A script that runs goes on: every program comes to an end (DriverRun).  *)
AllScripts == UNION {DOMAIN Style[d] : d \in DOMAIN Style}
CampaignSpec == CampaignInit /\ [][CampaignNext]_campaign /\ \A s \in AllScripts : WF_campaign(s \in Scripts /\ Step(s))

-----------------------------------------------------------------------------
(* The inputs a script has come past, if it is not interrupted.            *)
Past(s) == IF at[s] = 0 THEN Inputs ELSE at[s] - 1

Rows == [size : 0 .. Inputs, of : 0 .. Inputs, run : 0 .. MaxStarts]

(* Types; a table never has more rows than the inputs and their statistics, *)
(* and a script that runs has no row of an input it has not come to.       *)
CampaignTypeOK ==
  /\ dir \in DOMAIN Style
  /\ \A s \in Scripts :
       /\ at[s] \in 0 .. Inputs /\ run[s] \in 0 .. MaxStarts /\ lost[s] \in 0 .. MaxFaults
       /\ Range(table[s]) \subseteq Rows
       /\ Len(table[s]) <= Past(s) * (Behind(s) + 1)
       /\ Len(picture.placed[s]) = Len(picture.sizes)
  /\ Total(run) <= MaxStarts

(* Whatever failed or was interrupted, a table holds rows of the script's  *)
(* last run only, each with the values of its own size or none, in order   *)
(* of size, and lines of text only from a program that prints statistics;  *)
(* without a fault it is whole when the script is done.                    *)
TablesTrue ==
  \A s \in Scripts :
    /\ \A i \in DOMAIN table[s] :
         /\ table[s][i].run = run[s]
         /\ table[s][i].of \in {table[s][i].size, 0}
         /\ table[s][i].size = 0 => Behind(s) > 0
         /\ \A j \in 1 .. i - 1 :
              table[s][i].size = 0 \/ table[s][j].size < table[s][i].size
    /\ at[s] = 0 /\ lost[s] = 0 => table[s] = Whole(s)

(* If no script runs and the last runs of all of them have had one fault   *)
(* at most, new pictures have every value at its own size, or there are no *)
(* new pictures.  Two faults in two tables can make them as long as each   *)
(* other and shift the rows of both; so can a picture in the middle of a   *)
(* run.                                                                    *)
PlacedRight ==
  \A s \in Scripts : \A i \in DOMAIN picture.sizes :
    picture.placed[s][i] \in {picture.sizes[i], 0}
OneFault ==
  [][picture' # picture /\ Total(lost) <= 1 /\ (\A s \in Scripts : at[s] = 0)
       => PlacedRight']_campaign

(* Running a script once more, without a fault, leaves nothing in its      *)
(* table of what was there: it comes to the end, and the table is whole.   *)
Done(s) == at[s] = 0 /\ (lost[s] = 0 => table[s] = Whole(s))
Recovers ==
  \A s \in AllScripts :
    (s \in Scripts /\ at[s] = 1) ~> (s \in Scripts /\ Done(s))

(* After the scripts of a directory have run without a fault its graphs    *)
(* can be drawn, unless one of them has appended statistics to its table:  *)
(* then they cannot, as that table has more rows than the C table it is    *)
(* drawn over.                                                             *)
GraphsFollow ==
  (\A s \in Scripts : at[s] = 0 /\ lost[s] = 0)
    => (Drawable <=> \A s \in Scripts : Behind(s) = 0)
=============================================================================
