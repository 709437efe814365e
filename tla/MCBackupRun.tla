---------------------------- MODULE MCBackupRun ----------------------------
(* Instances of BackupRun for TLC. *)
EXTENDS BackupRun

\* Two file names; MCPath also has the name that a renamed copy of <<1>> gets.
MCPath == {<<1>>, <<2>>, <<1, 1>>}

\* Archive 1 holds two files; archive 2 holds one of them again, another photo
\* under the path of the other one, and a file named like its renamed copy.
MCExport ==
    [a \in {1, 2} |-> IF a = 1 THEN [p \in {<<1>>, <<2>>} |-> IF p = <<1>> THEN "A" ELSE "B"]
                      ELSE [p \in MCPath |-> CASE p = <<1>> -> "C" [] p = <<2>> -> "B"
                                               [] p = <<1, 1>> -> "D"]]

\* For the runs that overlap: one archive with two files.
MCSmallPath == {<<1>>, <<2>>}
MCSmallExport == [a \in {1} |-> MCExport[1]]

\* For their liveness: one archive with one file.
MCTinyPath == {<<1>>}
MCTinyExport == [a \in {1} |-> [p \in {<<1>>} |-> "A"]]

MCContent == {"A", "B", "C", "D"}
=============================================================================
