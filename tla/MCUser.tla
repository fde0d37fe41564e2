------------------------------- MODULE MCUser -------------------------------
(***************************************************************************)
(* What user programs work with: their memory, the console and the         *)
(* keyboard behind it, the shell and its parser, malloc, the string and    *)
(* matching functions, and the image that mkfs lays out.  As in MCFs, a    *)
(* behaviour runs one of these parts, chosen at the start.                 *)
(***************************************************************************)
EXTENDS Vm, Console, Kbd, Shell, Text, Malloc, Mkfs, TLC

VARIABLE part

\* A pipeline, a list with a redirection, a syntax error, and a background
\* job of a block at the end of a pipe.
UserLines == {<<"a", "|", "a", "|", "a">>, <<"a", ";", "a", ">", "a">>, <<")">>,
              <<"<", "a", "a", "|", "(", "a", "&", ")">>}
UserGeometries == [size : {16, 23, 24, 25}, ninodes : {4, 5, 6}, nlog : {2, 3}]

\* Processes of the console; the other parts number theirs.
UserSymmetry == Permutations(Proc)

UserInit ==
  /\ part \in {"vm", "console", "kbd", "parser", "shell", "text", "malloc", "mkfs"}
  /\ VmInit /\ ConsoleInit /\ KbdInit /\ ParserInit /\ ShellInit /\ TextInit /\ MallocInit /\ MkfsInit
  /\ part # "mkfs" => geo = CHOOSE g \in Geometries : TRUE

\* A step of one part leaves the others alone.
Others ==
  /\ UNCHANGED part
  /\ part # "vm" => UNCHANGED vmVars
  /\ part # "console" => UNCHANGED consVars
  /\ part # "kbd" => UNCHANGED kbdVars
  /\ part # "parser" => UNCHANGED parserVars
  /\ part # "shell" => UNCHANGED shellVars
  /\ part # "text" => UNCHANGED textVars
  /\ part # "malloc" => UNCHANGED mallocVars
  /\ part # "mkfs" => UNCHANGED mkfsVars
UserNext == \/ part = "vm" /\ VmNext /\ Others
            \/ part = "console" /\ ConsoleNext /\ Others
            \/ part = "kbd" /\ KbdNext /\ Others
            \/ part = "parser" /\ ParserNext /\ Others
            \/ part = "shell" /\ ShellNext /\ Others
            \/ part = "text" /\ TextNext /\ Others
            \/ part = "malloc" /\ MallocNext /\ Others
            \/ part = "mkfs" /\ MkfsNext /\ Others

UserVars == <<part, vmVars, consVars, kbdVars, parserVars, shellVars, textVars, mallocVars, mkfsVars>>
UserSpec == UserInit /\ [][UserNext]_UserVars

=============================================================================
