--------------------------------- MODULE Kbd ---------------------------------
(***************************************************************************)
(* The keyboard (kbd.c, the tables of kbd.h): kbdgetc() turns scan codes   *)
(* into bytes and keeps the state of the modifier keys in "shift".  A key  *)
(* sends its code when pressed and the code with bit 7 set when released,  *)
(* each after 0xE0 for the keys that share a code with another one.        *)
(***************************************************************************)
EXTENDS Integers, FiniteSets

\* A key: whether it is escaped, its code, and its entries in the tables.
Keys == {[e0 |-> FALSE, code |-> 29], [e0 |-> TRUE, code |-> 29],    \* ctrl
         [e0 |-> FALSE, code |-> 42], [e0 |-> FALSE, code |-> 54],   \* shift
         [e0 |-> TRUE, code |-> 56],                                 \* right alt
         [e0 |-> FALSE, code |-> 58],                                \* caps lock
         [e0 |-> FALSE, code |-> 30]}                                \* a

VARIABLES shift, down, sent, esc, char
kbdVars == <<shift, down, sent, esc, char>>

\* shiftcode and togglecode; 128 is the bit of escaped and released codes.
shiftcode(d) == CASE d \in {29, 128 + 29} -> {"CTL"} [] d \in {42, 54} -> {"SHIFT"}
                  [] d \in {56, 128 + 56} -> {"ALT"} [] OTHER -> {}
togglecode(d) == IF d = 58 THEN {"CAPSLOCK"} ELSE {}

\* charcode[] and caps lock, for the key that prints.
KeyChar(s, d) == IF d # 30 THEN "none"
              ELSE IF "CTL" \in s THEN "^A"
              ELSE IF ("SHIFT" \in s) # ("CAPSLOCK" \in s) THEN "A" ELSE "a"

\* Mutant: the escape is not taken off again by a release.
Released_Esc(d) == shift \ shiftcode(IF "E0ESC" \in shift THEN 128 + d ELSE d)
Released(d) == shift \ (shiftcode(IF "E0ESC" \in shift THEN 128 + d ELSE d) \union {"E0ESC"})

\* kbdgetc() of the code d: shift and the byte it returns.
kbdgetc(d) ==
  LET code == IF "E0ESC" \in shift THEN 128 + d ELSE d
      held == (shift \ {"E0ESC"}) \union shiftcode(code)
      new == (held \ togglecode(code)) \union (togglecode(code) \ held) IN
  IF d = 224 THEN shift' = shift \union {"E0ESC"} /\ char' = "none"
  ELSE IF d >= 128 THEN shift' = Released(d - 128) /\ char' = "none"
  ELSE shift' = new /\ char' = KeyChar(new, code)

KbdInit == shift = {} /\ down = {} /\ sent = 0 /\ esc = FALSE /\ char = "none"

\* The hardware: a press or a release, with its escape first.
key_byte(k, d) ==
  \/ /\ k.e0 /\ ~esc /\ kbdgetc(224) /\ esc' = TRUE /\ sent' = d /\ UNCHANGED down
  \/ /\ k.e0 = esc /\ (esc => sent = d) /\ kbdgetc(d) /\ esc' = FALSE /\ sent' = 0
     /\ down' = IF d < 128 THEN down \union {k} ELSE down \ {k}

KbdNext == \E k \in Keys :
  \/ k \notin down /\ Cardinality(down) < 3 /\ key_byte(k, k.code)
  \/ k \in down /\ key_byte(k, 128 + k.code)

------------------------------------------------------------------------------
Modifiers(S) == UNION {shiftcode(IF k.e0 THEN 128 + k.code ELSE k.code) : k \in S}

\* No modifier sticks: between keys, each one set belongs to a key that is
\* down, escaped codes and their plain twins included.
NoStuckModifier == ~esc => shift \ {"CAPSLOCK"} \subseteq Modifiers(down)
==============================================================================
