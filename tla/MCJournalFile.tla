---------------------------- MODULE MCJournalFile ----------------------------
(* Small instances of JournalFile for TLC: two commands, whose bodies are  *)
(* one and two bytes long and look like length bytes.                      *)
EXTENDS JournalFile

MCBody == [c \in Commands |-> IF c = "cancel" THEN <<1>> ELSE <<2, 0>>]
=============================================================================
