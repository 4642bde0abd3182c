----------------------------- MODULE LineReader -----------------------------
(***************************************************************************)
(* What bufio.Reader.ReadString('\n') gives a tailer of a file that others *)
(* append to: logtailer.go and auditd.go read their files in the same way. *)
(*                                                                         *)
(* The text of a file is a sequence of pieces: a line written at once, or  *)
(* the head of one, without its newline, and later the rest of it.  A line *)
(* is known by its number.                                                 *)
(***************************************************************************)
EXTENDS Naturals, Sequences

Piece(n, part) == [line |-> n, part |-> part]
Pieces == [line : Nat, part : {"all", "head", "rest"}]

EndsLine(x) == x.part # "head"

(* The newlines after the position pos. *)
Newlines(text, pos) == {i \in (pos + 1)..Len(text) : EndsLine(text[i])}

HasLine(text, pos) == Newlines(text, pos) # {}

(* A mutant: everything up to the last newline is taken for one line. *)
LineEndLast(text, pos) ==
  CHOOSE i \in Newlines(text, pos) : \A j \in Newlines(text, pos) : j <= i

(* Where the position is after the next complete line. *)
LineEnd(text, pos) ==
  CHOOSE i \in Newlines(text, pos) : \A j \in Newlines(text, pos) : i <= j

(* Its number, and whether it was read from its beginning. *)
LineAt(text, pos)  == text[LineEnd(text, pos)].line
WholeAt(text, pos) == text[pos + 1].part # "rest"
=============================================================================
