----------------------------- MODULE Pseudonyms -----------------------------
(***************************************************************************)
(* What a vault promises (ADR-4), with nothing of how it is kept: each     *)
(* process has a book of name-value pairs in which no name and no value    *)
(* occurs twice.  A book grows by one pair at a time, whose name and value *)
(* are both new to it; it loses or changes nothing unless the session      *)
(* ends, or the user replaces the whole book by the archived one.          *)
(***************************************************************************)
CONSTANTS Process, Name, Value

VARIABLES book, archive

Init == book = [p \in Process |-> {}] /\ archive = {}

New(pair, b) ==
  /\ pair \in Name \X Value
  /\ \A known \in b : known[1] # pair[1] /\ known[2] # pair[2]

\* The pair is drawn from book' so that TLC need not enumerate Name.
Learn(p) ==
  /\ \E pair \in book'[p] \ book[p] :
       New(pair, book[p]) /\ book' = [book EXCEPT ![p] = @ \cup {pair}]
  /\ UNCHANGED archive

\* A session ends; the archive is left alone, emptied, or becomes the book.
Close(p) ==
  /\ book' = [book EXCEPT ![p] = {}]
  /\ archive' \in {archive, {}, book[p]}

Recall(p) ==
  /\ book' = [book EXCEPT ![p] = archive]
  /\ UNCHANGED archive

Next == \E p \in Process : Learn(p) \/ Close(p) \/ Recall(p)

Spec == Init /\ [][Next]_<<book, archive>>
=============================================================================
