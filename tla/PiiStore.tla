------------------------------ MODULE PiiStore ------------------------------
(***************************************************************************)
(* What the encrypted columns give the rest of the application: a plain    *)
(* table of personal data.  Requests write and clear rows.  A write that   *)
(* overlaps the start of a key rotation may be late; a row so written may  *)
(* go back to other data by itself until it is written again, and no other *)
(* row ever does.  Encryption, key versions and rotation are details.      *)
(***************************************************************************)
CONSTANTS
  Records,  \* the rows
  Values,   \* the personal data a row can hold
  NoValue   \* the content of a row that holds none

VARIABLES
  content,  \* content[r]: the personal data row r decrypts to
  lookup,   \* lookup[r]: the data row r is found by (the e-mail hash)
  late      \* the rows whose last write was late

vars == <<content, lookup, late>>

Contents == [Records -> Values \cup {NoValue}]

Init ==
  /\ content \in Contents
  /\ lookup = content
  /\ late = {}

Write(r, x) ==
  /\ content' = [content EXCEPT ![r] = x]
  /\ lookup' = [lookup EXCEPT ![r] = x]
  /\ late' \in {late \ {r}, late \cup {r}}

Lose ==
  /\ content' \in Contents
  /\ \A r \in Records \ late : content'[r] = content[r]
  /\ UNCHANGED <<lookup, late>>

Next ==
  \/ \E r \in Records, x \in Values \cup {NoValue} : Write(r, x)
  \/ Lose

Spec == Init /\ [][Next]_vars
=============================================================================
