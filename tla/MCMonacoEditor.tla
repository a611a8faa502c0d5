---------------------------- MODULE MCMonacoEditor ----------------------------
(* MonacoEditor with two paths and two requests: see README.md, section 3. *)
EXTENDS MonacoEditor

CONSTANTS main, notes, starter, draft, dos, absent, binary, k1, k2

\* `dos' is `draft' with CRLF line ends, which Monaco keeps.
MCPlainForm == [text \in Text |-> IF text = dos THEN draft ELSE text]

MCMonacoForm == [text \in Text |-> text]
=============================================================================
