----------------------------- MODULE MCVhttpServer -----------------------------
(* VhttpServer with short streams: see README.md, section 3. *)
EXTENDS VhttpServer

CONSTANT h1

Request4(head, crlf, body, blanks) ==
    [head |-> head, crlf |-> crlf, body |-> body, blanks |-> blanks,
     keep |-> TRUE, valid |-> TRUE]

Get  == Request4(2, TRUE, 0, {})
Post == Request4(1, TRUE, 1, {})
Huge == Request4(1, TRUE, 4, {})
Big  == Request4(2, TRUE, 2, {1})
Last == [Post EXCEPT !.keep = FALSE]
Bad  == [Get EXCEPT !.valid = FALSE]
Bare == Request4(1, FALSE, 1, {})
Odd  == Request4(1, FALSE, 2, {1})

MCStreams ==
    {<<Get, Post, Get, Post>>, <<Post, Last, Get, Last>>, <<Get, Bad, Post>>,
     <<Get, Huge, Last>>, <<Big, Post, Post>>,
     <<Bare, Bare, Post, Get>>, <<Post, Odd, Post>>}
=============================================================================
