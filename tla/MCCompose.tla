------------------------------- MODULE MCCompose -------------------------------
(* Small instances of Compose for TLC. *)
EXTENDS Compose

Token(b, c, k) == [box |-> b, kind |-> k, case |-> c, bare |-> TRUE]
Wrapped(t) == [t EXCEPT !.bare = FALSE]

\* A blank text; one on which both readers agree, with two spellings of a mailbox;
\* one with addresses that only zod takes, bare and wrapped; one with addresses
\* that only isEmail takes, or neither, and a broken one.
MCTexts == {
    <<>>,
    <<Token(1, 1, "plain"), Token(0, 0, "word"), Token(1, 0, "plain"), Token(2, 0, "plain")>>,
    <<Token(1, 1, "zod"), Token(2, 1, "plain"), Wrapped(Token(1, 0, "zod")),
      Wrapped(Token(1, 0, "plain"))>>,
    <<Token(1, 0, "loose"), Token(1, 1, "validator"), Token(1, 0, "broken"),
      Wrapped(Token(1, 0, "validator")), Token(1, 0, "plain")>>}

\* At the server's lower bounds, and too early once a minute has passed; at its
\* upper bounds; beyond them, where only the server refuses; what the form refuses.
MCSettings == {
    [startAt |-> 2, delaySec |-> 0, maxPerHour |-> 1],
    [startAt |-> 5, delaySec |-> 300, maxPerHour |-> 10000],
    [startAt |-> 5, delaySec |-> 301, maxPerHour |-> 10001],
    [startAt |-> 0, delaySec |-> -1, maxPerHour |-> 0]}

=============================================================================
