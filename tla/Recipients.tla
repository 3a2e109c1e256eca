------------------------------ MODULE Recipients ------------------------------
(***************************************************************************)
(* From a pasted or uploaded text to the rows of a campaign.  A text is a  *)
(* sequence of tokens, cut at blanks, commas, quotes and brackets.  A      *)
(* token is given by the mailbox it names, which is a kind and a number    *)
(* among those of its kind; by the case it is spelled in; and by whether   *)
(* it is bare or has more around the address (mailto:...).  The kinds are  *)
(* what the four checks of the program tell apart.  Both EMAIL_REs match   *)
(* the first four as a whole:                                              *)
(*   "plain"      an address by every check;                               *)
(*   "zod"        accepted by zod, refused by isEmail (a label that ends   *)
(*                in a hyphen, more than 64 characters before the @);      *)
(*   "validator"  accepted by isEmail, refused by zod (a % before the @);  *)
(*   "loose"      refused by both (two dots in a row, a leading dot);      *)
(*   "broken"     has an @ and no address;  "word"  has no @.              *)
(***************************************************************************)
EXTENDS Naturals, Sequences, FiniteSets, SequencesExt

Kinds == {"plain", "zod", "validator", "loose", "broken", "word"}
Tokens == [box : Nat, kind : Kinds, case : Nat, bare : BOOLEAN]

\* EMAIL_RE, validator's isEmail, and zod's string().email().
HasAddress(t) == t.kind \in {"plain", "zod", "validator", "loose"}
IsEmail(t) == t.kind \in {"plain", "validator"}
ZodEmail(t) == t.kind \in {"plain", "zod"}

\* toLowerCase(): every spelling of a mailbox becomes the first one.
Lower(t) == [t EXCEPT !.case = 0]

ParseResult(v, i, d) == [valid |-> v, invalid |-> i, duplicates |-> d]
ParseResults == [valid : Seq(Tokens), invalid : Nat, duplicates : Nat]
NoAddresses == ParseResult(<<>>, 0, 0)

-----------------------------------------------------------------------------
\* extractEmails: a token counts only as a whole, and the first spelling wins.
Valid(t) == HasAddress(t) /\ t.bare

KeyAsWritten(t) == t                                              \* mutant
Key(t) == Lower(t)

ReadToken(r, t) ==
    CASE t.kind = "word" -> r
      [] t.kind # "word" /\ ~Valid(t) -> [r EXCEPT !.invalid = @ + 1]
      [] Valid(t) /\ (\E s \in ToSet(r.valid) : Key(s) = Key(t)) ->
           [r EXCEPT !.duplicates = @ + 1]
      [] OTHER -> [r EXCEPT !.valid = Append(@, t)]

Extract(text) == FoldLeft(ReadToken, NoAddresses, text)

\* POST /api/upload/csv: the address is cut out of whatever surrounds it.
MatchAsWritten(t) == [t EXCEPT !.bare = TRUE]                     \* mutant
Match(t) == [Lower(t) EXCEPT !.bare = TRUE]

ReadMatch(r, t) ==
    CASE ~HasAddress(t) -> r
      [] HasAddress(t) /\ ~IsEmail(t) -> [r EXCEPT !.invalid = @ + 1]
      [] OTHER -> IF Match(t) \in ToSet(r.valid)
                  THEN [r EXCEPT !.duplicates = @ + 1]
                  ELSE [r EXCEPT !.valid = Append(@, Match(t))]

UploadCsv(text) == FoldLeft(ReadMatch, NoAddresses, text)

-----------------------------------------------------------------------------
\* createCampaignSchema on recipientEmails: one refused address refuses all.
AddressesAccepted(to) == to # <<>> /\ \A t \in ToSet(to) : ZodEmail(t)

\* createMany with skipDuplicates: one row for each string.
RowsOf(to) == ToSet(to)

=============================================================================
