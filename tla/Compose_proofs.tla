---------------------------- MODULE Compose_proofs -----------------------------
(* What the two readers make of a text, by induction on its tokens; one draft  *)
(* makes one campaign, unless an error was shown; the form posts what the box  *)
(* shows, lists each mailbox once and never holds back what the server takes.  *)
EXTENDS Compose, CardinalityLemmas

-----------------------------------------------------------------------------
\* FoldLeft chooses the function that its recursion describes: there is one.
LEMMA MaxOfSome ==
    ASSUME NEW n \in Nat, NEW t \in SUBSET (1..n), t # {}
    PROVE  Max(t) \in t /\ \A y \in t : y <= Max(t)
<1> DEFINE D == {n - y : y \in t}
<1>0. ASSUME NEW y \in t PROVE n - y \in Nat
  <2>1. y \in 1..n
    OBVIOUS
  <2> QED
    BY <2>1
<1>1. D \subseteq Nat /\ D # {}
  <2>1. PICK y \in t : TRUE
    OBVIOUS
  <2>2. n - y \in D
    OBVIOUS
  <2>3. D # {}
    BY <2>2
  <2> QED
    BY <1>0, <2>3
<1>2. PICK d \in D : \A m \in D : d <= m
  BY <1>1, LeastMember
<1>3. PICK x \in t : d = n - x
  BY <1>2
<1>4. ASSUME NEW y \in t PROVE x >= y
  <2>1. n - y \in D
    OBVIOUS
  <2>2. n - x <= n - y
    BY <1>2, <1>3, <2>1
  <2>3. x \in 1..n /\ y \in 1..n
    OBVIOUS
  <2> QED
    BY <2>2, <2>3
<1>5. \A y \in t : x >= y
  BY <1>4
<1>6. Max(t) \in t /\ \A y \in t : Max(t) >= y
  BY <1>5, Zenon DEF Max
<1> QED
  BY <1>6

Step(reader, r, t) == IF reader = "csv" THEN ReadMatch(r, t) ELSE ReadToken(r, t)

Folds(reader, g, text, n) ==
    g = [t \in SUBSET (1..n) |->
           IF t = {} THEN NoAddresses ELSE Step(reader, g[t \ {Max(t)}], text[Max(t)])]

LEMMA FoldExists ==
    ASSUME NEW reader, NEW text, NEW n \in Nat
    PROVE  \E g : Folds(reader, g, text, n)
<1> DEFINE T == {m \in Nat : \E g : Folds(reader, g, text, m)}
<1>1. 0 \in T
  <2> DEFINE g == [t \in SUBSET (1..0) |-> NoAddresses]
  <2>1. \A t \in SUBSET (1..0) : t = {}
    OBVIOUS
  <2>2. Folds(reader, g, text, 0)
    BY <2>1 DEF Folds
  <2> QED
    BY <2>2
<1>2. ASSUME NEW m \in Nat, m \in T PROVE m + 1 \in T
  <2>1. PICK g : Folds(reader, g, text, m)
    BY <1>2
  <2> DEFINE h == [t \in SUBSET (1..(m+1)) |->
                     IF t = {} THEN NoAddresses ELSE Step(reader, g[t \ {Max(t)}], text[Max(t)])]
  <2>2. ASSUME NEW t \in SUBSET (1..(m+1)), t # {} PROVE t \ {Max(t)} \in SUBSET (1..m)
    <3>1. Max(t) \in t /\ \A y \in t : y <= Max(t)
      BY <2>2, MaxOfSome, m + 1 \in Nat
    <3>2. ASSUME NEW y \in t, y # Max(t) PROVE y \in 1..m
      <4>1. y \in 1..(m+1) /\ Max(t) \in 1..(m+1) /\ y <= Max(t)
        BY <3>1
      <4> QED
        BY <3>2, <4>1
    <3> QED
      BY <3>2
  <2>3. ASSUME NEW t \in SUBSET (1..m) PROVE h[t] = g[t]
    <3>1. g[t] = IF t = {} THEN NoAddresses ELSE Step(reader, g[t \ {Max(t)}], text[Max(t)])
      BY <2>1 DEF Folds
    <3>2. t \in SUBSET (1..(m+1))
      OBVIOUS
    <3> QED
      BY <3>1, <3>2
  <2>4. ASSUME NEW t \in SUBSET (1..(m+1))
        PROVE h[t] = IF t = {} THEN NoAddresses ELSE Step(reader, h[t \ {Max(t)}], text[Max(t)])
    <3>1. t # {} => h[t \ {Max(t)}] = g[t \ {Max(t)}]
      BY <2>2, <2>3
    <3>2. h[t] = IF t = {} THEN NoAddresses ELSE Step(reader, g[t \ {Max(t)}], text[Max(t)])
      OBVIOUS
    <3> HIDE DEF h
    <3> QED
      BY <3>1, <3>2
  <2>5. h = [t \in SUBSET (1..(m+1)) |-> h[t]]
    OBVIOUS
  <2> HIDE DEF h
  <2>6. Folds(reader, h, text, m + 1)
    BY <2>4, <2>5 DEF Folds
  <2> QED
    BY <2>6
<1> HIDE DEF T
<1>3. n \in T
  BY <1>1, <1>2, SetInduction
<1> QED
  BY <1>3 DEF T

LEMMA FoldStart ==
    ASSUME NEW reader, NEW text, NEW n \in Nat, NEW g, Folds(reader, g, text, n)
    PROVE  g[{}] = NoAddresses
<1>1. {} \in SUBSET (1..n)
  OBVIOUS
<1> QED
  BY <1>1 DEF Folds

LEMMA FoldSteps ==
    ASSUME NEW reader, NEW text, NEW n \in Nat, NEW g, Folds(reader, g, text, n), NEW k \in 0..n
    PROVE  /\ k = 0 => g[1..k] = NoAddresses
           /\ k # 0 => g[1..k] = Step(reader, g[1..(k-1)], text[k])
<1>1. g[1..k] = IF 1..k = {} THEN NoAddresses
                ELSE Step(reader, g[(1..k) \ {Max(1..k)}], text[Max(1..k)])
  <2>1. 1..k \in SUBSET (1..n)
    OBVIOUS
  <2> QED
    BY <2>1 DEF Folds
<1>2. CASE k = 0
  BY <1>1, <1>2
<1>3. CASE k # 0
  <2>1. k \in 1..k /\ 1..k # {} /\ k \in Nat
    BY <1>3
  <2>2. Max(1..k) \in 1..k /\ k <= Max(1..k)
    BY <2>1, MaxOfSome
  <2>3. Max(1..k) = k
    BY <2>2
  <2>4. (1..k) \ {k} = 1..(k-1)
    BY <2>1
  <2> QED
    BY <1>1, <1>3, <2>1, <2>3, <2>4
<1> QED
  BY <1>2, <1>3

\* What each reader has after every token.
LEMMA BoxReads ==
    ASSUME NEW text \in Seq(Tokens)
    PROVE  \E h : /\ h[0] = NoAddresses
                  /\ \A k \in 1..Len(text) : h[k] = ReadToken(h[k-1], text[k])
                  /\ Extract(text) = h[Len(text)]
<1> DEFINE n == Len(text)
           g == CHOOSE f : Folds("box", f, text, n)
<1>1. n \in Nat /\ DOMAIN text = 1..n
  OBVIOUS
<1>2. Folds("box", g, text, n)
  BY <1>1, FoldExists
<1>3. Extract(text) = g[1..n]
  BY <1>1 DEF Extract, FoldLeft, MapThenFoldSet, Folds, Step
<1> HIDE DEF g
<1> DEFINE h == [k \in 0..n |-> g[1..k]]
<1>4. h[0] = NoAddresses
  <2>1. g[{}] = NoAddresses
    BY <1>1, <1>2, FoldStart
  <2> QED
    BY <1>1, <2>1
<1>5. ASSUME NEW k \in 1..n PROVE h[k] = ReadToken(h[k-1], text[k])
  <2>1. k \in 0..n /\ k - 1 \in 0..n /\ k # 0
    BY <1>1
  <2>2. g[1..k] = Step("box", g[1..(k-1)], text[k])
    BY <1>1, <1>2, <2>1, FoldSteps
  <2> QED
    BY <2>1, <2>2 DEF Step
<1>6. h[n] = Extract(text)
  BY <1>1, <1>3
<1> HIDE DEF h
<1> QED
  BY <1>1, <1>4, <1>5, <1>6

LEMMA UploadReads ==
    ASSUME NEW text \in Seq(Tokens)
    PROVE  \E h : /\ h[0] = NoAddresses
                  /\ \A k \in 1..Len(text) : h[k] = ReadMatch(h[k-1], text[k])
                  /\ UploadCsv(text) = h[Len(text)]
<1> DEFINE n == Len(text)
           g == CHOOSE f : Folds("csv", f, text, n)
<1>1. n \in Nat /\ DOMAIN text = 1..n
  OBVIOUS
<1>2. Folds("csv", g, text, n)
  BY <1>1, FoldExists
<1>3. UploadCsv(text) = g[1..n]
  BY <1>1 DEF UploadCsv, FoldLeft, MapThenFoldSet, Folds, Step
<1> HIDE DEF g
<1> DEFINE h == [k \in 0..n |-> g[1..k]]
<1>4. h[0] = NoAddresses
  <2>1. g[{}] = NoAddresses
    BY <1>1, <1>2, FoldStart
  <2> QED
    BY <1>1, <2>1
<1>5. ASSUME NEW k \in 1..n PROVE h[k] = ReadMatch(h[k-1], text[k])
  <2>1. k \in 0..n /\ k - 1 \in 0..n /\ k # 0
    BY <1>1
  <2>2. g[1..k] = Step("csv", g[1..(k-1)], text[k])
    BY <1>1, <1>2, <2>1, FoldSteps
  <2> QED
    BY <2>1, <2>2 DEF Step
<1>6. h[n] = UploadCsv(text)
  BY <1>1, <1>3
<1> HIDE DEF h
<1> QED
  BY <1>1, <1>4, <1>5, <1>6


-----------------------------------------------------------------------------
Entries(text, k) == {i \in 1..k : text[i].kind # "word"}
Lowered(s) == [i \in DOMAIN s |-> Lower(s[i])]
NoneHidden(text, k) == \A i \in 1..k : HasAddress(text[i]) => (text[i].bare <=> IsEmail(text[i]))

\* After k tokens: no mailbox is listed twice, every entry is accounted for ...
BoxSays(r, text, k) ==
    /\ r \in ParseResults
    /\ \A i \in 1..Len(r.valid) : Valid(r.valid[i])
    /\ \A i, j \in 1..Len(r.valid) : Key(r.valid[i]) = Key(r.valid[j]) => i = j
    /\ Len(r.valid) + r.invalid + r.duplicates = Cardinality(Entries(text, k))

\* ... and the upload has found those of the box that isEmail takes, and those that
\* it cut out of more.
UploadSays(q, r, text, k) ==
    /\ q \in ParseResults
    /\ \A i \in 1..Len(r.valid) :
         IsEmail(r.valid[i]) => \E j \in 1..Len(q.valid) : q.valid[j] = Lower(r.valid[i])
    /\ \A j \in 1..Len(q.valid) : IsEmail(q.valid[j])
    /\ \A j \in 1..Len(q.valid) :
         \/ \E i \in 1..Len(r.valid) : q.valid[j] = Lower(r.valid[i])
         \/ \E i \in 1..k : ~text[i].bare /\ q.valid[j] = Match(text[i])
    /\ NoneHidden(text, k) => q.valid = Lowered(r.valid) /\ q.duplicates = r.duplicates

LEMMA LowerToken ==
    ASSUME NEW t \in Tokens
    PROVE  /\ Lower(t) \in Tokens /\ Match(t) \in Tokens
           /\ IsEmail(Lower(t)) <=> IsEmail(t)
           /\ IsEmail(Match(t)) <=> IsEmail(t)
           /\ t.bare => Match(t) = Lower(t)
<1>1. t.box \in Nat /\ t.kind \in Kinds /\ t.bare \in BOOLEAN
  BY DEF Tokens
<1>2. Lower(t) = [box |-> t.box, kind |-> t.kind, case |-> 0, bare |-> t.bare]
  BY DEF Lower, Tokens
<1>3. Lower(t) \in Tokens /\ Lower(t).kind = t.kind /\ Lower(t).bare = t.bare
  BY <1>1, <1>2 DEF Tokens
<1>4. ASSUME NEW s \in Tokens PROVE [s EXCEPT !.bare = TRUE] \in Tokens
  BY DEF Tokens
<1>5. ASSUME NEW s \in Tokens PROVE [s EXCEPT !.bare = TRUE].kind = s.kind
  BY DEF Tokens
<1>6. ASSUME NEW s \in Tokens, s.bare = TRUE PROVE [s EXCEPT !.bare = TRUE] = s
  BY <1>6 DEF Tokens
<1>7. Match(t) \in Tokens /\ Match(t).kind = t.kind
  BY <1>3, <1>4, <1>5 DEF Match
<1>8. t.bare => Match(t) = Lower(t)
  <2>1. t.bare => t.bare = TRUE
    BY <1>1
  <2> QED
    BY <1>3, <1>6, <2>1 DEF Match
<1> QED
  BY <1>3, <1>7, <1>8 DEF IsEmail

LEMMA EntriesGrow ==
    ASSUME NEW text, NEW k \in Nat
    PROVE  /\ Cardinality(Entries(text, k)) \in Nat
           /\ text[k + 1].kind = "word" => Cardinality(Entries(text, k + 1)) = Cardinality(Entries(text, k))
           /\ text[k + 1].kind # "word" => Cardinality(Entries(text, k + 1)) = Cardinality(Entries(text, k)) + 1
<1>1. IsFiniteSet(1..k)
  BY FS_Interval
<1>2. IsFiniteSet(Entries(text, k)) /\ Cardinality(Entries(text, k)) \in Nat
  BY <1>1, FS_Subset, FS_CardinalityType DEF Entries
<1>3. CASE text[k + 1].kind = "word"
  <2>1. Entries(text, k + 1) = Entries(text, k)
    BY <1>3 DEF Entries
  <2> QED
    BY <1>2, <1>3, <2>1
<1>4. CASE text[k + 1].kind # "word"
  <2>1. Entries(text, k + 1) = Entries(text, k) \cup {k + 1} /\ k + 1 \notin Entries(text, k)
    BY <1>4 DEF Entries
  <2> QED
    BY <1>2, <1>4, <2>1, Grow
<1> QED
  BY <1>2, <1>3, <1>4

\* The four things that a token does to the box.
LEMMA BoxStep ==
    ASSUME NEW r \in ParseResults, NEW t \in Tokens
    PROVE  \/ t.kind = "word" /\ ReadToken(r, t) = r
           \/ /\ t.kind # "word" /\ ~Valid(t)
              /\ ReadToken(r, t) = ParseResult(r.valid, r.invalid + 1, r.duplicates)
           \/ /\ Valid(t)
              /\ \E i \in 1..Len(r.valid) : Key(r.valid[i]) = Key(t)
              /\ ReadToken(r, t) = ParseResult(r.valid, r.invalid, r.duplicates + 1)
           \/ /\ Valid(t)
              /\ \A i \in 1..Len(r.valid) : Key(r.valid[i]) # Key(t)
              /\ ReadToken(r, t) = ParseResult(Append(r.valid, t), r.invalid, r.duplicates)
<1>1. r = ParseResult(r.valid, r.invalid, r.duplicates) /\ r.valid \in Seq(Tokens)
  BY DEF ParseResults, ParseResult
<1>2. (\E s \in ToSet(r.valid) : Key(s) = Key(t)) <=> \E i \in 1..Len(r.valid) : Key(r.valid[i]) = Key(t)
  BY <1>1 DEF ToSet
<1>3. Valid(t) => t.kind # "word"
  BY DEF Valid, HasAddress
<1> QED
  BY <1>1, <1>2, <1>3 DEF ReadToken, ParseResult

LEMMA BoxKeeps ==
    ASSUME NEW text, NEW k \in Nat, text[k + 1] \in Tokens, NEW r, BoxSays(r, text, k)
    PROVE  BoxSays(ReadToken(r, text[k + 1]), text, k + 1)
<1> DEFINE t == text[k + 1]
           u == ReadToken(r, t)
<1> SUFFICES BoxSays(u, text, k + 1)
  OBVIOUS
<1>0. r \in ParseResults /\ t \in Tokens
  BY DEF BoxSays
<1>1. /\ Cardinality(Entries(text, k)) \in Nat
      /\ t.kind = "word" => Cardinality(Entries(text, k + 1)) = Cardinality(Entries(text, k))
      /\ t.kind # "word" => Cardinality(Entries(text, k + 1)) = Cardinality(Entries(text, k)) + 1
  BY EntriesGrow
<1>2. r.valid \in Seq(Tokens) /\ Len(r.valid) \in Nat /\ r.invalid \in Nat /\ r.duplicates \in Nat
  BY <1>0 DEF ParseResults
<1>a. Len(r.valid) + r.invalid + r.duplicates = Cardinality(Entries(text, k))
  BY DEF BoxSays
<1>b. t.kind # "word" => Cardinality(Entries(text, k + 1)) = Len(r.valid) + r.invalid + r.duplicates + 1
  BY <1>1, <1>a
<1> HIDE DEF t
<1>3. CASE t.kind = "word" /\ u = r
  BY <1>1, <1>3 DEF BoxSays
<1>4. CASE t.kind # "word" /\ ~Valid(t) /\ u = ParseResult(r.valid, r.invalid + 1, r.duplicates)
  <2>1. u.valid = r.valid /\ u.invalid = r.invalid + 1 /\ u.duplicates = r.duplicates /\ u \in ParseResults
    BY <1>2, <1>4 DEF ParseResult, ParseResults
  <2> HIDE DEF u
  <2>2. Len(u.valid) + u.invalid + u.duplicates = Cardinality(Entries(text, k + 1))
    BY <1>2, <1>4, <1>b, <2>1
  <2> QED
    BY <2>1, <2>2 DEF BoxSays
<1>5. CASE Valid(t) /\ u = ParseResult(r.valid, r.invalid, r.duplicates + 1)
  <2>1. u.valid = r.valid /\ u.invalid = r.invalid /\ u.duplicates = r.duplicates + 1 /\ u \in ParseResults
    BY <1>2, <1>5 DEF ParseResult, ParseResults
  <2>2. t.kind # "word"
    BY <1>5 DEF Valid, HasAddress
  <2> HIDE DEF u
  <2>3. Len(u.valid) + u.invalid + u.duplicates = Cardinality(Entries(text, k + 1))
    BY <1>2, <1>b, <2>1, <2>2
  <2> QED
    BY <2>1, <2>3 DEF BoxSays
<1>6. CASE /\ Valid(t)
           /\ \A i \in 1..Len(r.valid) : Key(r.valid[i]) # Key(t)
           /\ u = ParseResult(Append(r.valid, t), r.invalid, r.duplicates)
  <2>1. u.valid = Append(r.valid, t) /\ u.invalid = r.invalid /\ u.duplicates = r.duplicates
    BY <1>6 DEF ParseResult
  <2>2. u.valid \in Seq(Tokens) /\ Len(u.valid) = Len(r.valid) + 1
    BY <1>0, <1>2, <2>1
  <2>3. u \in ParseResults
    BY <1>2, <1>6, <2>1, <2>2 DEF ParseResult, ParseResults
  <2>4. \A i \in 1..Len(u.valid) : u.valid[i] = IF i \in 1..Len(r.valid) THEN r.valid[i] ELSE t
    BY <1>0, <1>2, <2>1
  <2>5. t.kind # "word"
    BY <1>6 DEF Valid, HasAddress
  <2> HIDE DEF u
  <2>6. \A i \in 1..Len(u.valid) : i \in 1..Len(r.valid) \/ i = Len(u.valid)
    BY <1>2, <2>2
  <2>7. \A i \in 1..Len(u.valid) : Valid(u.valid[i])
    BY <1>6, <2>4 DEF BoxSays
  <2>8. \A i, j \in 1..Len(u.valid) : Key(u.valid[i]) = Key(u.valid[j]) => i = j
    BY <1>6, <2>4, <2>6 DEF BoxSays
  <2>9. Len(u.valid) + u.invalid + u.duplicates = Cardinality(Entries(text, k + 1))
    BY <1>2, <1>b, <2>1, <2>2, <2>5
  <2> QED
    BY <2>3, <2>7, <2>8, <2>9 DEF BoxSays
<1> QED
  BY <1>0, <1>3, <1>4, <1>5, <1>6, BoxStep

\* The four things that a token does to the upload.
LEMMA UploadStep ==
    ASSUME NEW q \in ParseResults, NEW t \in Tokens
    PROVE  \/ ~HasAddress(t) /\ ReadMatch(q, t) = q
           \/ /\ HasAddress(t) /\ ~IsEmail(t)
              /\ ReadMatch(q, t) = ParseResult(q.valid, q.invalid + 1, q.duplicates)
           \/ /\ HasAddress(t) /\ IsEmail(t)
              /\ \E i \in 1..Len(q.valid) : q.valid[i] = Match(t)
              /\ ReadMatch(q, t) = ParseResult(q.valid, q.invalid, q.duplicates + 1)
           \/ /\ HasAddress(t) /\ IsEmail(t)
              /\ \A i \in 1..Len(q.valid) : q.valid[i] # Match(t)
              /\ ReadMatch(q, t) = ParseResult(Append(q.valid, Match(t)), q.invalid, q.duplicates)
<1>1. q = ParseResult(q.valid, q.invalid, q.duplicates) /\ q.valid \in Seq(Tokens)
  BY DEF ParseResults, ParseResult
<1>2. \A x : x \in ToSet(q.valid) <=> \E i \in 1..Len(q.valid) : q.valid[i] = x
  BY <1>1 DEF ToSet
<1> QED
  BY <1>1, <1>2 DEF ReadMatch, ParseResult

LEMMA UploadKeeps ==
    ASSUME NEW text, NEW k \in Nat, text[k + 1] \in Tokens,
           NEW r, BoxSays(r, text, k), NEW q, UploadSays(q, r, text, k)
    PROVE  UploadSays(ReadMatch(q, text[k + 1]), ReadToken(r, text[k + 1]), text, k + 1)
<1> DEFINE t == text[k + 1]
           u == ReadToken(r, t)
           v == ReadMatch(q, t)
           m == Match(t)
<1> SUFFICES UploadSays(v, u, text, k + 1)
  OBVIOUS
<1>1. r \in ParseResults /\ q \in ParseResults /\ t \in Tokens
  BY DEF BoxSays, UploadSays
<1>2. t.bare => Lower(t) = m
  BY <1>1, LowerToken
<1>3. m \in Tokens /\ (IsEmail(m) <=> IsEmail(t))
  BY <1>1, LowerToken
<1>4. \/ t.kind = "word" /\ u = r
      \/ t.kind # "word" /\ ~Valid(t) /\ u = ParseResult(r.valid, r.invalid + 1, r.duplicates)
      \/ /\ Valid(t)
         /\ \E i \in 1..Len(r.valid) : Key(r.valid[i]) = Key(t)
         /\ u = ParseResult(r.valid, r.invalid, r.duplicates + 1)
      \/ /\ Valid(t)
         /\ \A i \in 1..Len(r.valid) : Key(r.valid[i]) # Key(t)
         /\ u = ParseResult(Append(r.valid, t), r.invalid, r.duplicates)
  BY <1>1, BoxStep
<1>5. \/ ~HasAddress(t) /\ v = q
      \/ HasAddress(t) /\ ~IsEmail(t) /\ v = ParseResult(q.valid, q.invalid + 1, q.duplicates)
      \/ /\ HasAddress(t) /\ IsEmail(t)
         /\ \E i \in 1..Len(q.valid) : q.valid[i] = m
         /\ v = ParseResult(q.valid, q.invalid, q.duplicates + 1)
      \/ /\ HasAddress(t) /\ IsEmail(t)
         /\ \A i \in 1..Len(q.valid) : q.valid[i] # m
         /\ v = ParseResult(Append(q.valid, m), q.invalid, q.duplicates)
  BY <1>1, UploadStep
<1>a. t = text[k + 1] /\ m = Match(text[k + 1])
  OBVIOUS
<1> HIDE DEF m, t, u, v
<1>6. r.valid \in Seq(Tokens) /\ r.invalid \in Nat /\ r.duplicates \in Nat
  BY <1>1 DEF ParseResults
<1>7. q.valid \in Seq(Tokens) /\ q.invalid \in Nat /\ q.duplicates \in Nat
  BY <1>1 DEF ParseResults
<1>8. Valid(t) <=> HasAddress(t) /\ t.bare
  BY DEF Valid
<1>b. /\ IsEmail(t) => HasAddress(t)
      /\ HasAddress(t) => t.kind # "word"
  BY DEF IsEmail, HasAddress
<1>9. u.valid = r.valid \/ (Valid(t) /\ u.valid = Append(r.valid, t))
  BY <1>4 DEF ParseResult
<1>10. v \in ParseResults
  <2>1. \A x \in Seq(Tokens), i \in Nat, d \in Nat : ParseResult(x, i, d) \in ParseResults
    BY DEF ParseResult, ParseResults
  <2>2. Append(q.valid, m) \in Seq(Tokens) /\ q.invalid + 1 \in Nat /\ q.duplicates + 1 \in Nat
    BY <1>3, <1>7
  <2> QED
    BY <1>1, <1>5, <1>7, <2>1, <2>2
<1>11. v.valid = q.valid \/ (IsEmail(t) /\ v.valid = Append(q.valid, m))
  BY <1>5 DEF ParseResult
<1>12. IsEmail(t) => \E j \in 1..Len(v.valid) : v.valid[j] = m
  BY <1>3, <1>5, <1>7, <1>b DEF ParseResult
<1>13. \A j \in 1..Len(q.valid) : j \in 1..Len(v.valid) /\ v.valid[j] = q.valid[j]
  BY <1>3, <1>7, <1>11
<1>c. \A i \in 1..Len(r.valid) : i \in 1..Len(u.valid) /\ u.valid[i] = r.valid[i]
  BY <1>1, <1>6, <1>9
<1>14. ASSUME NEW i \in 1..Len(u.valid), IsEmail(u.valid[i])
       PROVE  \E j \in 1..Len(v.valid) : v.valid[j] = Lower(u.valid[i])
  <2>1. CASE i \in 1..Len(r.valid) /\ u.valid[i] = r.valid[i]
    BY <1>13, <1>14, <2>1 DEF UploadSays
  <2>2. CASE u.valid[i] = t /\ Valid(t)
    BY <1>2, <1>8, <1>12, <1>14, <2>2
  <2> QED
    BY <1>1, <1>6, <1>9, <2>1, <2>2
<1>d. ASSUME NEW j \in 1..Len(v.valid)
      PROVE  /\ IsEmail(v.valid[j])
             /\ \/ \E i \in 1..Len(u.valid) : v.valid[j] = Lower(u.valid[i])
                \/ \E i \in 1..(k + 1) : ~text[i].bare /\ v.valid[j] = Match(text[i])
  <2>1. CASE j \in 1..Len(q.valid) /\ v.valid[j] = q.valid[j]
    <3>1. \A i \in 1..k : i \in 1..(k + 1)
      OBVIOUS
    <3> QED
      BY <1>c, <2>1, <3>1 DEF UploadSays
  <2>2. CASE IsEmail(t) /\ v.valid[j] = m
    <3>1. CASE t.bare
      <4>1. Valid(t) /\ Lower(t) = m /\ t.kind # "word"
        BY <1>2, <1>8, <1>b, <2>2, <3>1
      <4>2. IsEmail(v.valid[j])
        BY <1>3, <2>2
      <4>3. CASE \E i \in 1..Len(r.valid) : Key(r.valid[i]) = Key(t)
        BY <1>c, <2>2, <4>1, <4>2, <4>3 DEF Key
      <4>4. CASE u.valid = Append(r.valid, t)
        <5>1. Len(r.valid) + 1 \in 1..Len(u.valid) /\ u.valid[Len(r.valid) + 1] = t
          BY <1>1, <1>6, <4>4
        <5> QED
          BY <2>2, <4>1, <4>2, <5>1
      <4>5. ParseResult(Append(r.valid, t), r.invalid, r.duplicates).valid = Append(r.valid, t)
        BY DEF ParseResult
      <4> QED
        BY <1>4, <4>1, <4>3, <4>4, <4>5
    <3>2. CASE ~t.bare
      <4>1. k + 1 \in 1..(k + 1)
        OBVIOUS
      <4> QED
        BY <1>3, <1>a, <2>2, <3>2, <4>1
    <3> QED
      BY <3>1, <3>2
  <2>3. j \in 1..Len(q.valid) \/ (IsEmail(t) /\ v.valid[j] = m)
    BY <1>3, <1>7, <1>11
  <2> QED
    BY <1>13, <2>1, <2>2, <2>3
<1>15. ASSUME NoneHidden(text, k + 1) PROVE v.valid = Lowered(u.valid) /\ v.duplicates = u.duplicates
  <2>1. NoneHidden(text, k) /\ (HasAddress(t) => (t.bare <=> IsEmail(t)))
    BY <1>15 DEF NoneHidden, t
  <2>2. q.valid = Lowered(r.valid) /\ q.duplicates = r.duplicates
    BY <2>1 DEF UploadSays
  <2>3. CASE ~Valid(t)
    <3>1. ~(HasAddress(t) /\ IsEmail(t))
      BY <1>8, <2>1, <2>3
    <3>2. v.valid = q.valid /\ v.duplicates = q.duplicates
      BY <1>5, <3>1 DEF ParseResult
    <3>3. u.valid = r.valid /\ u.duplicates = r.duplicates
      BY <1>4, <2>3 DEF ParseResult
    <3> QED
      BY <2>2, <3>2, <3>3
  <2>4. CASE Valid(t)
    <3>a. HasAddress(t) /\ IsEmail(t) /\ t.bare /\ t.kind # "word"
      BY <1>8, <1>b, <2>1, <2>4
    <3>1. Len(q.valid) = Len(r.valid) /\ \A i \in 1..Len(r.valid) : q.valid[i] = Key(r.valid[i])
      BY <1>6, <2>2 DEF Lowered, Key
    <3>2. Key(t) = m
      BY <1>2, <3>a DEF Key
    <3>3. CASE \E i \in 1..Len(r.valid) : Key(r.valid[i]) = Key(t)
      <4>1. u = ParseResult(r.valid, r.invalid, r.duplicates + 1)
        BY <1>4, <2>4, <3>a, <3>3
      <4>2. v = ParseResult(q.valid, q.invalid, q.duplicates + 1)
        BY <1>5, <3>a, <3>1, <3>2, <3>3
      <4> QED
        BY <2>2, <4>1, <4>2 DEF ParseResult
    <3>4. CASE \A i \in 1..Len(r.valid) : Key(r.valid[i]) # Key(t)
      <4>1. u = ParseResult(Append(r.valid, t), r.invalid, r.duplicates)
        BY <1>4, <2>4, <3>a, <3>4
      <4>2. v = ParseResult(Append(q.valid, m), q.invalid, q.duplicates)
        BY <1>5, <3>a, <3>1, <3>2, <3>4
      <4>3. Append(q.valid, m) = Lowered(Append(r.valid, t))
        <5> DEFINE a == Append(r.valid, t)
                   b == Append(q.valid, m)
        <5>1. a \in Seq(Tokens) /\ b \in Seq(Tokens) /\ Len(a) = Len(r.valid) + 1 /\ Len(b) = Len(a)
          BY <1>1, <1>3, <1>6, <1>7, <3>1
        <5>2. \A i \in 1..Len(a) : a[i] = IF i <= Len(r.valid) THEN r.valid[i] ELSE t
          BY <1>1, <1>6
        <5>3. \A i \in 1..Len(b) : b[i] = IF i <= Len(q.valid) THEN q.valid[i] ELSE m
          BY <1>3, <1>7
        <5> HIDE DEF a, b
        <5>4. ASSUME NEW i \in 1..Len(a) PROVE b[i] = Lower(a[i])
          BY <1>6, <1>7, <3>1, <3>2, <5>1, <5>2, <5>3 DEF Key
        <5>5. b = [i \in 1..Len(b) |-> b[i]] /\ DOMAIN a = 1..Len(a)
          BY <5>1
        <5>6. b = Lowered(a)
          BY <5>1, <5>4, <5>5 DEF Lowered
        <5> QED
          BY <5>6 DEF a, b
      <4> QED
        BY <2>2, <4>1, <4>2, <4>3 DEF ParseResult
    <3> QED
      BY <3>3, <3>4
  <2> QED
    BY <2>3, <2>4
<1> QED
  BY <1>10, <1>14, <1>15, <1>d DEF UploadSays

\* What the two readers make of a text (components/RecipientUpload.tsx:21-43,
\* api/routes/upload.ts:60-95).
LEMMA Readings ==
    ASSUME NEW text \in Seq(Tokens)
    PROVE  /\ BoxSays(Extract(text), text, Len(text))
           /\ UploadSays(UploadCsv(text), Extract(text), text, Len(text))
<1>1. PICK h : /\ h[0] = NoAddresses
               /\ \A k \in 1..Len(text) : h[k] = ReadToken(h[k-1], text[k])
               /\ Extract(text) = h[Len(text)]
  BY BoxReads
<1>2. PICK f : /\ f[0] = NoAddresses
               /\ \A k \in 1..Len(text) : f[k] = ReadMatch(f[k-1], text[k])
               /\ UploadCsv(text) = f[Len(text)]
  BY UploadReads
<1> DEFINE T == {k \in Nat : k <= Len(text) => BoxSays(h[k], text, k) /\ UploadSays(f[k], h[k], text, k)}
<1>3. 0 \in T
  <2>1. NoAddresses \in ParseResults /\ NoAddresses.valid = <<>> /\ NoAddresses = ParseResult(<<>>, 0, 0)
    BY DEF NoAddresses, ParseResult, ParseResults
  <2>2. Entries(text, 0) = {}
    BY DEF Entries
  <2>3. Cardinality(Entries(text, 0)) = 0
    BY <2>2, FS_EmptySet
  <2>4. NoAddresses.invalid = 0 /\ NoAddresses.duplicates = 0
    BY <2>1 DEF ParseResult
  <2>5. BoxSays(NoAddresses, text, 0)
    BY <2>1, <2>3, <2>4 DEF BoxSays
  <2>6. Lowered(<<>>) = <<>>
    BY DEF Lowered
  <2>7. UploadSays(NoAddresses, NoAddresses, text, 0)
    BY <2>1, <2>6 DEF UploadSays
  <2> QED
    BY <1>1, <1>2, <2>5, <2>7
<1>4. ASSUME NEW k \in Nat, k \in T PROVE k + 1 \in T
  <2> SUFFICES ASSUME k + 1 <= Len(text)
               PROVE  BoxSays(h[k + 1], text, k + 1) /\ UploadSays(f[k + 1], h[k + 1], text, k + 1)
    OBVIOUS
  <2>1. k + 1 \in 1..Len(text) /\ k <= Len(text) /\ (k + 1) - 1 = k
    OBVIOUS
  <2>2. text[k + 1] \in Tokens
    BY <2>1
  <2>3. h[k + 1] = ReadToken(h[k], text[k + 1])
    BY <1>1, <2>1
  <2>4. f[k + 1] = ReadMatch(f[k], text[k + 1])
    BY <1>2, <2>1
  <2>5. BoxSays(h[k], text, k) /\ UploadSays(f[k], h[k], text, k)
    BY <1>4, <2>1
  <2> HIDE DEF T
  <2> QED
    BY <2>2, <2>3, <2>4, <2>5, BoxKeeps, UploadKeeps
<1> HIDE DEF T
<1>5. Len(text) \in Nat /\ Len(text) <= Len(text)
  OBVIOUS
<1>6. Len(text) \in T
  BY <1>3, <1>4, <1>5, SetInduction
<1>7. BoxSays(h[Len(text)], text, Len(text)) /\ UploadSays(f[Len(text)], h[Len(text)], text, Len(text))
  BY <1>5, <1>6 DEF T
<1> QED
  BY <1>1, <1>2, <1>7

-----------------------------------------------------------------------------
USE ComposeAssumption

\* The presses that have left a trace.
Traces == posts \cup campaigns

\* What a request is made of, and that its number names it.
Shape(p) ==
    p = [no |-> p.no, draft |-> p.draft, to |-> p.to, settings |-> p.settings,
         stage |-> p.stage, awaited |-> p.awaited]

PostShape ==
    /\ \A p \in posts : Shape(p)
    /\ \A p, q \in posts : p.no = q.no => p = q

Counters ==
    /\ drafts \in Nat /\ presses \in Nat /\ draft \in 0..drafts /\ submitting \in BOOLEAN
    /\ draft = 0 => problems # {}
    /\ \A x \in Traces : x.no \in 1..presses /\ x.draft \in 1..drafts

\* The form awaits the last press or none; a press given up was given up with
\* an error.
Awaiting ==
    \A p \in posts : IF p.awaited THEN submitting /\ p.no = presses ELSE p.no \in errors

\* The draft in the form has been pressed before only in vain, or just now.
PressedInVain ==
    \A x \in Traces : x.draft = draft => x.no \in errors \/ (submitting /\ x.no = presses)

OneEach ==
    \A a, b \in Traces : a.draft = b.draft /\ a.no < b.no => a.no \in errors

PressInv == PostShape /\ Counters /\ Awaiting /\ PressedInVain /\ OneEach

-----------------------------------------------------------------------------

LEMMA EditDraft ==
    ASSUME NEW d, NEW s, NEW r, Edit(d, s, r), draft = 0 => problems # {}
    PROVE  draft' = d /\ (draft' = 0 => problems' # {})
<1>1. d = 0 => "draft" \in Problems(d, s, r)
  BY DEF Problems
<1> QED
  BY <1>1 DEF Edit

LEMMA HandleDraft ==
    ASSUME NEW text, Handle(text), draft = 0 => problems # {}
    PROVE  draft' = draft /\ (draft' = 0 => problems' # {})
<1>1. PICK r : Edit(draft, settings, r)
  BY DEF Handle
<1> QED
  BY <1>1, EditDraft

\* A step that adds no trace, and no new press, preserves everything said of them.
LEMMA TracesKept ==
    ASSUME PressInv,
           \A x \in Traces' : \E y \in Traces : y.no = x.no /\ y.draft = x.draft,
           errors \subseteq errors', presses' = presses, drafts' = drafts
    PROVE  /\ \A x \in Traces' : x.no \in 1..presses' /\ x.draft \in 1..drafts'
           /\ OneEach'
  BY DEF PressInv, Counters, OneEach

LEMMA PressInit == Init => PressInv
<1> SUFFICES ASSUME Init PROVE PressInv
  OBVIOUS
<1>1. "draft" \in problems /\ draft = 0 /\ drafts = 0 /\ presses = 0
  BY DEF Init, Problems
<1>2. submitting \in BOOLEAN
  BY DEF Init
<1>3. posts = {} /\ campaigns = {}
  BY DEF Init
<1> QED
  BY <1>1, <1>2, <1>3
     DEF PressInv, PostShape, Counters, Awaiting, PressedInVain, OneEach, Traces

\* The form is edited, its draft included or not; no request moves.
LEMMA EditKeeps ==
    ASSUME PressInv, draft' = draft, draft' = 0 => problems' # {},
           UNCHANGED <<submitting, net, past>>
    PROVE  PressInv'
  BY DEF PressInv, PostShape, Counters, Awaiting, PressedInVain, OneEach, Traces, net, past

LEMMA WriteKeeps == ASSUME PressInv, Write PROVE PressInv'
<1>1. draft' = drafts + 1 /\ (draft' = 0 => problems' # {})
  BY EditDraft DEF Write, PressInv, Counters
<1>2. drafts' = drafts + 1 /\ UNCHANGED <<submitting, posts, campaigns, presses, errors>>
  BY DEF Write, net
<1>3. Counters'
  BY <1>1, <1>2 DEF PressInv, Counters, Traces
<1>4. PressedInVain'
  BY <1>1, <1>2 DEF PressInv, Counters, PressedInVain, Traces
<1> QED
  BY <1>2, <1>3, <1>4 DEF PressInv, PostShape, Awaiting, OneEach, Traces

LEMMA SubmitKeeps == ASSUME PressInv, Submit PROVE PressInv'
<1> DEFINE p == [no |-> presses + 1, draft |-> draft, to |-> recipients.valid,
                 settings |-> settings, stage |-> "sent", awaited |-> TRUE]
<1>1. /\ problems = {} /\ ~submitting /\ submitting'
      /\ posts' = posts \cup {p} /\ presses' = presses + 1
      /\ UNCHANGED <<draft, problems, campaigns, drafts, errors>>
  BY DEF Submit, Press
<1>2. p.no = presses + 1 /\ p.draft = draft /\ p.awaited = TRUE
  OBVIOUS
<1>3. Shape(p)
  BY DEF Shape
<1>4. Traces' = Traces \cup {p} /\ submitting' \in BOOLEAN
  BY <1>1 DEF Traces, Submit, Press
<1>5. draft \in 1..drafts
  BY <1>1 DEF PressInv, Counters
<1> HIDE DEF p
<1>6. PostShape'
  BY <1>1, <1>2, <1>3 DEF PressInv, PostShape, Counters, Traces
<1>7. Counters'
  BY <1>1, <1>2, <1>4, <1>5 DEF PressInv, Counters
<1>8. Awaiting'
  BY <1>1, <1>2 DEF PressInv, Awaiting, PostShape
<1>9. \A x \in Traces : x.draft = draft => x.no \in errors
  BY <1>1 DEF PressInv, PressedInVain
<1>10. PressedInVain'
  BY <1>1, <1>2, <1>4, <1>9 DEF PressedInVain
<1>11. OneEach'
  BY <1>1, <1>2, <1>4, <1>9 DEF PressInv, OneEach, Counters
<1> QED
  BY <1>6, <1>7, <1>8, <1>10, <1>11 DEF PressInv

LEMMA ServeKeeps == ASSUME PressInv, NEW p \in posts, Serve(p) PROVE PressInv'
<1>1. PICK stage : Outcome(p, stage)
  BY DEF Serve
<1> DEFINE q == [p EXCEPT !.stage = stage]
<1>2. q = [no |-> p.no, draft |-> p.draft, to |-> p.to, settings |-> p.settings,
           stage |-> stage, awaited |-> p.awaited]
  BY DEF PressInv, PostShape, Shape
<1>3. q.no = p.no /\ q.draft = p.draft /\ q.awaited = p.awaited /\ Shape(q)
  BY <1>2 DEF Shape
<1>4. posts' \subseteq (posts \ {p}) \cup {q}
  BY <1>1 DEF Outcome
<1> HIDE DEF q
<1>5. UNCHANGED <<draft, problems, submitting, drafts, presses, errors>>
  BY DEF Serve, form, past
<1>6. \A c \in campaigns' : c \in campaigns \/ (c.no = p.no /\ c.draft = p.draft)
  BY DEF Serve
<1>7. \A x \in Traces' : \E y \in Traces : y.no = x.no /\ y.draft = x.draft
  BY <1>3, <1>4, <1>6 DEF Traces
<1>8. PostShape' /\ Awaiting'
  BY <1>3, <1>4, <1>5 DEF PressInv, PostShape, Awaiting
<1>9. PressedInVain'
  BY <1>5, <1>7 DEF PressInv, PressedInVain
<1>10. Counters'
  BY <1>5, <1>7, TracesKept DEF PressInv, Counters
<1> QED
  BY <1>5, <1>7, <1>8, <1>9, <1>10, TracesKept DEF PressInv

LEMMA SucceedKeeps == ASSUME PressInv, NEW p \in posts, Succeed(p) PROVE PressInv'
<1>1. draft' = 0 /\ problems' # {}
  BY EditDraft DEF Succeed, PressInv, Counters
<1>2. /\ posts' = posts \ {p} /\ p.awaited /\ submitting' = FALSE
      /\ UNCHANGED <<campaigns, drafts, presses, errors>>
  BY DEF Succeed, past
<1>3. \A x \in Traces' : x \in Traces
  BY <1>2 DEF Traces
<1>4. PostShape' /\ Awaiting'
  BY <1>2 DEF PressInv, PostShape, Awaiting
<1>5. submitting' \in BOOLEAN
  BY <1>2
<1>6. \A x \in Traces' : x.no \in 1..presses' /\ x.draft \in 1..drafts'
  BY <1>2, <1>3 DEF PressInv, Counters
<1>7. Counters' /\ PressedInVain'
  BY <1>1, <1>2, <1>5, <1>6 DEF PressInv, Counters, PressedInVain
<1> QED
  BY <1>2, <1>3, <1>4, <1>7 DEF PressInv, OneEach

LEMMA ShapeAwaited ==
    ASSUME NEW p, Shape(p), NEW v, NEW q, q = [p EXCEPT !.awaited = v]
    PROVE  q.no = p.no /\ q.draft = p.draft /\ q.awaited = v /\ Shape(q)
<1>1. q = [no |-> p.no, draft |-> p.draft, to |-> p.to, settings |-> p.settings,
           stage |-> p.stage, awaited |-> v]
  BY DEF Shape
<1> QED
  BY <1>1 DEF Shape

LEMMA ErrorKeeps ==
    ASSUME PressInv, NEW p \in posts, p.awaited, ShowError(p),
           posts' = posts \ {p} \/ posts' = (posts \ {p}) \cup {[p EXCEPT !.awaited = FALSE]}
    PROVE  PressInv'
<1> DEFINE q == [p EXCEPT !.awaited = FALSE]
<1>1. Shape(p)
  BY DEF PressInv, PostShape
<1>2. q.no = p.no /\ q.draft = p.draft /\ q.awaited = FALSE /\ Shape(q)
  BY <1>1, ShapeAwaited
<1>3. posts' \subseteq (posts \ {p}) \cup {q}
  OBVIOUS
<1> HIDE DEF q
<1>4. /\ errors' = errors \cup {p.no} /\ submitting' = FALSE
      /\ UNCHANGED <<draft, problems, campaigns, drafts, presses>>
  BY DEF ShowError
<1>5. \A x \in Traces' : \E y \in Traces : y.no = x.no /\ y.draft = x.draft
  BY <1>2, <1>3, <1>4 DEF Traces
<1>6. p.no = presses
  BY DEF PressInv, Awaiting
<1>7. PostShape'
  BY <1>2, <1>3 DEF PressInv, PostShape
<1>8. Awaiting'
  BY <1>2, <1>3, <1>4, <1>6 DEF PressInv, PostShape, Awaiting
<1>9. PressedInVain'
  BY <1>4, <1>5, <1>6 DEF PressInv, PressedInVain
<1>10. submitting' \in BOOLEAN
  BY <1>4
<1>11. Counters'
  BY <1>4, <1>5, <1>10, TracesKept DEF PressInv, Counters
<1> QED
  BY <1>4, <1>5, <1>7, <1>8, <1>9, <1>11, TracesKept DEF PressInv

LEMMA PressNext == PressInv /\ [Next]_vars => PressInv'
<1> SUFFICES ASSUME PressInv, [Next]_vars PROVE PressInv'
  OBVIOUS
<1>a. draft = 0 => problems # {}
  BY DEF PressInv, Counters
<1>1. ASSUME NEW s \in Settings, Choose(s) PROVE PressInv'
  BY <1>1, <1>a, EditDraft, EditKeeps DEF Choose
<1>2. ASSUME NEW text \in Texts, Paste(text) \/ Read(text) PROVE PressInv'
  BY <1>2, <1>a, HandleDraft, EditKeeps DEF Paste, Read
<1>3. ASSUME NEW text \in Texts, Pick(text) PROVE PressInv'
  BY <1>3, <1>a, EditKeeps DEF Pick, form
<1>4. ASSUME NEW p \in posts, Refuse(p) PROVE PressInv'
  BY <1>4, ErrorKeeps DEF Refuse
<1>5. ASSUME NEW p \in posts, GiveUp(p) PROVE PressInv'
  BY <1>5, ErrorKeeps DEF GiveUp
<1>6. ASSUME TimePasses \/ UNCHANGED vars PROVE PressInv'
  BY <1>6, <1>a, EditKeeps DEF TimePasses, vars, form
<1> QED
  BY <1>1, <1>2, <1>3, <1>4, <1>5, <1>6, WriteKeeps, SubmitKeeps, ServeKeeps, SucceedKeeps
     DEF Next, User, Network

\* A second campaign of the same draft exists only if the user was shown an error
\* for the first, whatever requests are lost, late or carried out after they were
\* given up (app/dashboard/page.tsx:52-73 and 174, api/routes/campaigns.ts:22-62).
THEOREM NeverSilentlyDoubled == Spec => []NoSilentDouble
<1>1. PressInv => NoSilentDouble
  BY DEF PressInv, OneEach, NoSilentDouble, Traces
<1> QED
  BY <1>1, PressInit, PressNext, PTL DEF Spec

-----------------------------------------------------------------------------
\* Whatever texts are pasted and files arrive, the form would post what the box
\* shows, or nothing (components/RecipientUpload.tsx:52-77).
THEOREM AlwaysSentAsShown == Spec => []SentWasShown
<1>0. NoAddresses.valid = <<>>
  BY DEF NoAddresses, ParseResult
<1>1. Init => SentWasShown
  BY <1>0 DEF Init, SentWasShown
<1>2. SentWasShown /\ [Next]_vars => SentWasShown'
  <2> SUFFICES ASSUME SentWasShown, [Next]_vars PROVE SentWasShown'
    OBVIOUS
  <2> USE DEF SentWasShown
  <2>1. ASSUME NEW text \in Texts, Paste(text) \/ Read(text) PROVE SentWasShown'
    BY <1>0, <2>1 DEF Paste, Read, Handle, Edit
  <2>2. ASSUME NEW p \in posts, Succeed(p) PROVE SentWasShown'
    BY <1>0, <2>2 DEF Succeed, Edit
  <2>3. ASSUME UNCHANGED <<recipients, shown>> PROVE SentWasShown'
    BY <2>3
  <2>4. ASSUME Write \/ (\E s \in Settings : Choose(s)) PROVE UNCHANGED <<recipients, shown>>
    BY <2>4 DEF Write, Choose, Edit, box
  <2>5. ASSUME (\E text \in Texts : Pick(text)) \/ Submit PROVE UNCHANGED <<recipients, shown>>
    BY <2>5 DEF Pick, Submit, Press, form, box
  <2>6. ASSUME NEW p \in posts, Serve(p) \/ Refuse(p) \/ GiveUp(p)
        PROVE UNCHANGED <<recipients, shown>>
    BY <2>6 DEF Serve, Refuse, GiveUp, ShowError, form, box
  <2>7. ASSUME TimePasses \/ UNCHANGED vars PROVE UNCHANGED <<recipients, shown>>
    BY <2>7 DEF TimePasses, vars, form, box
  <2> QED
    BY <2>1, <2>2, <2>3, <2>4, <2>5, <2>6, <2>7 DEF Next, User, Network
<1> QED
  BY <1>1, <1>2, PTL DEF Spec

-----------------------------------------------------------------------------
\* The box shows what its text gives, and the form has that or nothing.
BoxInv ==
    /\ source \in Texts \cup {<<>>}
    /\ shown = IF source = <<>> THEN NoResult ELSE Extract(source)
    /\ recipients = NoAddresses \/ (source # <<>> /\ recipients = Extract(source))
    /\ reading \subseteq Texts

LEMMA BoxInit == Init => BoxInv
  BY DEF Init, BoxInv

LEMMA HandleBox ==
    ASSUME NEW text \in Texts, Handle(text)
    PROVE  /\ source' = text
           /\ shown' = IF text = <<>> THEN NoResult ELSE Extract(text)
           /\ recipients' = IF text = <<>> THEN NoAddresses ELSE Extract(text)
  BY DEF Handle, Edit

LEMMA BoxNext == BoxInv /\ [Next]_vars => BoxInv'
<1> SUFFICES ASSUME BoxInv, [Next]_vars PROVE BoxInv'
  OBVIOUS
<1>1. ASSUME NEW text \in Texts, Paste(text) PROVE BoxInv'
  BY <1>1, HandleBox DEF BoxInv, Paste
<1>2. ASSUME NEW text \in Texts, Read(text) PROVE BoxInv'
  BY <1>2, HandleBox DEF BoxInv, Read
<1>3. ASSUME NEW text \in Texts, Pick(text) PROVE BoxInv'
  BY <1>3 DEF BoxInv, Pick, form
<1>4. ASSUME NEW p \in posts, Succeed(p) PROVE BoxInv'
  BY <1>4 DEF BoxInv, Succeed, Edit, box
<1>5. ASSUME UNCHANGED <<recipients, shown, source, reading>> PROVE BoxInv'
  BY <1>5 DEF BoxInv
<1>6. ASSUME Write \/ (\E s \in Settings : Choose(s)) PROVE UNCHANGED <<recipients, shown, source, reading>>
  BY <1>6 DEF Write, Choose, Edit, box
<1>7. ASSUME Submit \/ TimePasses \/ UNCHANGED vars PROVE UNCHANGED <<recipients, shown, source, reading>>
  BY <1>7 DEF Submit, Press, TimePasses, vars, form, box
<1>8. ASSUME NEW p \in posts, Serve(p) \/ Refuse(p) \/ GiveUp(p)
      PROVE UNCHANGED <<recipients, shown, source, reading>>
  BY <1>8 DEF Serve, Refuse, GiveUp, ShowError, form, box
<1> QED
  BY <1>1, <1>2, <1>3, <1>4, <1>5, <1>6, <1>7, <1>8 DEF Next, User, Network

LEMMA SourceIsText == BoxInv => source \in Seq(Tokens)
<1>1. <<>> \in Seq(Tokens)
  OBVIOUS
<1> QED
  BY <1>1, TextsAssumption, Zenon DEF BoxInv

\* On every text, the box and the upload endpoint differ in two ways only: by the
\* addresses that isEmail refuses, and by those cut out of more
\* (api/routes/upload.ts:60-95, components/RecipientUpload.tsx:21-43).
THEOREM UploadDriftKnown == Spec => []UploadDrift
<1>1. ASSUME BoxInv, shown # NoResult
      PROVE  LET csv == UploadCsv(source)
                 lowered == [i \in DOMAIN shown.valid |-> Lower(shown.valid[i])]
             IN
             /\ Len(shown.valid) + shown.invalid + shown.duplicates =
                  Cardinality({i \in DOMAIN source : source[i].kind # "word"})
             /\ \A t \in ToSet(lowered) : t \in ToSet(csv.valid) <=> IsEmail(t)
             /\ \A t \in ToSet(csv.valid) \ ToSet(lowered) :
                  \E s \in ToSet(source) : ~s.bare /\ Match(s) = t
             /\ (\A t \in ToSet(source) : HasAddress(t) => (t.bare <=> IsEmail(t))) =>
                  csv.valid = lowered /\ csv.duplicates = shown.duplicates
  <2> DEFINE r == Extract(source)
             q == UploadCsv(source)
             n == Len(source)
  <2>1. source \in Seq(Tokens) /\ shown = r
    BY <1>1, SourceIsText DEF BoxInv
  <2>2. BoxSays(r, source, n) /\ UploadSays(q, r, source, n)
    BY <2>1, Readings
  <2>3. DOMAIN source = 1..n /\ \A i \in 1..n : source[i] \in ToSet(source)
    BY <2>1 DEF ToSet
  <2> HIDE DEF r, q, n
  <2>4. r.valid \in Seq(Tokens) /\ q.valid \in Seq(Tokens)
    BY <2>2 DEF BoxSays, UploadSays, ParseResults
  <2>5. Len(r.valid) + r.invalid + r.duplicates = Cardinality({i \in DOMAIN source : source[i].kind # "word"})
    BY <2>2, <2>3 DEF BoxSays, Entries
  <2>6. \A t : t \in ToSet(q.valid) <=> \E j \in 1..Len(q.valid) : q.valid[j] = t
    BY <2>4 DEF ToSet
  <2>7. \A t : t \in ToSet(Lowered(r.valid)) <=> \E i \in 1..Len(r.valid) : t = Lower(r.valid[i])
    <3>1. DOMAIN Lowered(r.valid) = 1..Len(r.valid)
      BY <2>4 DEF Lowered
    <3>2. \A i \in 1..Len(r.valid) : Lowered(r.valid)[i] = Lower(r.valid[i])
      BY <2>4 DEF Lowered
    <3> QED
      BY <3>1, <3>2 DEF ToSet
  <2>8. ASSUME NEW t \in ToSet(Lowered(r.valid)) PROVE t \in ToSet(q.valid) <=> IsEmail(t)
    <3>1. PICK i \in 1..Len(r.valid) : t = Lower(r.valid[i])
      BY <2>7
    <3>2. IsEmail(t) <=> IsEmail(r.valid[i])
      BY <2>4, <3>1, LowerToken
    <3>3. IsEmail(r.valid[i]) => t \in ToSet(q.valid)
      BY <2>2, <2>6, <3>1 DEF UploadSays
    <3>4. t \in ToSet(q.valid) => IsEmail(t)
      BY <2>2, <2>6 DEF UploadSays
    <3> QED
      BY <3>2, <3>3, <3>4
  <2>9. ASSUME NEW t \in ToSet(q.valid) \ ToSet(Lowered(r.valid))
        PROVE  \E s \in ToSet(source) : ~s.bare /\ Match(s) = t
    <3>1. PICK j \in 1..Len(q.valid) : q.valid[j] = t
      BY <2>6, <2>9
    <3>2. PICK i \in 1..n : ~source[i].bare /\ q.valid[j] = Match(source[i])
      BY <2>2, <2>7, <2>9, <3>1 DEF UploadSays
    <3> QED
      BY <2>3, <3>1, <3>2
  <2>10. (\A t \in ToSet(source) : HasAddress(t) => (t.bare <=> IsEmail(t))) =>
           q.valid = Lowered(r.valid) /\ q.duplicates = r.duplicates
    BY <2>2, <2>3 DEF UploadSays, NoneHidden
  <2> QED
    BY <2>1, <2>5, <2>8, <2>9, <2>10 DEF Lowered, q
<1>2. BoxInv => UploadDrift
  BY <1>1 DEF UploadDrift
<1> QED
  BY <1>2, BoxInit, BoxNext, PTL DEF Spec

-----------------------------------------------------------------------------
\* No mailbox twice.
Listed(to) ==
    /\ to \in Seq(Tokens)
    /\ \A i, j \in 1..Len(to) : Key(to[i]) = Key(to[j]) => i = j

LEMMA RecipientsListed == BoxInv => Listed(recipients.valid) /\ recipients \in ParseResults
<1> SUFFICES ASSUME BoxInv PROVE Listed(recipients.valid) /\ recipients \in ParseResults
  OBVIOUS
<1>1. BoxSays(Extract(source), source, Len(source))
  BY SourceIsText, Readings
<1>2. Extract(source) \in ParseResults /\ Listed(Extract(source).valid)
  BY <1>1 DEF BoxSays, Listed, ParseResults
<1>3. NoAddresses \in ParseResults /\ NoAddresses.valid = <<>>
  BY DEF NoAddresses, ParseResult, ParseResults
<1>4. Listed(<<>>)
  BY DEF Listed
<1> QED
  BY <1>2, <1>3, <1>4 DEF BoxInv

LEMMA RowsCounted ==
    ASSUME NEW to, Listed(to)
    PROVE  /\ Len(to) = Cardinality(RowsOf(to))
           /\ \A t, u \in RowsOf(to) : Lower(t) = Lower(u) => t = u
<1>1. to \in Seq(Tokens) /\ Len(to) \in Nat /\ DOMAIN to = 1..Len(to)
  BY DEF Listed
<1>2. \A i \in 1..Len(to) : to[i] \in Tokens /\ to[i] \in RowsOf(to)
  BY <1>1 DEF RowsOf, ToSet
<1>3. \A t \in RowsOf(to) : \E i \in 1..Len(to) : t = to[i]
  BY <1>1 DEF RowsOf, ToSet
<1>4. to \in [1..Len(to) -> RowsOf(to)]
  BY <1>1, <1>2
<1>5. \A i, j \in 1..Len(to) : to[i] = to[j] => i = j
  BY DEF Listed
<1>6. to \in Bijection(1..Len(to), RowsOf(to))
  BY <1>3, <1>4, <1>5, <1>1 DEF Bijection, Injection, Surjection, IsInjective
<1>7. ExistsBijection(1..Len(to), RowsOf(to))
  BY <1>6 DEF ExistsBijection
<1>8. Cardinality(RowsOf(to)) = Len(to)
  BY <1>1, <1>7, FS_CountingElements
<1>9. \A i, j \in 1..Len(to) : Lower(to[i]) = Lower(to[j]) => i = j
  BY DEF Listed, Key
<1> QED
  BY <1>3, <1>8, <1>9

RowsInv == TotalsTrue /\ \A p \in posts : Listed(p.to)

LEMMA RowsNext == PressInv /\ BoxInv /\ RowsInv /\ [Next]_vars => RowsInv'
<1> SUFFICES ASSUME PressInv, BoxInv, RowsInv, [Next]_vars PROVE RowsInv'
  OBVIOUS
<1>1. ASSUME Submit PROVE RowsInv'
  <2> DEFINE p == [no |-> presses + 1, draft |-> draft, to |-> recipients.valid,
                   settings |-> settings, stage |-> "sent", awaited |-> TRUE]
  <2>1. posts' = posts \cup {p} /\ p.to = recipients.valid /\ campaigns' = campaigns
    BY <1>1 DEF Submit, Press
  <2> QED
    BY <2>1, RecipientsListed DEF RowsInv, TotalsTrue
<1>2. ASSUME NEW p \in posts, Serve(p) PROVE RowsInv'
  <2>1. PICK stage : Outcome(p, stage)
    BY <1>2 DEF Serve
  <2> DEFINE q == [p EXCEPT !.stage = stage]
  <2>2. q.to = p.to
    BY DEF PressInv, PostShape, Shape
  <2>3. \A x \in posts' : x \in posts \/ x = q
    BY <2>1 DEF Outcome
  <2> HIDE DEF q
  <2>4. \A x \in posts' : Listed(x.to)
    BY <2>2, <2>3 DEF RowsInv
  <2>5. CASE campaigns' = campaigns
    BY <2>4, <2>5 DEF RowsInv, TotalsTrue
  <2>6. CASE Accepted(p) /\ campaigns' = campaigns \cup
               {[no |-> p.no, draft |-> p.draft, total |-> Len(p.to), rows |-> RowsOf(p.to)]}
    <3> DEFINE c == [no |-> p.no, draft |-> p.draft, total |-> Len(p.to), rows |-> RowsOf(p.to)]
    <3>1. c.total = Len(p.to) /\ c.rows = RowsOf(p.to)
      OBVIOUS
    <3>2. AddressesAccepted(p.to)
      BY <2>6, Zenon DEF Accepted
    <3>3. \A x \in campaigns' : x \in campaigns \/ x = c
      BY <2>6
    <3> HIDE DEF c
    <3>4. Listed(p.to)
      BY DEF RowsInv
    <3>5. TotalsTrue'
      BY <3>1, <3>2, <3>3, <3>4, RowsCounted DEF RowsInv, TotalsTrue
    <3> QED
      BY <2>4, <3>5 DEF RowsInv
  <2> QED
    BY <1>2, <2>5, <2>6 DEF Serve
<1>3. ASSUME NEW p \in posts, GiveUp(p) PROVE RowsInv'
  <2> DEFINE q == [p EXCEPT !.awaited = FALSE]
  <2>1. q.to = p.to
    BY DEF PressInv, PostShape, Shape
  <2>2. \A x \in posts' : x \in posts \/ x = q
    BY <1>3 DEF GiveUp
  <2> HIDE DEF q
  <2>3. campaigns' = campaigns
    BY <1>3 DEF GiveUp, ShowError
  <2> QED
    BY <2>1, <2>2, <2>3 DEF RowsInv, TotalsTrue
<1>4. ASSUME posts' \subseteq posts, campaigns' = campaigns PROVE RowsInv'
  BY <1>4 DEF RowsInv, TotalsTrue
<1>5. ASSUME NEW p \in posts, Succeed(p) \/ Refuse(p) PROVE posts' \subseteq posts /\ campaigns' = campaigns
  BY <1>5 DEF Succeed, Refuse, ShowError
<1>6. ASSUME Write \/ (\E s \in Settings : Choose(s)) PROVE posts' \subseteq posts /\ campaigns' = campaigns
  BY <1>6 DEF Write, Choose, net
<1>7. ASSUME \E text \in Texts : Paste(text) \/ Pick(text) \/ Read(text)
      PROVE  posts' \subseteq posts /\ campaigns' = campaigns
  BY <1>7 DEF Paste, Pick, Read, net
<1>8. ASSUME TimePasses \/ UNCHANGED vars PROVE posts' \subseteq posts /\ campaigns' = campaigns
  BY <1>8 DEF TimePasses, vars, net
<1> QED
  BY <1>1, <1>2, <1>3, <1>4, <1>5, <1>6, <1>7, <1>8 DEF Next, User, Network

\* A campaign's total is the number of its rows, and each row another mailbox,
\* whatever was pasted or uploaded (components/RecipientUpload.tsx:28-40,
\* api/routes/campaigns.ts:42-62).
THEOREM TotalsAlwaysTrue == Spec => []TotalsTrue
<1>1. Init => RowsInv
  BY DEF Init, RowsInv, TotalsTrue
<1> QED
  BY <1>1, PressInit, PressNext, BoxInit, BoxNext, RowsNext, PTL DEF Spec, RowsInv

-----------------------------------------------------------------------------
\* A problem that is listed still stands, though the list is not computed again
\* when time passes: a start that was too early is still too early.
Standing ==
    /\ now \in Int /\ settings \in Settings
    /\ problems \subseteq Problems(draft, settings, recipients)

LEMMA EditStanding ==
    ASSUME BoxInv, Standing, NEW d, NEW s \in Settings, NEW r, r.valid \in Seq(Tokens),
           Edit(d, s, r), now' = now
    PROVE  Standing'
<1>1. Problems(draft, settings, recipients)' = Problems(d, s, r)
  BY DEF Problems, Edit
<1>2. CASE <<d, s, Len(r.valid)>> = <<draft, settings, Len(recipients.valid)>>
  <2>1. r.valid = <<>> <=> recipients.valid = <<>>
    BY <1>2, RecipientsListed DEF Listed
  <2>2. Problems(d, s, r) = Problems(draft, settings, recipients)
    BY <1>2, <2>1 DEF Problems
  <2> QED
    BY <1>1, <1>2, <2>2 DEF Standing, Edit
<1>3. CASE <<d, s, Len(r.valid)>> # <<draft, settings, Len(recipients.valid)>>
  BY <1>1, <1>3 DEF Standing, Edit
<1> QED
  BY <1>2, <1>3

LEMMA StandingNext == BoxInv /\ BoxInv' /\ Standing /\ [Next]_vars => Standing'
<1> SUFFICES ASSUME BoxInv, BoxInv', Standing, [Next]_vars PROVE Standing'
  OBVIOUS
<1>0. recipients'.valid \in Seq(Tokens) /\ recipients.valid \in Seq(Tokens)
  <2>1. Listed(recipients.valid) /\ Listed(recipients.valid)'
    BY RecipientsListed, PTL
  <2> QED
    BY <2>1 DEF Listed
<1>1. ASSUME Write PROVE Standing'
  BY <1>0, <1>1, EditStanding DEF Write, Standing
<1>2. ASSUME NEW s \in Settings, Choose(s) PROVE Standing'
  BY <1>0, <1>2, EditStanding DEF Choose
<1>3. ASSUME NEW text \in Texts, Paste(text) \/ Read(text) PROVE Standing'
  <2>1. PICK r : Edit(draft, settings, r)
    BY <1>3 DEF Paste, Read, Handle
  <2>2. r = recipients' /\ now' = now
    BY <1>3, <2>1 DEF Edit, Paste, Read
  <2> QED
    BY <1>0, <2>1, <2>2, EditStanding DEF Standing
<1>4. ASSUME NEW p \in posts, Succeed(p) PROVE Standing'
  <2>1. Edit(0, settings, NoAddresses) /\ recipients' = NoAddresses /\ now' = now
    BY <1>4 DEF Succeed, Edit
  <2> QED
    BY <1>0, <2>1, EditStanding DEF Standing
<1>5. ASSUME UNCHANGED <<now, draft, settings, recipients, problems>> PROVE Standing'
  BY <1>5 DEF Standing, Problems
<1>6. ASSUME TimePasses PROVE Standing'
  <2>1. \A s \in Settings : s.startAt \in Int
    OBVIOUS
  <2>2. Problems(draft, settings, recipients) \subseteq Problems(draft, settings, recipients)'
    BY <1>6, <2>1 DEF Standing, Problems, TimePasses, form
  <2> QED
    BY <1>6, <2>2 DEF Standing, TimePasses, form
<1>7. ASSUME (\E text \in Texts : Pick(text)) \/ Submit \/ UNCHANGED vars
      PROVE  UNCHANGED <<now, draft, settings, recipients, problems>>
  BY <1>7 DEF Pick, Submit, Press, vars, form
<1>8. ASSUME NEW p \in posts, Serve(p) \/ Refuse(p) \/ GiveUp(p)
      PROVE  UNCHANGED <<now, draft, settings, recipients, problems>>
  BY <1>8 DEF Serve, Refuse, GiveUp, ShowError, form
<1> QED
  BY <1>1, <1>2, <1>3, <1>4, <1>5, <1>6, <1>7, <1>8 DEF Next, User, Network

\* The form never holds back what the server would accept, however long ago the
\* list of problems was computed (app/dashboard/page.tsx:29-40).
THEOREM FormNeverOverstrict == Spec => []NeverOverstrict
<1>1. Init => Standing
  BY DEF Init, Standing
<1>2. Standing => NeverOverstrict
  <2> DEFINE p == [draft |-> draft, to |-> recipients.valid, settings |-> settings]
  <2> SUFFICES ASSUME Standing, Accepted(p) PROVE problems = {}
    BY DEF NeverOverstrict
  <2>1. p.draft = draft /\ p.to = recipients.valid /\ p.settings = settings
    OBVIOUS
  <2> HIDE DEF p
  <2>2. draft # 0 /\ recipients.valid # <<>>
    BY <2>1 DEF Accepted, AddressesAccepted
  <2>3. settings.startAt > now + 1 /\ settings.delaySec \in 0..MaxDelay /\ settings.maxPerHour \in 1..MaxHourly
    BY <2>1 DEF Accepted
  <2>4. settings.startAt \in Int /\ now \in Int
    BY DEF Standing
  <2>5. ~(settings.startAt < now + 1) /\ ~(settings.delaySec < 0) /\ ~(settings.maxPerHour < 1)
    BY <2>3, <2>4
  <2>6. Problems(draft, settings, recipients) = {}
    BY <2>2, <2>5 DEF Problems, DelayProblem
  <2> QED
    BY <2>6 DEF Standing
<1> QED
  BY <1>1, <1>2, BoxInit, BoxNext, StandingNext, PTL DEF Spec

-----------------------------------------------------------------------------
\* The rest of the types, and that a form that is submitting awaits a request.
PostOK(p) ==
    /\ p.to \in Seq(Tokens) /\ p.settings \in Settings
    /\ p.stage \in {"sent", "created", "refused"} /\ p.awaited \in BOOLEAN

FormOK ==
    /\ now \in 0..LastMinute /\ settings \in Settings
    /\ drafts \in 0..MaxDrafts /\ presses \in 0..MaxPresses /\ errors \subseteq 1..presses
    /\ \A p \in posts : PostOK(p)
    /\ submitting => \E p \in posts : p.awaited

LEMMA FormTypes == PressInv /\ BoxInv /\ FormOK => TypeOK
<1> SUFFICES ASSUME PressInv, BoxInv, FormOK PROVE TypeOK
  OBVIOUS
<1>1. recipients \in ParseResults
  BY RecipientsListed
<1>2. shown \in {NoResult} \cup ParseResults
  <2>1. BoxSays(Extract(source), source, Len(source))
    BY SourceIsText, Readings
  <2>2. Extract(source) \in ParseResults
    BY <2>1 DEF BoxSays
  <2> QED
    BY <2>2 DEF BoxInv
<1>3. posts \subseteq Post(1..presses)
  <2> SUFFICES ASSUME NEW p \in posts PROVE p \in Post(1..presses)
    OBVIOUS
  <2>1. Shape(p) /\ PostOK(p)
    BY DEF PressInv, PostShape, FormOK
  <2>2. p.no \in 1..presses /\ p.draft \in Nat
    BY DEF PressInv, Counters, Traces
  <2> QED
    BY <2>1, <2>2 DEF Shape, PostOK, Post
<1>4. {p.no : p \in {q \in posts : q.awaited}} = IF submitting THEN {presses} ELSE {}
  <2>1. \A p \in posts : p.awaited => submitting /\ p.no = presses
    BY DEF PressInv, Awaiting
  <2>2. submitting => \E p \in posts : p.awaited
    BY DEF FormOK
  <2>3. CASE submitting
    BY <2>1, <2>2, <2>3
  <2>4. CASE ~submitting
    BY <2>1, <2>4
  <2> QED
    BY <2>3, <2>4
<1> QED
  BY <1>1, <1>2, <1>3, <1>4 DEF TypeOK, PressInv, Counters, BoxInv, FormOK

LEMMA FormInit == Init => FormOK
  BY DEF Init, FormOK

LEMMA PostKept ==
    ASSUME NEW p, Shape(p), PostOK(p), NEW stage \in {"sent", "created", "refused"}
    PROVE  PostOK([p EXCEPT !.stage = stage]) /\ PostOK([p EXCEPT !.awaited = FALSE])
  BY DEF Shape, PostOK

LEMMA FormNext == PressInv /\ BoxInv /\ FormOK /\ [Next]_vars => FormOK'
<1> SUFFICES ASSUME PressInv, BoxInv, FormOK, [Next]_vars PROVE FormOK'
  OBVIOUS
<1> USE DEF FormOK
<1>a. presses \in Nat /\ drafts \in Nat
  BY DEF PressInv, Counters
<1>1. CASE Write
  BY <1>1, <1>a DEF Write, Edit, net
<1>2. ASSUME NEW s \in Settings, Choose(s) PROVE FormOK'
  BY <1>2 DEF Choose, Edit, net, past
<1>3. ASSUME NEW text \in Texts, Paste(text) \/ Read(text) PROVE FormOK'
  <2>1. PICK r : Edit(draft, settings, r)
    BY <1>3 DEF Paste, Read, Handle
  <2>2. UNCHANGED <<now, settings, submitting, posts, drafts, presses, errors>>
    BY <1>3, <2>1 DEF Paste, Read, Edit, net, past
  <2> QED
    BY <2>2
<1>4. ASSUME NEW text \in Texts, Pick(text) PROVE FormOK'
  BY <1>4 DEF Pick, form, net, past
<1>5. CASE Submit
  <2> DEFINE p == [no |-> presses + 1, draft |-> draft, to |-> recipients.valid,
                   settings |-> settings, stage |-> "sent", awaited |-> TRUE]
  <2>1. /\ posts' = posts \cup {p} /\ presses < MaxPresses /\ presses' = presses + 1
        /\ UNCHANGED <<now, settings, drafts, errors>>
    BY <1>5 DEF Submit, Press
  <2>2. recipients.valid \in Seq(Tokens)
    BY RecipientsListed DEF Listed
  <2>3. PostOK(p) /\ p.awaited
    BY <2>2 DEF PostOK
  <2> HIDE DEF p
  <2> QED
    BY <1>a, <2>1, <2>3
<1>6. ASSUME NEW p \in posts, Serve(p) PROVE FormOK'
  <2>1. PICK stage \in {"created", "refused"} : Outcome(p, stage)
    BY <1>6 DEF Serve
  <2> DEFINE q == [p EXCEPT !.stage = stage]
  <2>2. Shape(p) /\ PostOK(p)
    BY DEF PressInv, PostShape
  <2>3. PostOK(q)
    BY <2>2, PostKept
  <2>4. q.awaited = p.awaited
    BY <2>2 DEF Shape
  <2>5. posts' = (posts \ {p}) \cup (IF p.awaited THEN {q} ELSE {})
    BY <2>1 DEF Outcome
  <2> HIDE DEF q
  <2>6. (\A x \in posts' : PostOK(x)) /\ (submitting => \E x \in posts' : x.awaited)
    BY <2>3, <2>4, <2>5
  <2>7. UNCHANGED <<now, settings, submitting, drafts, presses, errors>>
    BY <1>6 DEF Serve, form, past
  <2> QED
    BY <2>6, <2>7
<1>7. ASSUME NEW p \in posts, Succeed(p) PROVE FormOK'
  BY <1>7 DEF Succeed, Edit, past
<1>8. ASSUME NEW p \in posts, Refuse(p) \/ GiveUp(p) PROVE FormOK'
  <2> DEFINE q == [p EXCEPT !.awaited = FALSE]
  <2>1. Shape(p) /\ PostOK(p) /\ p.no \in 1..presses
    BY DEF PressInv, PostShape, Counters, Traces
  <2>2. PostOK(q)
    BY <2>1, PostKept
  <2>3. posts' \subseteq (posts \ {p}) \cup {q}
    BY <1>8 DEF Refuse, GiveUp
  <2> HIDE DEF q
  <2>4. \A x \in posts' : PostOK(x)
    BY <2>2, <2>3
  <2>5. /\ errors' = errors \cup {p.no} /\ submitting' = FALSE
        /\ UNCHANGED <<now, settings, drafts, presses>>
    BY <1>8 DEF Refuse, GiveUp, ShowError
  <2> QED
    BY <2>1, <2>4, <2>5
<1>9. CASE TimePasses
  BY <1>9 DEF TimePasses, form, net, past
<1>10. CASE UNCHANGED vars
  BY <1>10 DEF vars, form, net, past
<1> QED
  BY <1>1, <1>2, <1>3, <1>4, <1>5, <1>6, <1>7, <1>8, <1>9, <1>10 DEF Next, User, Network

\* The form awaits the request of its last press exactly while the button says so
\* (app/dashboard/page.tsx:52-73); every variable keeps to its type.
THEOREM ComposeTypeCorrect == Spec => []TypeOK
  BY PressInit, PressNext, BoxInit, BoxNext, FormInit, FormNext, FormTypes, PTL DEF Spec

=============================================================================
