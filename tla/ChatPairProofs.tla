---------------------------- MODULE ChatPairProofs ----------------------------
(***************************************************************************)
(* Proofs about ChatPair for any number of lines and any window: what a    *)
(* side says is what was typed on it, line by line, the other side shows   *)
(* it so, and "CUT." comes after all of it.                                *)
(***************************************************************************)
EXTENDS ChatPair, SequenceTheorems, TLAPS

Line == 0..MaxLines

Types ==
  /\ api \in {"select", "poll"} /\ kind \in [Side -> {"terminal", "pipe"}]
  /\ pc \in [Side -> {"boot", "listen", "chat", "left", "cut", "refused"}]
  /\ typed \in [Side -> Seq(Line)] /\ ahead \in [Side -> Seq(Line)]
  /\ stdin \in [Side -> Seq(Line \cup {EndOfFile})]
  /\ feof \in [Side -> BOOLEAN]
  /\ buffer \in [Side -> {"empty", "text", "exit"}]
  /\ wire \in [Side -> Seq(Line \cup {Stale})]
  /\ \A e \in Side : Len(wire[e]) <= Window
  /\ said \in [Side -> Seq(Line)] /\ shown \in [Side -> Seq(Line)]
  /\ reset \in [Side -> {"no", "coming", "yes"}]

------------------------------------------------------------------------------
(* Input. *)

\* The lines before the first end-of-file of stdin s are those of t behind the first k.
Unread(s, t, k) ==
  \A i \in 1..Len(s) :
    (\A j \in 1..i : s[j] # EndOfFile) => k + i <= Len(t) /\ s[i] = t[k + i]

\* A side has said the first lines typed; stdio holds the next ones, and what read(0) has
\* not returned follows.  Behind an end-of-file nothing is read any more.
Input(e) ==
  LET read == Len(said[e]) + Len(ahead[e])
  IN  /\ Len(said[e]) <= Len(typed[e])
      /\ \A i \in 1..Len(said[e]) : said[e][i] = typed[e][i]
      /\ feof[e] => ahead[e] = <<>>
      /\ pc[e] # "left" =>
           /\ read <= Len(typed[e])
           /\ \A i \in 1..Len(ahead[e]) : ahead[e][i] = typed[e][Len(said[e]) + i]
      /\ pc[e] # "left" /\ ~feof[e] =>
           /\ EndOfFile \notin Range(stdin[e]) => Len(typed[e]) = read + Len(stdin[e])
           /\ Unread(stdin[e], typed[e], read)
      /\ kind[e] = "pipe" =>
           \A i \in 1..Len(stdin[e]) : stdin[e][i] = EndOfFile => i = Len(stdin[e])

------------------------------------------------------------------------------
(* The stream to e. *)

StaleLast(s) == \E n \in 0..Len(s) : \A i \in 1..Len(s) : s[i] # Stale <=> i <= n

\* What e has shown and what is under way is what the other side has said; a side that has
\* ended with "CUT." has shown all of it.
Stream(e) ==
  /\ StaleLast(wire[e])
  /\ Stale \in Range(wire[e]) => feof[Other(e)]
  /\ ~Gone(e) => shown[e] \o Lines(wire[e]) = said[Other(e)]
  /\ pc[e] = "cut" => Gone(Other(e)) /\ shown[e] = said[Other(e)]

IInv == Types /\ \A e \in Side : Input(e) /\ Stream(e)

------------------------------------------------------------------------------
(* Lemmas about sides and sequences. *)

LEMMA TwoSides ==
  /\ \A e \in Side : Other(e) \in Side /\ Other(e) # e /\ Other(Other(e)) = e
  /\ \A e, d \in Side : d = e \/ d = Other(e)
  BY DEF Side, Other

\* Lines() is what its comment says, where stale lines come last.
LEMMA LinesAre ==
  ASSUME NEW S, NEW s \in Seq(S), NEW n \in 0..Len(s),
         \A i \in 1..Len(s) : s[i] # Stale <=> i <= n
  PROVE  Lines(s) = SubSeq(s, 1, n)
<1> DEFINE UpTo(m) == \A i \in 1..Len(s) : s[i] # Stale <=> i <= m
           m == CHOOSE m \in 0..Len(s) : UpTo(m)
<1>1. Len(s) \in Nat
  OBVIOUS
<1>2. m \in 0..Len(s) /\ UpTo(m)
  OBVIOUS
<1>3. m = n
  <2> HIDE DEF m
  <2>1. ~(m < n)
    <3> SUFFICES ASSUME m < n PROVE FALSE
      OBVIOUS
    <3>1. n \in 1..Len(s) /\ ~(n <= m)
      BY <1>1, <1>2
    <3> QED
      BY <3>1, <1>2
  <2>2. ~(n < m)
    <3> SUFFICES ASSUME n < m PROVE FALSE
      OBVIOUS
    <3>1. m \in 1..Len(s) /\ ~(m <= n)
      BY <1>1, <1>2
    <3> QED
      BY <3>1, <1>2
  <2> QED
    BY <1>1, <1>2, <2>1, <2>2
<1> QED
  BY <1>3 DEF Lines

LEMMA LinesInOrder == ASSUME NEW S, NEW s \in Seq(S), StaleLast(s) PROVE Lines(s) \in Seq(S)
<1>1. PICK n \in 0..Len(s) : \A i \in 1..Len(s) : s[i] # Stale <=> i <= n
  BY DEF StaleLast
<1>2. Lines(s) = SubSeq(s, 1, n)
  BY <1>1, LinesAre
<1>3. n \in Nat /\ n <= Len(s)
  OBVIOUS
<1> QED
  BY <1>2, <1>3, SubSeqProperties

LEMMA NoStaleLines ==
  ASSUME NEW S, NEW s \in Seq(S), Stale \notin Range(s)
  PROVE  StaleLast(s) /\ Lines(s) = s
<1>1. Len(s) \in Nat /\ DOMAIN s = 1..Len(s)
  OBVIOUS
<1>2. \A i \in 1..Len(s) : s[i] # Stale <=> i <= Len(s)
  BY <1>1 DEF Range
<1>3. Len(s) \in 0..Len(s)
  BY <1>1
<1>4. Lines(s) = SubSeq(s, 1, Len(s))
  BY <1>2, <1>3, LinesAre
<1>5. SubSeq(s, 1, Len(s)) = s
  BY SubSeqFull
<1> QED
  BY <1>2, <1>3, <1>4, <1>5 DEF StaleLast

\* A line at the end of lines, and a stale line at the end of anything.
LEMMA AppendLine ==
  ASSUME NEW S, NEW s \in Seq(S), NEW x \in S, x # Stale, Stale \notin Range(s)
  PROVE  /\ Stale \notin Range(Append(s, x)) /\ StaleLast(Append(s, x))
         /\ Lines(s) = s /\ Lines(Append(s, x)) = Append(s, x)
<1>1. /\ Append(s, x) \in Seq(S) /\ Len(Append(s, x)) = Len(s) + 1
      /\ \A i \in 1..Len(s) : Append(s, x)[i] = s[i]
      /\ Append(s, x)[Len(s) + 1] = x
  BY AppendProperties
<1>2. Len(s) \in Nat /\ DOMAIN s = 1..Len(s) /\ DOMAIN Append(s, x) = 1..(Len(s) + 1)
  BY <1>1
<1>3. \A i \in 1..(Len(s) + 1) : i \in 1..Len(s) \/ i = Len(s) + 1
  BY <1>2
<1>4. Stale \notin Range(Append(s, x))
  BY <1>1, <1>2, <1>3 DEF Range
<1> QED
  BY <1>1, <1>4, NoStaleLines

LEMMA AppendStale ==
  ASSUME NEW S, NEW s \in Seq(S), Stale \in S, StaleLast(s)
  PROVE  StaleLast(Append(s, Stale)) /\ Lines(Append(s, Stale)) = Lines(s)
<1>1. PICK n \in 0..Len(s) : \A i \in 1..Len(s) : s[i] # Stale <=> i <= n
  BY DEF StaleLast
<1> DEFINE t == Append(s, Stale)
<1>2. /\ t \in Seq(S) /\ Len(t) = Len(s) + 1 /\ Len(s) \in Nat
      /\ \A i \in 1..Len(s) : t[i] = s[i]
      /\ t[Len(s) + 1] = Stale
  BY AppendProperties
<1> HIDE DEF t
<1>3. n \in 0..Len(t) /\ \A i \in 1..Len(t) : t[i] # Stale <=> i <= n
  <2>1. \A i \in 1..Len(t) : i \in 1..Len(s) \/ (i = Len(s) + 1 /\ ~(i <= n))
    BY <1>1, <1>2
  <2> QED
    BY <1>1, <1>2, <2>1
<1>4. Lines(t) = SubSeq(t, 1, n) /\ Lines(s) = SubSeq(s, 1, n)
  BY <1>1, <1>2, <1>3, LinesAre
<1>5. SubSeq(t, 1, n) = SubSeq(s, 1, n)
  <2>1. n \in Nat /\ n <= Len(s) /\ n <= Len(t)
    BY <1>1, <1>2
  <2>2. /\ SubSeq(s, 1, n) \in Seq(S) /\ SubSeq(t, 1, n) \in Seq(S)
        /\ Len(SubSeq(s, 1, n)) = n /\ Len(SubSeq(t, 1, n)) = n
        /\ \A i \in 1..n : SubSeq(s, 1, n)[i] = s[i] /\ SubSeq(t, 1, n)[i] = t[i]
    BY <1>2, <2>1
  <2>3. \A i \in 1..n : i \in 1..Len(s)
    BY <1>2, <2>1
  <2> QED
    BY <1>2, <2>2, <2>3, SeqEqual
<1> QED
  BY <1>3, <1>4, <1>5 DEF StaleLast, t

\* What is shown in parts is what would be shown at once.
LEMMA SplitLines ==
  ASSUME NEW S, NEW s \in Seq(S), NEW n \in 1..Len(s), StaleLast(s)
  PROVE  LET a == SubSeq(s, 1, n)
             b == SubSeq(s, n + 1, Len(s))
         IN  /\ Lines(a) \o Lines(b) = Lines(s)
             /\ b \in Seq(S) /\ Len(b) <= Len(s) /\ StaleLast(b)
             /\ Stale \in Range(b) => Stale \in Range(s)
             /\ Lines(a) \in Seq(S \ {Stale})
<1> DEFINE a == SubSeq(s, 1, n)
           b == SubSeq(s, n + 1, Len(s))
<1>1. PICK k \in 0..Len(s) : \A i \in 1..Len(s) : s[i] # Stale <=> i <= k
  BY DEF StaleLast
<1>2. Len(s) \in Nat /\ n \in Nat /\ k \in Nat /\ n <= Len(s) /\ k <= Len(s)
  BY <1>1
<1>3. /\ a \in Seq(S) /\ Len(a) = n /\ \A i \in 1..n : a[i] = s[i]
      /\ b \in Seq(S) /\ Len(b) = Len(s) - n /\ \A i \in 1..(Len(s) - n) : b[i] = s[n + i]
  BY <1>2, SubSeqProperties
<1> HIDE DEF a, b
<1> DEFINE ka == IF k <= n THEN k ELSE n
           kb == IF k <= n THEN 0 ELSE k - n
<1>4. ka \in 0..Len(a) /\ \A i \in 1..Len(a) : a[i] # Stale <=> i <= ka
  <2>1. \A i \in 1..n : i \in 1..Len(s) /\ (i <= ka <=> i <= k)
    BY <1>2
  <2> QED
    BY <1>1, <1>2, <1>3, <2>1
<1>5. kb \in 0..Len(b) /\ \A i \in 1..Len(b) : b[i] # Stale <=> i <= kb
  <2>1. \A i \in 1..(Len(s) - n) : n + i \in 1..Len(s) /\ (i <= kb <=> n + i <= k)
    BY <1>2
  <2>2. kb \in 0..(Len(s) - n)
    BY <1>2
  <2> QED
    BY <1>1, <1>3, <2>1, <2>2
<1>5a. /\ ka \in Nat /\ kb \in Nat /\ ka <= n /\ ka <= k /\ kb <= Len(s) - n
       /\ ka + kb = k /\ (ka < k => ka = n)
  BY <1>2
<1> HIDE DEF ka, kb
<1>6. /\ Lines(a) = SubSeq(a, 1, ka) /\ Lines(b) = SubSeq(b, 1, kb)
      /\ Lines(s) = SubSeq(s, 1, k)
  BY <1>1, <1>3, <1>4, <1>5, LinesAre
<1>7. /\ Lines(a) \in Seq(S) /\ Len(Lines(a)) = ka /\ \A i \in 1..ka : Lines(a)[i] = s[i]
      /\ Lines(b) \in Seq(S) /\ Len(Lines(b)) = kb /\ \A i \in 1..kb : Lines(b)[i] = s[n + i]
      /\ Lines(s) \in Seq(S) /\ Len(Lines(s)) = k /\ \A i \in 1..k : Lines(s)[i] = s[i]
  <2>2. /\ SubSeq(a, 1, ka) \in Seq(S) /\ Len(SubSeq(a, 1, ka)) = ka
        /\ \A i \in 1..ka : SubSeq(a, 1, ka)[i] = a[i]
    BY <1>2, <1>3, <1>5a
  <2>3. /\ SubSeq(b, 1, kb) \in Seq(S) /\ Len(SubSeq(b, 1, kb)) = kb
        /\ \A i \in 1..kb : SubSeq(b, 1, kb)[i] = b[i]
    BY <1>2, <1>3, <1>5a
  <2>4. /\ SubSeq(s, 1, k) \in Seq(S) /\ Len(SubSeq(s, 1, k)) = k
        /\ \A i \in 1..k : SubSeq(s, 1, k)[i] = s[i]
    BY <1>2
  <2>5. (\A i \in 1..ka : i \in 1..n) /\ (\A i \in 1..kb : i \in 1..(Len(s) - n))
    BY <1>2, <1>5a
  <2> QED
    BY <1>3, <1>6, <2>2, <2>3, <2>4, <2>5
<1>8. Lines(a) \o Lines(b) = Lines(s)
  <2>1. /\ Lines(a) \o Lines(b) \in Seq(S) /\ Len(Lines(a) \o Lines(b)) = ka + kb
        /\ \A i \in 1..(ka + kb) :
             (Lines(a) \o Lines(b))[i] = IF i <= ka THEN Lines(a)[i] ELSE Lines(b)[i - ka]
    <3>1. Lines(a) \in Seq(S) /\ Lines(b) \in Seq(S)
      BY <1>7
    <3>2. Len(Lines(a)) = ka /\ Len(Lines(b)) = kb
      BY <1>7
    <3> HIDE DEF Lines
    <3> QED
      BY <3>1, <3>2, ConcatProperties
  <2>3. ASSUME NEW i \in 1..k PROVE (Lines(a) \o Lines(b))[i] = s[i]
    <3>1. CASE i <= ka
      <4>1. i \in 1..ka /\ i \in 1..(ka + kb)
        BY <1>2, <1>5a, <3>1
      <4> QED
        BY <1>7, <2>1, <3>1, <4>1
    <3>2. CASE ~(i <= ka)
      <4>1. ka = n /\ i - ka \in 1..kb /\ n + (i - ka) = i /\ i \in 1..(ka + kb)
        BY <1>2, <1>5a, <3>2
      <4> QED
        BY <1>7, <2>1, <3>2, <4>1
    <3> QED
      BY <3>1, <3>2
  <2> DEFINE c == Lines(a) \o Lines(b)
             d == Lines(s)
  <2>4. /\ c \in Seq(S) /\ d \in Seq(S) /\ Len(c) = k /\ Len(d) = k
        /\ \A i \in 1..k : c[i] = s[i] /\ d[i] = s[i]
    BY <1>5a, <1>7, <2>1, <2>3
  <2> HIDE DEF c, d
  <2>5. c = d
    BY <2>4, SeqEqual
  <2> QED
    BY <2>5 DEF c, d
<1>9. StaleLast(b)
  BY <1>5 DEF StaleLast
<1>10. Stale \in Range(b) => Stale \in Range(s)
  <2>1. \A i \in 1..(Len(s) - n) : n + i \in 1..Len(s)
    BY <1>2
  <2>2. DOMAIN b = 1..(Len(s) - n) /\ DOMAIN s = 1..Len(s)
    BY <1>3
  <2> SUFFICES ASSUME NEW i \in 1..(Len(s) - n), b[i] = Stale PROVE Stale \in Range(s)
    BY <2>2 DEF Range
  <2>3. n + i \in DOMAIN s /\ s[n + i] = Stale
    BY <1>3, <2>1, <2>2
  <2> QED
    BY <2>3 DEF Range
<1>11. Lines(a) \in Seq(S \ {Stale})
  <2>1. \A i \in 1..ka : i \in 1..Len(s) /\ i <= k
    BY <1>2, <1>5a
  <2>2. \A i \in 1..ka : Lines(a)[i] \in S \ {Stale}
    BY <1>1, <1>7, <2>1
  <2>3. Lines(a) \in Seq(S) /\ Len(Lines(a)) = ka
    BY <1>7
  <2> QED
    BY <2>2, <2>3, <1>5a
<1> QED
  BY <1>3, <1>2, <1>8, <1>9, <1>10, <1>11 DEF a, b

------------------------------------------------------------------------------
(* What a step leaves alone. *)

LEMMA InputKept ==
  ASSUME NEW e \in Side, Input(e), kind' = kind, typed'[e] = typed[e], stdin'[e] = stdin[e],
         ahead'[e] = ahead[e], feof'[e] = feof[e], said'[e] = said[e],
         pc[e] = "left" => pc'[e] = "left"
  PROVE  Input(e)'
<1> DEFINE k == Len(said[e]) + Len(ahead[e])
<1>1. /\ Len(said'[e]) <= Len(typed'[e])
      /\ \A i \in 1..Len(said'[e]) : said'[e][i] = typed'[e][i]
      /\ feof'[e] => ahead'[e] = <<>>
      /\ kind'[e] = "pipe" =>
           \A i \in 1..Len(stdin'[e]) : stdin'[e][i] = EndOfFile => i = Len(stdin'[e])
  BY DEF Input
<1>2. pc'[e] # "left" =>
        /\ k <= Len(typed'[e])
        /\ \A i \in 1..Len(ahead'[e]) : ahead'[e][i] = typed'[e][Len(said'[e]) + i]
  BY DEF Input
<1>3. pc'[e] # "left" /\ ~feof'[e] =>
        /\ EndOfFile \notin Range(stdin'[e]) => Len(typed'[e]) = k + Len(stdin'[e])
        /\ Unread(stdin'[e], typed'[e], k)
  BY DEF Input
<1>4. k = Len(said'[e]) + Len(ahead'[e])
  OBVIOUS
<1> HIDE DEF k
<1> QED
  BY <1>1, <1>2, <1>3, <1>4 DEF Input, Range, Unread

LEMMA StreamKept ==
  ASSUME NEW e \in Side, Stream(e), wire'[e] = wire[e], shown'[e] = shown[e],
         said'[Other(e)] = said[Other(e)], feof[Other(e)] => feof'[Other(e)],
         pc[e] \in {"left", "cut"} => pc'[e] \in {"left", "cut"},
         pc'[e] = "cut" => pc[e] = "cut",
         pc[Other(e)] \in {"left", "cut"} => pc'[Other(e)] \in {"left", "cut"}
  PROVE  Stream(e)'
BY DEF Stream, StaleLast, Lines, Range, Gone

------------------------------------------------------------------------------
(* The invariant is inductive. *)

LEMMA InitInv == ASSUME BoundsAssumption PROVE Init => IInv
<1> SUFFICES ASSUME Init PROVE IInv
  OBVIOUS
<1>1. Types
  BY DEF Init, Types, BoundsAssumption
<1>2. ASSUME NEW e \in Side PROVE Input(e)
  <2>1. /\ said[e] = <<>> /\ typed[e] = <<>> /\ ahead[e] = <<>> /\ stdin[e] = <<>>
        /\ feof[e] = FALSE
    BY DEF Init
  <2>2. Unread(stdin[e], typed[e], 0)
    BY <2>1 DEF Unread
  <2> QED
    BY <2>1, <2>2 DEF Input
<1>3. ASSUME NEW e \in Side PROVE Stream(e)
  <2>1. /\ wire[e] = <<>> /\ shown[e] = <<>> /\ said[Other(e)] = <<>> /\ pc[e] = "boot"
    BY TwoSides DEF Init
  <2>2. wire[e] \in Seq({Stale}) /\ Stale \notin Range(wire[e])
    BY <2>1 DEF Range
  <2>3. StaleLast(wire[e]) /\ Lines(wire[e]) = <<>>
    BY <2>1, <2>2, NoStaleLines
  <2>4. shown[e] \o Lines(wire[e]) = <<>>
    BY <2>1, <2>3
  <2> QED
    BY <2>1, <2>2, <2>3, <2>4 DEF Stream
<1> QED
  BY <1>1, <1>2, <1>3 DEF IInv

\* A step of one side that moves nothing but the place of that side.
LEMMA PlaceInv ==
  ASSUME IInv, UNCHANGED <<api, kind, inputVars, buffer, wire, said, shown>>,
         NEW e \in Side, \A d \in Side : d # e => pc'[d] = pc[d],
         pc' \in [Side -> {"boot", "listen", "chat", "left", "cut", "refused"}],
         pc[e] \notin {"left", "cut"}, pc'[e] # "cut",
         reset' \in [Side -> {"no", "coming", "yes"}]
  PROVE  IInv'
<1>1. UNCHANGED <<api, kind, typed, stdin, ahead, feof, buffer, wire, said, shown>>
  BY DEF inputVars
<1>2. Types'
  BY <1>1 DEF IInv, Types
<1>3. ASSUME NEW d \in Side PROVE Input(d)'
  <2>1. Input(d) /\ (pc[d] = "left" => pc'[d] = "left")
    BY DEF IInv
  <2> QED
    BY <1>1, <2>1, InputKept
<1>4. ASSUME NEW d \in Side PROVE Stream(d)'
  <2>1. /\ Stream(d)
        /\ pc[d] \in {"left", "cut"} => pc'[d] \in {"left", "cut"}
        /\ pc'[d] = "cut" => pc[d] = "cut"
        /\ pc[Other(d)] \in {"left", "cut"} => pc'[Other(d)] \in {"left", "cut"}
    BY TwoSides DEF IInv
  <2> QED
    BY <1>1, <2>1, StreamKept
<1> QED
  BY <1>2, <1>3, <1>4 DEF IInv

LEMMA StartInv == IInv /\ (Listen \/ ConnectTo \/ Accept) => IInv'
<1> SUFFICES ASSUME IInv, Listen \/ ConnectTo \/ Accept PROVE IInv'
  OBVIOUS
<1>0. pc \in [Side -> {"boot", "listen", "chat", "left", "cut", "refused"}]
      /\ reset' \in [Side -> {"no", "coming", "yes"}]
      /\ "server" \in Side /\ "client" \in Side
  BY DEF IInv, Types, Listen, ConnectTo, Accept, Side
<1>1. UNCHANGED <<api, kind, inputVars, buffer, wire, said, shown>>
  BY DEF Listen, ConnectTo, Accept
<1>2. CASE Listen \/ Accept
  BY <1>0, <1>1, <1>2, PlaceInv DEF Listen, Accept
<1>3. CASE ConnectTo
  BY <1>0, <1>1, <1>3, PlaceInv DEF ConnectTo
<1> QED
  BY <1>2, <1>3

LEMMA ErrorInv == ASSUME IInv, NEW e \in Side, ErrorTurn(e) PROVE IInv'
<1>1. UNCHANGED <<api, kind, inputVars, buffer, wire, said, shown, reset>>
  BY DEF ErrorTurn
<1>2. /\ pc \in [Side -> {"boot", "listen", "chat", "left", "cut", "refused"}]
      /\ reset \in [Side -> {"no", "coming", "yes"}]
      /\ pc[e] = "chat" /\ pc' = [pc EXCEPT ![e] = "left"]
  BY DEF IInv, Types, ErrorTurn
<1> QED
  BY <1>1, <1>2, PlaceInv

LEMMA ResetInv == ASSUME IInv, NEW e \in Side, ResetArrives(e) PROVE IInv'
<1>1. /\ reset' \in [Side -> {"no", "coming", "yes"}]
      /\ UNCHANGED <<api, kind, pc, typed, stdin, ahead, feof, buffer, wire, said, shown>>
  BY DEF IInv, Types, ResetArrives, inputVars
<1>2. Types'
  BY <1>1 DEF IInv, Types
<1>3. \A d \in Side : Input(d)' /\ Stream(d)'
  BY <1>1, InputKept, StreamKept, TwoSides DEF IInv
<1> QED
  BY <1>2, <1>3 DEF IInv

\* Nothing came after what was shown when the connection was cut.
LEMMA CutInv == ASSUME IInv, NEW e \in Side, CutTurn(e) PROVE IInv'
<1>1. /\ UNCHANGED <<api, kind, typed, stdin, ahead, feof, buffer, wire, said, shown, reset>>
      /\ pc[e] = "chat" /\ wire[e] = <<>> /\ Gone(Other(e))
      /\ pc' = [pc EXCEPT ![e] = "cut"]
  BY DEF CutTurn, Cut, inputVars
<1>2. Types /\ \A d \in Side : Input(d) /\ Stream(d)
  BY DEF IInv
<1>3. /\ pc' \in [Side -> {"boot", "listen", "chat", "left", "cut", "refused"}]
      /\ pc'[e] = "cut" /\ pc'[Other(e)] = pc[Other(e)] /\ Other(e) \in Side
  BY <1>1, <1>2, TwoSides DEF Types
<1>4. Types'
  BY <1>1, <1>2, <1>3 DEF Types
<1>5. \A d \in Side : Input(d)'
  BY <1>1, <1>2, <1>3, TwoSides, InputKept
<1>6. Stream(e)'
  <2>1. shown[e] = said[Other(e)]
    <3>1. Lines(wire[e]) = <<>>
      <4>1. wire[e] \in Seq({Stale}) /\ Stale \notin Range(wire[e])
        BY <1>1 DEF Range
      <4> QED
        BY <1>1, <4>1, NoStaleLines
    <3>2. shown[e] \o <<>> = said[Other(e)]
      BY <1>1, <1>2, <3>1 DEF Stream, Gone
    <3>3. shown[e] \in Seq(Line)
      BY <1>2 DEF Types
    <3> QED
      BY <3>2, <3>3, ConcatEmptySeq
  <2>2. StaleLast(wire[e]) /\ (Stale \in Range(wire[e]) => feof[Other(e)])
    BY <1>2 DEF Stream
  <2> QED
    BY <1>1, <1>3, <2>1, <2>2 DEF Stream, Gone, StaleLast, Range
<1>7. Stream(Other(e))'
  <2>1. pc[Other(e)] # "cut"
    BY <1>1, <1>2, <1>3, TwoSides DEF Stream, Gone
  <2> QED
    BY <1>1, <1>2, <1>3, <2>1, TwoSides, StreamKept
<1> QED
  BY <1>4, <1>5, <1>6, <1>7, TwoSides DEF IInv

\* What is received is what the other side said next.
LEMMA RecvInv == ASSUME BoundsAssumption, IInv, NEW e \in Side, RecvTurn(e) PROVE IInv'
<1> DEFINE S == Line \cup {Stale}
           s == wire[e]
<1>1. PICK n \in 1..Len(s) :
        /\ buffer' = [buffer EXCEPT ![e] = Begins(Head(s))]
        /\ shown' = [shown EXCEPT ![e] = @ \o Lines(SubSeq(s, 1, n))]
        /\ wire' = [wire EXCEPT ![e] = SubSeq(s, n + 1, Len(s))]
  BY DEF RecvTurn
<1>2. UNCHANGED <<api, kind, pc, typed, stdin, ahead, feof, said, reset>> /\ pc[e] = "chat"
  BY DEF RecvTurn, inputVars
<1>3. Types /\ \A d \in Side : Input(d) /\ Stream(d)
  BY DEF IInv
<1> DEFINE a == Lines(SubSeq(s, 1, n))
           rest == SubSeq(s, n + 1, Len(s))
<1>4. /\ a \o Lines(rest) = Lines(s)
      /\ rest \in Seq(S) /\ Len(rest) <= Len(s) /\ StaleLast(rest)
      /\ Stale \in Range(rest) => Stale \in Range(s)
      /\ a \in Seq(S \ {Stale})
  <2>1. s \in Seq(S) /\ StaleLast(s)
    BY <1>3 DEF Types, Stream
  <2> QED
    BY <2>1, SplitLines
<1>5. S \ {Stale} = Line
  BY DEF Line, Stale
<1> HIDE DEF a, rest, S
<1>6. shown[e] \o a \in Seq(Line)
  BY <1>3, <1>4, <1>5, ConcatProperties DEF Types
<1>7. /\ wire'[e] = rest /\ shown'[e] = shown[e] \o a
      /\ \A d \in Side : d # e => wire'[d] = wire[d] /\ shown'[d] = shown[d]
      /\ wire' \in [Side -> Seq(S)] /\ shown' \in [Side -> Seq(Line)]
      /\ buffer' \in [Side -> {"empty", "text", "exit"}]
  BY <1>1, <1>3, <1>4, <1>6 DEF Types, Begins, a, rest, S
<1>8. \A d \in Side : Len(wire'[d]) <= Window
  <2> SUFFICES ASSUME NEW d \in Side PROVE Len(wire'[d]) <= Window
    OBVIOUS
  <2>1. Len(s) <= Window /\ Len(wire[d]) <= Window
    BY <1>3 DEF Types
  <2>2. wire[e] \in Seq(S) /\ Len(rest) \in Nat /\ Len(s) \in Nat
    BY <1>3, <1>4 DEF Types, S
  <2>3. CASE d = e
    BY <1>4, <1>7, <2>1, <2>2, <2>3 DEF BoundsAssumption
  <2>4. CASE d # e
    BY <1>7, <2>1, <2>4
  <2> QED
    BY <2>3, <2>4
<1>9. Types'
  BY <1>2, <1>3, <1>7, <1>8 DEF Types, S
<1>10. \A d \in Side : Input(d)'
  BY <1>2, <1>3, InputKept
<1>11. Stream(e)'
  <2>1. shown'[e] \o Lines(rest) = shown[e] \o Lines(s)
    <3>1. shown[e] \in Seq(S) /\ a \in Seq(S)
      BY <1>3, <1>4, <1>5 DEF Types
    <3> DEFINE l == Lines(rest)
               h == shown[e]
    <3>2. l \in Seq(S)
      BY <1>4, LinesInOrder
    <3>3. h \in Seq(S)
      BY <3>1
    <3> HIDE DEF l, h
    <3>4. (h \o a) \o l = h \o (a \o l)
      BY <3>1, <3>2, <3>3, ConcatAssociative
    <3> QED
      BY <1>4, <1>7, <3>4 DEF l, h
  <2> QED
    BY <1>2, <1>3, <1>4, <1>7, <2>1 DEF Stream, Gone
<1>12. \A d \in Side : d # e => Stream(d)'
  BY <1>2, <1>3, <1>7, TwoSides, StreamKept
<1> QED
  BY <1>9, <1>10, <1>11, <1>12 DEF IInv

\* Where in a sequence a value is.
LEMMA InRange ==
  ASSUME NEW S, NEW s \in Seq(S), NEW v
  PROVE  v \in Range(s) <=> \E i \in 1..Len(s) : s[i] = v
BY DEF Range

\* What is typed is read behind all the lines typed before.
LEMMA TypeInv == ASSUME BoundsAssumption, IInv, NEW e \in Side, Type(e) PROVE IInv'
<1> DEFINE t == typed[e]
           s == stdin[e]
<1>1. PICK line \in {Len(t) + 1, Exit} :
        /\ typed' = [typed EXCEPT ![e] = Append(t, line)]
        /\ stdin' = [stdin EXCEPT ![e] = Append(s, line)]
  BY DEF Type
<1>2. /\ UNCHANGED <<api, kind, pc, ahead, feof, buffer, wire, said, shown, reset>>
      /\ Len(t) < MaxLines /\ (kind[e] = "pipe" => EndOfFile \notin Range(s))
  BY DEF Type, Ended
<1>3. Types /\ \A d \in Side : Input(d) /\ Stream(d)
  BY DEF IInv
<1>4. /\ t \in Seq(Line) /\ s \in Seq(Line \cup {EndOfFile})
      /\ Len(t) \in Nat /\ Len(s) \in Nat
  BY <1>3 DEF Types
<1>5. line \in Line /\ line # EndOfFile
  BY <1>2, <1>4 DEF BoundsAssumption, Line, Exit, EndOfFile
<1> DEFINE u == Append(t, line)
           r == Append(s, line)
<1>6. /\ u \in Seq(Line) /\ Len(u) = Len(t) + 1
      /\ (\A i \in 1..Len(t) : u[i] = t[i]) /\ u[Len(t) + 1] = line
      /\ r \in Seq(Line \cup {EndOfFile}) /\ Len(r) = Len(s) + 1
      /\ (\A i \in 1..Len(s) : r[i] = s[i]) /\ r[Len(s) + 1] = line
  BY <1>4, <1>5, AppendProperties
<1>7. /\ typed'[e] = u /\ stdin'[e] = r
      /\ \A d \in Side : d # e => typed'[d] = typed[d] /\ stdin'[d] = stdin[d]
      /\ typed' \in [Side -> Seq(Line)] /\ stdin' \in [Side -> Seq(Line \cup {EndOfFile})]
  BY <1>1, <1>3, <1>6 DEF Types
<1>8. Types'
  BY <1>2, <1>3, <1>7 DEF Types
<1>9. \A d \in Side : Stream(d)'
  BY <1>2, <1>3, StreamKept
<1>10. \A d \in Side : d # e => Input(d)'
  BY <1>2, <1>3, <1>7, InputKept
<1>11. Input(e)'
  <2> DEFINE read == Len(said[e]) + Len(ahead[e])
             before == Len(said[e])
  <2>1. read \in Nat /\ before \in Nat /\ before <= read
    BY <1>3 DEF Types
  <2> DEFINE held == Len(ahead[e])
  <2>12. held \in Nat /\ read = before + held
    BY <1>3 DEF Types
  <2>2. /\ Len(said[e]) <= Len(t) /\ (\A i \in 1..Len(said[e]) : said[e][i] = t[i])
        /\ feof[e] => ahead[e] = <<>>
        /\ pc[e] # "left" =>
             /\ read <= Len(t)
             /\ \A i \in 1..Len(ahead[e]) : ahead[e][i] = t[before + i]
        /\ pc[e] # "left" /\ ~feof[e] =>
             /\ EndOfFile \notin Range(s) => Len(t) = read + Len(s)
             /\ Unread(s, t, read)
    BY <1>3 DEF Input
  <2> HIDE DEF t, s, u, r
  <2>3. /\ Len(said[e]) <= Len(u) /\ (\A i \in 1..Len(said[e]) : said[e][i] = u[i])
    <3>1. \A i \in 1..Len(said[e]) : i \in 1..Len(t)
      BY <1>4, <2>1, <2>2
    <3> QED
      BY <1>4, <1>6, <2>1, <2>2, <3>1
  <2>4. ASSUME pc[e] # "left"
        PROVE  read <= Len(u) /\ \A i \in 1..held : ahead[e][i] = u[before + i]
    <3>1. read <= Len(t) /\ \A i \in 1..held : ahead[e][i] = t[before + i]
      BY <2>2, <2>4
    <3> HIDE DEF read, before, held
    <3>2. \A i \in 1..held : before + i \in 1..Len(t)
      BY <1>4, <2>1, <2>12, <3>1
    <3>3. \A i \in 1..held : ahead[e][i] = u[before + i]
      BY <1>6, <3>1, <3>2
    <3>4. read <= Len(u)
      BY <1>4, <1>6, <2>1, <3>1
    <3> QED
      BY <3>3, <3>4
  <2> HIDE DEF read, before
  <2>5. EndOfFile \in Range(s) <=> \E i \in 1..Len(s) : s[i] = EndOfFile
    BY <1>4, InRange
  <2>6. EndOfFile \in Range(r) <=> EndOfFile \in Range(s)
    <3>1. EndOfFile \in Range(r) <=> \E i \in 1..Len(r) : r[i] = EndOfFile
      BY <1>6, InRange
    <3>2. \A i \in 1..Len(r) : i \in 1..Len(s) \/ i = Len(s) + 1
      BY <1>4, <1>6
    <3>3. \A i \in 1..Len(s) : i \in 1..Len(r)
      BY <1>4, <1>6
    <3> QED
      BY <1>5, <1>6, <2>5, <3>1, <3>2, <3>3
  <2>7. ASSUME pc[e] # "left", ~feof[e]
        PROVE  /\ EndOfFile \notin Range(r) => Len(u) = read + Len(r)
               /\ Unread(r, u, read)
    <3>1. EndOfFile \notin Range(s) => Len(t) = read + Len(s)
      BY <2>2, <2>7
    <3>2. Unread(s, t, read)
      BY <2>2, <2>7
    <3>3. EndOfFile \notin Range(r) => Len(u) = read + Len(r)
      BY <1>4, <1>6, <2>1, <2>6, <3>1
    <3>4. ASSUME NEW i \in 1..Len(r), \A j \in 1..i : r[j] # EndOfFile
          PROVE  read + i <= Len(u) /\ r[i] = u[read + i]
      <4>1. CASE i \in 1..Len(s)
        <5>1. \A j \in 1..i : j \in 1..Len(s)
          BY <1>4, <4>1
        <5>2. \A j \in 1..i : s[j] # EndOfFile
          BY <1>6, <3>4, <5>1
        <5>3. read + i <= Len(t) /\ s[i] = t[read + i]
          BY <3>2, <4>1, <5>2 DEF Unread
        <5>4. read + i \in 1..Len(t)
          BY <1>4, <2>1, <4>1, <5>3
        <5> QED
          BY <1>4, <1>6, <2>1, <4>1, <5>3, <5>4
      <4>2. CASE i = Len(s) + 1
        <5>1. \A j \in 1..Len(s) : j \in 1..i
          BY <1>4, <4>2
        <5>2. EndOfFile \notin Range(s)
          BY <1>6, <2>5, <3>4, <5>1
        <5>3. read + i = Len(t) + 1
          BY <1>4, <2>1, <3>1, <4>2, <5>2
        <5> QED
          BY <1>4, <1>6, <4>2, <5>3
      <4>3. i \in 1..Len(s) \/ i = Len(s) + 1
        BY <1>4, <1>6
      <4> QED
        BY <4>1, <4>2, <4>3
    <3>5. Unread(r, u, read)
      BY <3>4 DEF Unread
    <3> QED
      BY <3>3, <3>5
  <2>8. kind[e] = "pipe" => \A i \in 1..Len(r) : r[i] # EndOfFile
    BY <1>2, <1>6, <2>6, InRange DEF s
  <2>9. typed'[e] = u /\ stdin'[e] = r /\ ahead' = ahead /\ said' = said
    BY <1>2, <1>7
  <2>10. /\ kind' = kind /\ pc' = pc /\ feof' = feof
    BY <1>2
  <2>11. Unread(stdin'[e], typed'[e], read) = Unread(r, u, read)
    BY <2>9 DEF Unread
  <2> QED
    BY <2>2, <2>3, <2>4, <2>7, <2>8, <2>9, <2>10, <2>11 DEF Input, read, before, Unread
<1> QED
  BY <1>8, <1>9, <1>10, <1>11 DEF IInv

\* The end of input comes last, and hides nothing.
LEMMA EndInputInv == ASSUME IInv, NEW e \in Side, EndInput(e) PROVE IInv'
<1> DEFINE s == stdin[e]
           r == Append(s, EndOfFile)
<1>1. /\ UNCHANGED <<api, kind, pc, typed, ahead, feof, buffer, wire, said, shown, reset>>
      /\ stdin' = [stdin EXCEPT ![e] = r] /\ EndOfFile \notin Range(s)
  BY DEF EndInput
<1>2. Types /\ \A d \in Side : Input(d) /\ Stream(d)
  BY DEF IInv
<1>3. s \in Seq(Line \cup {EndOfFile}) /\ Len(s) \in Nat
  BY <1>2 DEF Types
<1>4. /\ r \in Seq(Line \cup {EndOfFile}) /\ Len(r) = Len(s) + 1
      /\ (\A i \in 1..Len(s) : r[i] = s[i]) /\ r[Len(s) + 1] = EndOfFile
  BY <1>3, AppendProperties
<1>5. /\ stdin'[e] = r /\ \A d \in Side : d # e => stdin'[d] = stdin[d]
      /\ stdin' \in [Side -> Seq(Line \cup {EndOfFile})]
  BY <1>1, <1>2, <1>4 DEF Types
<1>6. Types'
  BY <1>1, <1>2, <1>5 DEF Types
<1>7. \A d \in Side : Stream(d)'
  BY <1>1, <1>2, StreamKept
<1>8. \A d \in Side : d # e => Input(d)'
  BY <1>1, <1>2, <1>5, InputKept
<1>9. Input(e)'
  <2> HIDE DEF s, r
  <2>1. \A i \in 1..Len(r) : i \in 1..Len(s) \/ i = Len(s) + 1
    BY <1>3, <1>4
  <2>2. \A i \in 1..Len(s) : s[i] # EndOfFile
    BY <1>1, <1>3, InRange
  <2>3. EndOfFile \in Range(r)
    <3>1. Len(s) + 1 \in 1..Len(r)
      BY <1>3, <1>4
    <3> QED
      BY <1>4, <3>1, InRange
  <2>4. \A i \in 1..Len(r) : r[i] = EndOfFile => i = Len(r)
    BY <1>3, <1>4, <2>1, <2>2
  <2>5. ASSUME NEW t, NEW k, Unread(s, t, k) PROVE Unread(r, t, k)
    <3> SUFFICES ASSUME NEW i \in 1..Len(r), \A j \in 1..i : r[j] # EndOfFile
                 PROVE  k + i <= Len(t) /\ r[i] = t[k + i]
      BY DEF Unread
    <3>1. i \in 1..i
      BY <1>3, <1>4
    <3>2. i \in 1..Len(s)
      BY <1>4, <2>1, <3>1
    <3>3. \A j \in 1..i : s[j] # EndOfFile
      BY <1>3, <2>2, <3>2
    <3> QED
      BY <1>4, <2>5, <3>2, <3>3 DEF Unread
  <2> DEFINE read == Len(said[e]) + Len(ahead[e])
  <2>6. Unread(s, typed[e], read) => Unread(r, typed[e], read)
    BY <2>5
  <2>7. /\ Len(said[e]) <= Len(typed[e])
        /\ \A i \in 1..Len(said[e]) : said[e][i] = typed[e][i]
        /\ feof[e] => ahead[e] = <<>>
        /\ pc[e] # "left" =>
             /\ read <= Len(typed[e])
             /\ \A i \in 1..Len(ahead[e]) : ahead[e][i] = typed[e][Len(said[e]) + i]
        /\ pc[e] # "left" /\ ~feof[e] => Unread(s, typed[e], read)
    BY <1>2 DEF Input, s
  <2>8. Unread(stdin'[e], typed'[e], Len(said'[e]) + Len(ahead'[e]))
          = Unread(r, typed[e], read)
    BY <1>1, <1>5
  <2> HIDE DEF read
  <2>9. /\ Len(said'[e]) <= Len(typed'[e])
        /\ \A i \in 1..Len(said'[e]) : said'[e][i] = typed'[e][i]
        /\ feof'[e] => ahead'[e] = <<>>
        /\ pc'[e] # "left" =>
             /\ Len(said'[e]) + Len(ahead'[e]) <= Len(typed'[e])
             /\ \A i \in 1..Len(ahead'[e]) : ahead'[e][i] = typed'[e][Len(said'[e]) + i]
    BY <1>1, <2>7 DEF read
  <2>10. EndOfFile \in Range(stdin'[e])
    BY <1>5, <2>3
  <2>11. kind'[e] = "pipe" =>
           \A i \in 1..Len(stdin'[e]) : stdin'[e][i] = EndOfFile => i = Len(stdin'[e])
    BY <1>5, <2>4
  <2>12. pc'[e] # "left" /\ ~feof'[e] =>
           Unread(stdin'[e], typed'[e], Len(said'[e]) + Len(ahead'[e]))
    BY <1>1, <2>6, <2>7, <2>8
  <2> QED
    BY <2>9, <2>10, <2>11, <2>12 DEF Input, Unread, Range
<1> QED
  BY <1>6, <1>7, <1>8, <1>9 DEF IInv

------------------------------------------------------------------------------
(* fgets(). *)

\* What one read(0) returns are the first lines of stdin, up to an end-of-file.
LEMMA BlockIsFirst ==
  ASSUME Types, NEW e \in Side, Input(e), stdin[e] # <<>>, Head(stdin[e]) # EndOfFile
  PROVE  LET b == Block(e)
             r == LeftInStdin(e)
             s == stdin[e]
         IN  /\ b \in Seq(Line) /\ Len(b) \in 1..Len(s)
             /\ \A i \in 1..Len(b) : b[i] = s[i] /\ s[i] # EndOfFile
             /\ r \in Seq(Line \cup {EndOfFile}) /\ Len(r) = Len(s) - Len(b)
             /\ \A i \in 1..Len(r) : r[i] = s[Len(b) + i]
<1> DEFINE s == stdin[e]
           b == Block(e)
           r == LeftInStdin(e)
<1>1. /\ s \in Seq(Line \cup {EndOfFile}) /\ s # <<>> /\ Head(s) # EndOfFile
      /\ EndOfFile \in Range(s) <=> \E i \in 1..Len(s) : s[i] = EndOfFile
      /\ kind[e] \in {"terminal", "pipe"}
      /\ kind[e] = "pipe" => \A i \in 1..Len(s) : s[i] = EndOfFile => i = Len(s)
  BY InRange DEF Types, Input
<1>2. /\ b = IF kind[e] = "terminal" THEN <<Head(s)>>
             ELSE IF EndOfFile \in Range(s) THEN Front(s) ELSE s
      /\ r = IF kind[e] = "terminal" THEN Tail(s)
             ELSE IF EndOfFile \in Range(s) THEN <<EndOfFile>> ELSE <<>>
  BY <1>1 DEF Block, LeftInStdin, Ended
<1> HIDE DEF s, b, r
<1>3. /\ Len(s) \in Nat \ {0} /\ s[1] = Head(s) /\ 1 \in 1..Len(s)
      /\ s \in [1..Len(s) -> Line \cup {EndOfFile}]
  BY <1>1, EmptySeq, HeadTailProperties
<1>4. CASE kind[e] = "terminal"
  <2>1. b = <<s[1]>> /\ r = Tail(s)
    BY <1>2, <1>3, <1>4
  <2>2. Len(b) = 1 /\ b[1] = s[1] /\ s[1] # EndOfFile /\ s[1] \in Line
    BY <1>1, <1>3, <2>1
  <2>3. b \in Seq(Line)
    BY <2>1, <2>2
  <2>4. /\ r \in Seq(Line \cup {EndOfFile}) /\ Len(r) = Len(s) - 1
        /\ \A i \in 1..Len(r) : r[i] = s[1 + i]
    BY <1>1, <2>1, HeadTailProperties
  <2>5. \A i \in 1..Len(b) : b[i] = s[i] /\ s[i] # EndOfFile
    BY <2>2
  <2> QED
    BY <1>3, <2>2, <2>3, <2>4, <2>5 DEF s, b, r
<1>5. CASE kind[e] # "terminal" /\ EndOfFile \in Range(s)
  <2> DEFINE m == Len(s) - 1
  <2>1. b = SubSeq(s, 1, m) /\ r = <<EndOfFile>>
    BY <1>2, <1>5 DEF Front
  <2>2. s[Len(s)] = EndOfFile /\ \A i \in 1..Len(s) : i # Len(s) => s[i] # EndOfFile
    BY <1>1, <1>5
  <2>3. Len(s) # 1
    BY <1>1, <1>3, <2>2
  <2>4. Len(s) \in Nat \ {0}
    BY <1>3
  <2>5. m \in 1..Len(s) /\ m \in Nat /\ Len(s) = m + 1
    <3> DEFINE n == Len(s)
    <3>1. n \in Nat \ {0} /\ n # 1
      BY <2>3, <2>4
    <3> HIDE DEF n
    <3>2. n - 1 \in 1..n /\ n - 1 \in Nat /\ n = (n - 1) + 1
      BY <3>1
    <3> QED
      BY <3>2 DEF n
  <2> HIDE DEF m
  <2>6. \A i \in 1..m : i \in 1..Len(s) /\ i # Len(s)
    BY <2>4, <2>5
  <2>7. \A i \in 1..m : s[i] # EndOfFile /\ s[i] \in Line
    BY <1>3, <2>2, <2>6
  <2>8. b \in Seq(Line) /\ Len(b) = m /\ \A i \in 1..m : b[i] = s[i]
    BY <2>1, <2>5, <2>7, SubSeqProperties
  <2>9. r \in Seq(Line \cup {EndOfFile}) /\ Len(r) = 1 /\ r[1] = EndOfFile
    BY <2>1
  <2>10. Len(r) = Len(s) - Len(b)
    BY <2>5, <2>8, <2>9
  <2>11. \A i \in 1..Len(r) : r[i] = s[Len(b) + i]
    BY <2>2, <2>5, <2>8, <2>9
  <2> QED
    BY <2>5, <2>7, <2>8, <2>9, <2>10, <2>11 DEF s, b, r
<1>6. CASE kind[e] # "terminal" /\ EndOfFile \notin Range(s)
  <2>1. b = s /\ r = <<>>
    BY <1>2, <1>6
  <2>2. \A i \in 1..Len(s) : s[i] # EndOfFile /\ s[i] \in Line
    BY <1>1, <1>3, <1>6
  <2>3. s \in Seq(Line)
    BY <1>1, <2>2
  <2>4. r \in Seq(Line \cup {EndOfFile}) /\ Len(r) = 0 /\ Len(r) = Len(s) - Len(b)
    BY <1>3, <2>1
  <2>5. Len(b) \in 1..Len(s)
    BY <1>3, <2>1
  <2> QED
    BY <2>1, <2>2, <2>3, <2>4, <2>5 DEF s, b, r
<1> QED
  BY <1>4, <1>5, <1>6

\* fgets() returns the line typed after those that were said, and what stdio and stdin hold
\* then are the ones after it.
Follows(a, s, t, n) ==
  /\ n + Len(a) <= Len(t)
  /\ \A i \in 1..Len(a) : a[i] = t[n + i]
  /\ EndOfFile \notin Range(s) => Len(t) = n + Len(a) + Len(s)
  /\ Unread(s, t, n + Len(a))

LEMMA AheadFollows ==
  ASSUME NEW a \in Seq(Line), NEW s, NEW t, NEW n \in Nat, a # <<>>, Follows(a, s, t, n)
  PROVE  /\ Head(a) = t[n + 1] /\ n + 1 <= Len(t)
         /\ Tail(a) \in Seq(Line) /\ Follows(Tail(a), s, t, n + 1)
<1>1. /\ Len(a) \in Nat \ {0} /\ Head(a) = a[1]
      /\ Tail(a) \in Seq(Line) /\ Len(Tail(a)) = Len(a) - 1
      /\ \A i \in 1..Len(Tail(a)) : Tail(a)[i] = a[i + 1]
  BY EmptySeq, HeadTailProperties
<1> DEFINE k == Len(a)
           b == Tail(a)
<1>2. k \in Nat \ {0} /\ Len(b) = k - 1
  BY <1>1
<1>3. (\A i \in 1..k : a[i] = t[n + i]) /\ n + k <= Len(t)
  BY DEF Follows
<1> HIDE DEF k, b
<1>4. /\ 1 \in 1..k /\ n + k = (n + 1) + (k - 1)
      /\ \A i \in 1..(k - 1) : i + 1 \in 1..k /\ n + (i + 1) = (n + 1) + i
  BY <1>2
<1>5. \A i \in 1..Len(b) : b[i] = t[(n + 1) + i]
  <2> SUFFICES ASSUME NEW i \in 1..Len(b) PROVE b[i] = t[(n + 1) + i]
    OBVIOUS
  <2>1. b[i] = a[i + 1]
    BY <1>1 DEF b
  <2>2. i + 1 \in 1..k /\ n + (i + 1) = (n + 1) + i
    BY <1>2, <1>4
  <2> QED
    BY <1>3, <2>1, <2>2
<1>6. (n + 1) + Len(b) = n + Len(a)
  BY <1>2, <1>4 DEF k
<1>7. Follows(b, s, t, n + 1)
  BY <1>3, <1>5, <1>6 DEF Follows, k
<1>8. Head(a) = t[n + 1]
  BY <1>1, <1>3, <1>4
<1>9. n + 1 <= Len(t)
  <2>1. Len(b) \in Nat /\ (n + 1) + Len(b) <= Len(t)
    BY <1>1, <1>3, <1>6 DEF b, k
  <2> QED
    BY <2>1
<1> QED
  BY <1>1, <1>7, <1>8, <1>9 DEF b

LEMMA BlockFollows ==
  ASSUME NEW s \in Seq(Line \cup {EndOfFile}), NEW t \in Seq(Line), NEW n \in Nat,
         NEW b \in Seq(Line), NEW r \in Seq(Line \cup {EndOfFile}),
         Follows(<<>>, s, t, n), Len(b) \in 1..Len(s), Len(r) = Len(s) - Len(b),
         \A i \in 1..Len(b) : b[i] = s[i] /\ s[i] # EndOfFile,
         \A i \in 1..Len(r) : r[i] = s[Len(b) + i]
  PROVE  Follows(b, r, t, n)
<1> DEFINE k == Len(b)
           m == Len(s)
           l == Len(t)
<1>1. k \in Nat /\ m \in Nat /\ l \in Nat /\ k \in 1..m /\ Len(r) = m - k
  OBVIOUS
<1>2. /\ EndOfFile \notin Range(s) => l = n + m
      /\ Unread(s, t, n)
  <2>1. n + Len(<<>>) = n /\ n + m = n + Len(<<>>) + m
    BY <1>1
  <2> QED
    BY <2>1 DEF Follows
<1>3. EndOfFile \in Range(s) <=> \E i \in 1..m : s[i] = EndOfFile
  BY InRange
<1>4. EndOfFile \in Range(r) <=> \E i \in 1..(m - k) : r[i] = EndOfFile
  <2>1. EndOfFile \in Range(r) <=> \E i \in 1..Len(r) : r[i] = EndOfFile
    BY InRange
  <2> HIDE DEF k, m
  <2> QED
    BY <1>1, <2>1
<1>5. /\ \A i \in 1..k : b[i] = s[i] /\ s[i] # EndOfFile
      /\ \A i \in 1..(m - k) : r[i] = s[k + i]
  BY <1>1
<1>6. \A i \in 1..m : (\A j \in 1..i : s[j] # EndOfFile) => n + i <= l /\ s[i] = t[n + i]
  BY <1>2 DEF Unread
<1>7. \A i \in 1..k : n + i <= l /\ b[i] = t[n + i]
  <2>1. \A i \in 1..k : i \in 1..m /\ \A j \in 1..i : j \in 1..k
    BY <1>1
  <2> QED
    BY <1>5, <1>6, <2>1
<1> HIDE DEF k, m, l
<1>8. n + k <= l
  <2>1. k \in 1..k
    BY <1>1
  <2> QED
    BY <1>7, <2>1
<1>9. EndOfFile \notin Range(r) => l = n + k + (m - k)
  <2>1. \A i \in 1..m : i \in 1..k \/ (i - k \in 1..(m - k) /\ k + (i - k) = i)
    BY <1>1
  <2>2. ASSUME EndOfFile \in Range(s) PROVE EndOfFile \in Range(r)
    <3>1. PICK i \in 1..m : s[i] = EndOfFile
      BY <1>3, <2>2
    <3>2. i \notin 1..k
      BY <1>5, <3>1
    <3>3. i - k \in 1..(m - k) /\ k + (i - k) = i
      BY <2>1, <3>2
    <3>4. r[i - k] = EndOfFile
      BY <1>5, <3>1, <3>3
    <3> QED
      BY <1>4, <3>3, <3>4
  <2> QED
    BY <1>1, <1>2, <2>2
<1>10. ASSUME NEW i \in 1..(m - k), \A j \in 1..i : r[j] # EndOfFile
       PROVE  n + k + i <= l /\ r[i] = t[n + k + i]
  <2>1. k + i \in 1..m /\ n + (k + i) = n + k + i
    BY <1>1
  <2>2. \A j \in 1..(k + i) :
          j \in 1..k \/ (j - k \in 1..i /\ j - k \in 1..(m - k) /\ k + (j - k) = j)
    BY <1>1
  <2>3. \A j \in 1..(k + i) : s[j] # EndOfFile
    BY <1>5, <1>10, <2>2
  <2> QED
    BY <1>5, <1>6, <2>1, <2>3
<1>11. Unread(r, t, n + k)
  BY <1>1, <1>10 DEF Unread, l
<1> QED
  BY <1>1, <1>7, <1>8, <1>9, <1>11 DEF Follows, k, m, l

LEMMA LineRead ==
  ASSUME Types, NEW e \in Side, Input(e), pc[e] = "chat", stdin[e] # <<>>,
         NEW line \in Line, FgetsLine(e, line)
  PROVE  /\ ~feof[e] /\ UNCHANGED feof
         /\ ahead' \in [Side -> Seq(Line)] /\ stdin' \in [Side -> Seq(Line \cup {EndOfFile})]
         /\ \A d \in Side : d # e => ahead'[d] = ahead[d] /\ stdin'[d] = stdin[d]
         /\ Len(said[e]) + 1 <= Len(typed[e]) /\ line = typed[e][Len(said[e]) + 1]
         /\ Follows(ahead'[e], stdin'[e], typed[e], Len(said[e]) + 1)
         /\ kind[e] = "pipe" =>
              \A i \in 1..Len(stdin'[e]) : stdin'[e][i] = EndOfFile => i = Len(stdin'[e])
<1> DEFINE n == Len(said[e])
           t == typed[e]
           s == stdin[e]
           a == ahead[e]
<1>1. /\ n \in Nat /\ t \in Seq(Line) /\ a \in Seq(Line)
      /\ s \in Seq(Line \cup {EndOfFile}) /\ s # <<>>
      /\ ahead \in [Side -> Seq(Line)] /\ stdin \in [Side -> Seq(Line \cup {EndOfFile})]
  BY DEF Types
<1>2. kind[e] = "pipe" => \A i \in 1..Len(s) : s[i] = EndOfFile => i = Len(s)
  BY DEF Input
<1>3. ~feof[e] => Follows(a, s, t, n)
  BY DEF Input, Follows
<1>4. feof[e] => a = <<>>
  BY DEF Input
<1>5. CASE /\ a # <<>> /\ line = Head(a)
           /\ ahead' = [ahead EXCEPT ![e] = Tail(a)] /\ UNCHANGED <<stdin, feof>>
  <2>1. ~feof[e]
    BY <1>4, <1>5
  <2>2. /\ Head(a) = t[n + 1] /\ n + 1 <= Len(t)
        /\ Tail(a) \in Seq(Line) /\ Follows(Tail(a), s, t, n + 1)
    <3> HIDE DEF n, t, s, a
    <3> QED
      BY <1>1, <1>3, <1>5, <2>1, AheadFollows
  <2>3. ahead'[e] = Tail(a) /\ stdin'[e] = s
    BY <1>1, <1>5
  <2>4. ahead' \in [Side -> Seq(Line)] /\ \A d \in Side : d # e => ahead'[d] = ahead[d]
    BY <1>1, <1>5, <2>2
  <2> QED
    BY <1>1, <1>2, <1>5, <2>1, <2>2, <2>3, <2>4
<1>6. CASE /\ a = <<>> /\ ~feof[e] /\ Head(s) # EndOfFile /\ line = Head(Block(e))
           /\ ahead' = [ahead EXCEPT ![e] = Tail(Block(e))]
           /\ stdin' = [stdin EXCEPT ![e] = LeftInStdin(e)] /\ UNCHANGED feof
  <2> DEFINE b == Block(e)
             r == LeftInStdin(e)
  <2>1. /\ b \in Seq(Line) /\ Len(b) \in 1..Len(s)
        /\ \A i \in 1..Len(b) : b[i] = s[i] /\ s[i] # EndOfFile
        /\ r \in Seq(Line \cup {EndOfFile}) /\ Len(r) = Len(s) - Len(b)
        /\ \A i \in 1..Len(r) : r[i] = s[Len(b) + i]
    BY <1>6, BlockIsFirst
  <2> HIDE DEF b, r, n, t, s, a
  <2>2. Follows(b, r, t, n)
    <3>1. Follows(<<>>, s, t, n)
      BY <1>3, <1>6
    <3> QED
      BY <1>1, <2>1, <3>1, BlockFollows
  <2>3. b # <<>>
    BY <2>1, EmptySeq
  <2>4. /\ Head(b) = t[n + 1] /\ n + 1 <= Len(t)
        /\ Tail(b) \in Seq(Line) /\ Follows(Tail(b), r, t, n + 1)
    BY <1>1, <2>1, <2>2, <2>3, AheadFollows
  <2>5. /\ ahead'[e] = Tail(b) /\ stdin'[e] = r
        /\ ahead' \in [Side -> Seq(Line)] /\ stdin' \in [Side -> Seq(Line \cup {EndOfFile})]
        /\ \A d \in Side : d # e => ahead'[d] = ahead[d] /\ stdin'[d] = stdin[d]
    BY <1>1, <1>6, <2>1, <2>4 DEF b, r
  <2>6. kind[e] = "pipe" => \A i \in 1..Len(r) : r[i] = EndOfFile => i = Len(r)
    <3> SUFFICES ASSUME kind[e] = "pipe", NEW i \in 1..Len(r), r[i] = EndOfFile
                 PROVE  i = Len(r)
      OBVIOUS
    <3> DEFINE k == Len(b)
               m == Len(s)
    <3>1. k \in Nat /\ m \in Nat /\ k \in 1..m /\ Len(r) = m - k
      BY <1>1, <2>1
    <3> HIDE DEF k, m
    <3>2. k + i \in 1..m
      BY <3>1
    <3>3. s[k + i] = EndOfFile
      BY <2>1 DEF k
    <3>4. k + i = m
      BY <1>2, <3>2, <3>3 DEF m
    <3> QED
      BY <3>1, <3>4
  <2> QED
    BY <1>6, <2>4, <2>5, <2>6 DEF b, n, t
<1> QED
  BY <1>5, <1>6 DEF FgetsLine

------------------------------------------------------------------------------
(* A turn for stdin. *)

\* A line that was read is said, or lost because the other side has reset the connection.
LEMMA LineSaidInput ==
  ASSUME Types, NEW e \in Side, Input(e), pc[e] = "chat", stdin[e] # <<>>,
         NEW line \in Line, FgetsLine(e, line), UNCHANGED <<kind, typed>>,
         \/ said' = said /\ pc'[e] = "left"
         \/ said'[e] = Append(said[e], line)
  PROVE  Input(e)'
<1> DEFINE n == Len(said[e])
           t == typed[e]
           a == ahead'[e]
           s == stdin'[e]
<1>1. /\ ~feof[e] /\ UNCHANGED feof
      /\ n + 1 <= Len(t) /\ line = t[n + 1]
      /\ Follows(a, s, t, n + 1)
      /\ kind[e] = "pipe" => \A i \in 1..Len(s) : s[i] = EndOfFile => i = Len(s)
  BY LineRead
<1>2. n \in Nat /\ said[e] \in Seq(Line) /\ Len(t) \in Nat
  BY DEF Types
<1>3. /\ n <= Len(t) /\ \A i \in 1..n : said[e][i] = t[i]
  BY DEF Input
<1>4. CASE said' = said /\ pc'[e] = "left"
  BY <1>1, <1>3, <1>4 DEF Input
<1>5. CASE said'[e] = Append(said[e], line)
  <2> DEFINE w == Append(said[e], line)
  <2>1. Len(w) = n + 1 /\ (\A i \in 1..n : w[i] = said[e][i]) /\ w[n + 1] = line
    BY <1>2, AppendProperties
  <2> HIDE DEF w, n, t, a, s
  <2>2. \A i \in 1..Len(w) : i \in 1..n \/ i = n + 1
    BY <1>2, <2>1
  <2>3. \A i \in 1..Len(w) : w[i] = t[i]
    BY <1>1, <1>3, <2>1, <2>2
  <2>4. said'[e] = w /\ Len(said'[e]) = n + 1 /\ typed'[e] = t
    BY <1>5, <2>1 DEF w, t
  <2>5. /\ n + 1 + Len(a) <= Len(t)
        /\ \A i \in 1..Len(a) : a[i] = t[n + 1 + i]
        /\ EndOfFile \notin Range(s) => Len(t) = n + 1 + Len(a) + Len(s)
        /\ Unread(s, t, n + 1 + Len(a))
    BY <1>1 DEF Follows
  <2>6. /\ Len(said'[e]) <= Len(typed'[e])
        /\ \A i \in 1..Len(said'[e]) : said'[e][i] = typed'[e][i]
        /\ ~feof'[e]
    BY <1>1, <2>1, <2>3, <2>4
  <2>7. /\ Len(said'[e]) + Len(ahead'[e]) <= Len(typed'[e])
        /\ \A i \in 1..Len(ahead'[e]) : ahead'[e][i] = typed'[e][Len(said'[e]) + i]
        /\ EndOfFile \notin Range(stdin'[e]) =>
             Len(typed'[e]) = Len(said'[e]) + Len(ahead'[e]) + Len(stdin'[e])
    BY <2>4, <2>5 DEF a, s
  <2>8. Unread(stdin'[e], typed'[e], Len(said'[e]) + Len(ahead'[e]))
    BY <2>4, <2>5 DEF a, s
  <2>9. kind'[e] = "pipe" =>
          \A i \in 1..Len(stdin'[e]) : stdin'[e][i] = EndOfFile => i = Len(stdin'[e])
    BY <1>1 DEF s
  <2> QED
    BY <2>6, <2>7, <2>8, <2>9 DEF Input, Range, Unread
<1> QED
  BY <1>4, <1>5

\* What send() changes.
LEMMA DeliverEffect ==
  ASSUME BoundsAssumption, Types, NEW e \in Side, pc[e] = "chat",
         NEW x \in Line \cup {Stale}, NEW exits, Deliver(e, x, exits)
  PROVE  /\ pc' \in [Side -> {"boot", "listen", "chat", "left", "cut", "refused"}]
         /\ pc'[e] \in {"chat", "left"} /\ pc'[Other(e)] = pc[Other(e)]
         /\ reset' \in [Side -> {"no", "coming", "yes"}]
         /\ wire' \in [Side -> Seq(Line \cup {Stale})] /\ wire'[e] = wire[e]
         /\ \A d \in Side : Len(wire'[d]) <= Window
         /\ \/ reset[e] = "yes" /\ wire' = wire /\ pc'[e] = "left"
            \/ reset[e] # "yes" /\ Gone(Other(e)) /\ wire' = wire
            \/ /\ reset[e] # "yes" /\ ~Gone(Other(e))
               /\ wire'[Other(e)] = Append(wire[Other(e)], x)
<1> DEFINE d == Other(e)
<1>1. d \in Side /\ d # e /\ \A f \in Side : f = e \/ f = d
  BY TwoSides
<1>2. /\ pc' \in [Side -> {"boot", "listen", "chat", "left", "cut", "refused"}]
      /\ pc'[e] \in {"chat", "left"} /\ pc'[d] = pc[d]
      /\ reset' \in [Side -> {"no", "coming", "yes"}]
  <2> HIDE DEF d
  <2> QED
    BY <1>1 DEF Types, Deliver
<1> HIDE DEF d
<1>3. CASE reset[e] = "yes"
  BY <1>2, <1>3 DEF Deliver, Types, d
<1>4. CASE reset[e] # "yes" /\ Gone(d)
  BY <1>2, <1>4 DEF Deliver, Types, d
<1>5. CASE reset[e] # "yes" /\ ~Gone(d)
  <2> DEFINE w == wire[d]
             u == Append(w, x)
  <2>1. wire' = [wire EXCEPT ![d] = u] /\ Len(w) < Window
    BY <1>5 DEF Deliver, d
  <2>2. w \in Seq(Line \cup {Stale})
    BY <1>1 DEF Types
  <2>3. u \in Seq(Line \cup {Stale}) /\ Len(u) = Len(w) + 1 /\ Len(w) \in Nat
    BY <2>2, AppendProperties
  <2>4. /\ wire'[d] = u /\ wire'[e] = wire[e]
        /\ wire' \in [Side -> Seq(Line \cup {Stale})]
    BY <1>1, <2>1, <2>3 DEF Types
  <2> HIDE DEF w, u
  <2>5. Len(u) <= Window
    BY <2>1, <2>3 DEF BoundsAssumption
  <2>6. ASSUME NEW f \in Side PROVE Len(wire'[f]) <= Window
    <3>1. CASE f = d
      BY <2>4, <2>5, <3>1
    <3>2. CASE f = e
      BY <2>4, <3>2 DEF Types
    <3> QED
      BY <1>1, <3>1, <3>2
  <2> QED
    BY <1>2, <1>5, <2>4, <2>6 DEF d, u, w
<1> QED
  BY <1>3, <1>4, <1>5

LEMMA SayLineInv ==
  ASSUME BoundsAssumption, IInv, NEW e \in Side, pc[e] = "chat", StdinReady(e), SayLine(e),
         UNCHANGED <<api, kind, typed, shown>>
  PROVE  IInv'
<1> DEFINE d == Other(e)
<1>1. PICK line \in Line :
        /\ FgetsLine(e, line)
        /\ buffer' = [buffer EXCEPT ![e] = Begins(line)]
        /\ Deliver(e, line, line = Exit)
        /\ said' = IF reset[e] = "yes" THEN said ELSE [said EXCEPT ![e] = Append(@, line)]
  BY DEF SayLine, Line
<1>2. Types /\ \A f \in Side : Input(f) /\ Stream(f)
  BY DEF IInv
<1>3. d \in Side /\ d # e /\ Other(d) = e /\ \A f \in Side : f = e \/ f = d
  BY TwoSides
<1>4. stdin[e] # <<>>
  BY DEF StdinReady
<1>5. /\ ~feof[e] /\ UNCHANGED feof
      /\ ahead' \in [Side -> Seq(Line)] /\ stdin' \in [Side -> Seq(Line \cup {EndOfFile})]
      /\ \A f \in Side : f # e => ahead'[f] = ahead[f] /\ stdin'[f] = stdin[f]
  BY <1>1, <1>2, <1>4, LineRead
<1>6. /\ pc' \in [Side -> {"boot", "listen", "chat", "left", "cut", "refused"}]
      /\ pc'[e] \in {"chat", "left"} /\ pc'[d] = pc[d]
      /\ reset' \in [Side -> {"no", "coming", "yes"}]
      /\ wire' \in [Side -> Seq(Line \cup {Stale})] /\ wire'[e] = wire[e]
      /\ \A f \in Side : Len(wire'[f]) <= Window
      /\ \/ reset[e] = "yes" /\ wire' = wire /\ pc'[e] = "left"
         \/ reset[e] # "yes" /\ Gone(d) /\ wire' = wire
         \/ reset[e] # "yes" /\ ~Gone(d) /\ wire'[d] = Append(wire[d], line)
  BY <1>1, <1>2, DeliverEffect
<1> HIDE DEF d
<1> DEFINE w == Append(said[e], line)
<1>7. said[e] \in Seq(Line) /\ w \in Seq(Line)
  BY <1>2, AppendProperties DEF Types
<1>8. /\ said' \in [Side -> Seq(Line)] /\ said'[d] = said[d]
      /\ reset[e] = "yes" => said' = said
      /\ reset[e] # "yes" => said'[e] = w
      /\ buffer' \in [Side -> {"empty", "text", "exit"}]
  BY <1>1, <1>2, <1>3, <1>7 DEF Types, Begins
<1> HIDE DEF w
<1>9. Types'
  BY <1>2, <1>5, <1>6, <1>8 DEF Types
<1>10. Input(e)'
  BY <1>1, <1>2, <1>4, <1>6, <1>8, LineSaidInput DEF w
<1>11. Input(d)'
  BY <1>2, <1>3, <1>5, <1>6, <1>8, InputKept
<1>12. Stream(e)'
  <2>1. Other(e) = d
    BY DEF d
  <2> QED
    BY <1>2, <1>3, <1>5, <1>6, <1>8, <2>1, StreamKept
<1>13. Stream(d)'
  <2>1. pc[d] # "cut"
    BY <1>2, <1>3 DEF Stream, Gone
  <2>2. /\ StaleLast(wire[d]) /\ Stale \notin Range(wire[d])
        /\ ~Gone(d) => shown[d] \o Lines(wire[d]) = said[e]
    BY <1>2, <1>3, <1>5 DEF Stream
  <2>3. CASE reset[e] = "yes"
    BY <1>2, <1>3, <1>5, <1>6, <1>8, <2>3, StreamKept
  <2>4. CASE reset[e] # "yes" /\ Gone(d)
    <3>1. wire' = wire
      BY <1>6, <2>4
    <3>2. pc'[d] = "left"
      BY <1>6, <2>1, <2>4 DEF Gone
    <3>3. StaleLast(wire'[d]) /\ Stale \notin Range(wire'[d])
      BY <2>2, <3>1
    <3> QED
      BY <3>2, <3>3 DEF Stream, Gone, StaleLast, Range
  <2>5. CASE reset[e] # "yes" /\ ~Gone(d)
    <3> DEFINE S == Line \cup {Stale}
               s == wire[d]
               u == Append(s, line)
               h == shown[d]
    <3>1. wire'[d] = u
      BY <1>6, <2>5
    <3>2. s \in Seq(S) /\ h \in Seq(S) /\ line \in S /\ line # Stale
      <4>1. s \in Seq(S) /\ h \in Seq(Line)
        BY <1>2, <1>3 DEF Types
      <4>2. h \in Seq(S)
        BY <4>1
      <4>3. line \in S /\ line # Stale
        BY DEF Line, Stale
      <4> QED
        BY <4>1, <4>2, <4>3
    <3> HIDE DEF S, s, h, u
    <3>3. /\ Stale \notin Range(u) /\ StaleLast(u) /\ Lines(s) = s /\ Lines(u) = u
      BY <2>2, <3>2, AppendLine DEF s, u
    <3>4. h \o u = Append(h \o s, line)
      BY <3>2 DEF u
    <3>5. h \o s = said[e]
      BY <2>2, <2>5, <3>3 DEF h, s
    <3>6. shown'[d] \o Lines(wire'[d]) = said'[e]
      BY <1>8, <2>5, <3>1, <3>3, <3>4, <3>5 DEF h, w
    <3>7. StaleLast(wire'[d]) /\ Stale \notin Range(wire'[d])
      BY <3>1, <3>3
    <3>8. pc'[d] # "cut"
      BY <1>6, <2>1
    <3> QED
      BY <1>3, <3>6, <3>7, <3>8 DEF Stream, StaleLast, Range, Gone
  <2> QED
    BY <2>3, <2>4, <2>5
<1> QED
  BY <1>3, <1>9, <1>10, <1>11, <1>12, <1>13 DEF IInv

\* At end-of-file the buffer is sent once more, as a stale line.
LEMMA SayAgainInv ==
  ASSUME BoundsAssumption, IInv, NEW e \in Side, pc[e] = "chat", StdinReady(e), SayAgain(e),
         UNCHANGED <<api, kind, typed, shown>>
  PROVE  IInv'
<1> DEFINE d == Other(e)
<1>1. /\ ahead[e] = <<>> /\ feof' = [feof EXCEPT ![e] = TRUE]
      /\ stdin' = [stdin EXCEPT ![e] = IF ~feof[e] /\ kind[e] = "terminal" THEN Tail(@) ELSE @]
      /\ UNCHANGED <<ahead, buffer, said>>
      /\ \/ UNCHANGED <<pc, wire, reset>>
         \/ Deliver(e, Stale, buffer[e] = "exit")
  BY DEF SayAgain, FgetsNull
<1>2. Types /\ \A f \in Side : Input(f) /\ Stream(f)
  BY DEF IInv
<1>3. d \in Side /\ d # e /\ Other(d) = e /\ \A f \in Side : f = e \/ f = d
  BY TwoSides
<1>4. stdin[e] \in Seq(Line \cup {EndOfFile}) /\ stdin[e] # <<>>
  BY <1>2 DEF StdinReady, Types
<1>5. /\ feof' \in [Side -> BOOLEAN] /\ feof'[e] /\ feof'[d] = feof[d]
      /\ stdin' \in [Side -> Seq(Line \cup {EndOfFile})] /\ stdin'[d] = stdin[d]
      /\ kind[e] = "pipe" => stdin'[e] = stdin[e]
  <2>1. Tail(stdin[e]) \in Seq(Line \cup {EndOfFile})
    BY <1>4, HeadTailProperties
  <2> QED
    BY <1>1, <1>2, <1>3, <2>1 DEF Types
<1>6. /\ pc' \in [Side -> {"boot", "listen", "chat", "left", "cut", "refused"}]
      /\ pc'[e] \in {"chat", "left"} /\ pc'[d] = pc[d]
      /\ reset' \in [Side -> {"no", "coming", "yes"}]
      /\ wire' \in [Side -> Seq(Line \cup {Stale})] /\ wire'[e] = wire[e]
      /\ \A f \in Side : Len(wire'[f]) <= Window
      /\ wire' = wire \/ (~Gone(d) /\ wire'[d] = Append(wire[d], Stale))
  <2>1. CASE UNCHANGED <<pc, wire, reset>>
    BY <1>2, <2>1 DEF Types
  <2>2. CASE Deliver(e, Stale, buffer[e] = "exit")
    <3>1. Stale \in Line \cup {Stale}
      OBVIOUS
    <3> QED
      BY <1>2, <2>2, <3>1, DeliverEffect
  <2> QED
    BY <1>1, <2>1, <2>2
<1> HIDE DEF d
<1>7. Types'
  BY <1>1, <1>2, <1>5, <1>6 DEF Types
<1>8. Input(e)'
  <2>1. pc[e] # "left" /\ pc'[e] # "cut"
    BY <1>6
  <2> QED
    BY <1>1, <1>2, <1>5, <2>1 DEF Input
<1>9. Input(d)'
  BY <1>1, <1>2, <1>3, <1>5, <1>6, InputKept
<1>10. Stream(e)'
  <2>1. Other(e) = d
    BY DEF d
  <2> QED
    BY <1>1, <1>2, <1>3, <1>5, <1>6, <2>1, StreamKept
<1>11. Stream(d)'
  <2>1. CASE wire' = wire
    BY <1>1, <1>2, <1>3, <1>5, <1>6, <2>1, StreamKept
  <2>2. CASE ~Gone(d) /\ wire'[d] = Append(wire[d], Stale)
    <3> DEFINE s == wire[d]
               u == Append(s, Stale)
    <3>1. s \in Seq(Line \cup {Stale}) /\ StaleLast(s)
      BY <1>2, <1>3 DEF Types, Stream
    <3>2. StaleLast(u) /\ Lines(u) = Lines(s)
      <4>1. Stale \in Line \cup {Stale}
        OBVIOUS
      <4> QED
        BY <3>1, <4>1, AppendStale
    <3>3. shown[d] \o Lines(s) = said[e]
      BY <1>2, <1>3, <2>2 DEF Stream
    <3>4. wire'[d] = u /\ pc'[d] \notin {"left", "cut"}
      BY <1>6, <2>2 DEF Gone
    <3> HIDE DEF s, u
    <3>5. StaleLast(wire'[d]) /\ shown'[d] \o Lines(wire'[d]) = said'[e]
      BY <1>1, <3>2, <3>3, <3>4
    <3> QED
      BY <1>3, <1>5, <3>4, <3>5 DEF Stream, StaleLast, Gone
  <2> QED
    BY <1>6, <2>1, <2>2
<1> QED
  BY <1>3, <1>7, <1>8, <1>9, <1>10, <1>11 DEF IInv

LEMMA ChattingInv == ASSUME BoundsAssumption, IInv, NEW e \in Side, Chatting(e) PROVE IInv'
<1>1. CASE StdinTurn(e)
  <2>1. /\ pc[e] = "chat" /\ StdinReady(e) /\ UNCHANGED <<api, kind, typed, shown>>
        /\ SayLine(e) \/ SayAgain(e)
    BY <1>1 DEF StdinTurn
  <2> QED
    BY <2>1, SayLineInv, SayAgainInv
<1> QED
  BY <1>1, RecvInv, CutInv, ErrorInv DEF Chatting

------------------------------------------------------------------------------
(* The theorems. *)

LEMMA NextInv == ASSUME BoundsAssumption PROVE IInv /\ [Next]_vars => IInv'
<1> SUFFICES ASSUME IInv, [Next]_vars PROVE IInv'
  OBVIOUS
<1>1. CASE Listen \/ ConnectTo \/ Accept
  BY <1>1, StartInv
<1>2. ASSUME NEW e \in Side, Type(e) \/ EndInput(e) \/ Chatting(e) \/ ResetArrives(e)
      PROVE  IInv'
  BY <1>2, TypeInv, EndInputInv, ChattingInv, ResetInv
<1>3. CASE UNCHANGED vars
  <2>1. UNCHANGED <<api, kind, pc, typed, stdin, ahead, feof, buffer, wire, said, shown, reset>>
    BY <1>3 DEF vars, inputVars
  <2>2. Types'
    BY <2>1 DEF IInv, Types
  <2>3. \A e \in Side : Input(e)' /\ Stream(e)'
    BY <2>1, InputKept, StreamKept, TwoSides DEF IInv
  <2> QED
    BY <2>2, <2>3 DEF IInv
<1> QED
  BY <1>1, <1>2, <1>3 DEF Next

LEMMA Invariance == ASSUME BoundsAssumption PROVE Spec => []IInv
<1>1. Init => IInv
  BY InitInv
<1>2. IInv /\ [Next]_vars => IInv'
  BY NextInv
<1> QED
  BY <1>1, <1>2, PTL DEF Spec

\* Every variable stays in its range: lines are those typed, whatever stdio, the buffer and
\* the socket do with them, and send() never puts more under way than the window.
THEOREM TypeCorrect == ASSUME BoundsAssumption PROVE Spec => []TypeOK
<1>1. IInv => TypeOK
  <2> SUFFICES ASSUME Types PROVE TypeOK
    BY DEF IInv
  <2>1. ASSUME NEW e \in Side
        PROVE  /\ Range(typed[e]) \cup Range(ahead[e]) \subseteq 0..MaxLines
               /\ Range(stdin[e]) \subseteq 0..MaxLines \cup {EndOfFile}
               /\ Range(wire[e]) \subseteq 0..MaxLines \cup {Stale} /\ Len(wire[e]) <= Window
               /\ Range(shown[e]) \subseteq 0..MaxLines
    <3>1. ASSUME NEW S, NEW s \in Seq(S) PROVE Range(s) \subseteq S
      BY DEF Range
    <3>2. /\ typed[e] \in Seq(Line) /\ ahead[e] \in Seq(Line) /\ shown[e] \in Seq(Line)
          /\ stdin[e] \in Seq(Line \cup {EndOfFile}) /\ wire[e] \in Seq(Line \cup {Stale})
          /\ Len(wire[e]) <= Window
      BY DEF Types
    <3> HIDE DEF Line
    <3>3. /\ Range(typed[e]) \cup Range(ahead[e]) \subseteq Line
          /\ Range(stdin[e]) \subseteq Line \cup {EndOfFile}
          /\ Range(wire[e]) \subseteq Line \cup {Stale}
          /\ Range(shown[e]) \subseteq Line
      BY <3>1, <3>2
    <3> QED
      BY <3>2, <3>3 DEF Line
  <2> QED
    BY <2>1 DEF Types, TypeOK
<1> QED
  BY <1>1, Invariance, PTL

\* What a side says are the lines typed on it, and the other side shows them, each once and
\* in order; a side repeats itself only at end-of-file.
THEOREM SaysWhatWasTyped == ASSUME BoundsAssumption PROVE Spec => []SaidWasTyped
<1>1. IInv => SaidWasTyped
  <2> SUFFICES ASSUME IInv, NEW e \in Side
               PROVE  /\ IsPrefix(said[e], typed[e])
                      /\ ~Gone(Other(e)) =>
                           shown[Other(e)] \o Lines(wire[Other(e)]) = said[e]
                      /\ Stale \in Range(wire[e]) => feof[Other(e)]
    BY DEF SaidWasTyped
  <2>1. Input(e) /\ Stream(e) /\ Stream(Other(e)) /\ Other(Other(e)) = e
    BY TwoSides DEF IInv
  <2>2. IsPrefix(said[e], typed[e])
    <3>1. /\ Len(said[e]) <= Len(typed[e])
          /\ \A i \in 1..Len(said[e]) : said[e][i] = typed[e][i]
      BY <2>1 DEF Input
    <3>2. said[e] \in Seq(Line) /\ typed[e] \in Seq(Line)
      BY DEF IInv, Types
    <3> QED
      BY <3>1, <3>2 DEF IsPrefix
  <2> QED
    BY <2>1, <2>2 DEF Stream
<1> QED
  BY <1>1, Invariance, PTL

\* A side that ends with "CUT." has shown everything the other side said: recv() returns 0
\* only after the last line.
THEOREM CutIsLast == ASSUME BoundsAssumption PROVE Spec => []CutLosesNothing
<1>1. IInv => CutLosesNothing
  BY DEF IInv, Stream, CutLosesNothing
<1> QED
  BY <1>1, Invariance, PTL

==============================================================================
