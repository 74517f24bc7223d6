--------------------------- MODULE EpollEchoProofs ---------------------------
(***************************************************************************)
(* Proofs about EpollEcho for any finite set of clients and any sizes of   *)
(* the buffer and the sockets: no edge is used up with something left to   *)
(* read, and what is echoed is what was sent, in order and once.           *)
(***************************************************************************)
EXTENDS EpollEcho, FiniteSetTheorems, SequenceTheorems, TLAPS

Byte == [n : 1..MaxBytes, dot : BOOLEAN]

\* The types of the variables, with those that TypeOK leaves open.
Types ==
  /\ peer \in [Client -> {"new", "backlog", "gone", "connected", "closed", "reset"}]
  /\ open \subseteq Client /\ edge \subseteq open
  /\ inbox \in [Client -> Seq(Byte)]
  /\ sent \in 0..MaxBytes
  /\ batch \in Seq(Client \cup {Listener}) /\ spc \in {"wait", "batch", "dead"}
  /\ buffer \in [1..MAX_LINE -> BOOLEAN]
  /\ echoed \in [Client -> Seq(Byte)]
  /\ unread \in [Client -> 0..SendBuf]

\* The entries still to be handled.
Rest == {batch[k] : k \in 1..Len(batch)}

\* Clients of the epoll set have been accepted, and a batch has each of them once.
Entries ==
  /\ \A c \in open : peer[c] \notin {"new", "backlog", "gone"}
  /\ spc = "batch" => batch # <<>>
  /\ \A j, k \in 1..Len(batch) : batch[j] = batch[k] => j = k

\* What an open connection has to be read for is announced by an edge or a batch entry.
Announced ==
  \A c \in open :
    inbox[c] # <<>> \/ peer[c] # "connected" =>
      c \in edge \/ (spc = "batch" /\ c \in Rest) \/ spc = "dead"

\* Bytes come in the order in which they were sent.
Increasing(c) ==
  /\ \A i \in 1..Len(inbox[c]) : inbox[c][i].n <= sent
  /\ \A i, j \in 1..Len(inbox[c]) : i < j => inbox[c][i].n < inbox[c][j].n
  /\ \A i \in 1..Len(echoed[c]) : echoed[c][i].n <= sent
  /\ \A i, j \in 1..Len(echoed[c]) : i < j => echoed[c][i].n < echoed[c][j].n
  /\ \A i \in 1..Len(echoed[c]), j \in 1..Len(inbox[c]) : echoed[c][i].n < inbox[c][j].n
Ordered == \A c \in Client : Increasing(c)

IInv == Types /\ Entries /\ Announced /\ Ordered

------------------------------------------------------------------------------
(* Lemmas. *)

\* A sequence that SetToSeqs makes of a set has all of its elements.
LEMMA AllInSequence ==
  ASSUME NEW S, IsFiniteSet(S), NEW seq \in SetToSeqs(S)
  PROVE  /\ seq \in Seq(S)
         /\ \A j, k \in 1..Len(seq) : seq[j] = seq[k] => j = k
         /\ S = {seq[k] : k \in 1..Len(seq)}
         /\ S # {} => seq # <<>>
<1> DEFINE n == Cardinality(S)
<1>1. n \in Nat
  BY FS_CardinalityType
<1>2. seq \in [1..n -> S] /\ \A j, k \in 1..n : j # k => seq[j] # seq[k]
  BY DEF SetToSeqs
<1>3. IsFiniteSet(1..n) /\ Cardinality(1..n) = n
  BY <1>1, FS_Interval
<1>4. S # {} => n # 0
  BY FS_EmptySet
<1> HIDE DEF n
<1>5. seq \in Injection(1..n, S)
  BY <1>2 DEF Injection, IsInjective
<1>6. Cardinality(1..n) = Cardinality(S)
  BY <1>3 DEF n
<1>7. seq \in Surjection(1..n, S)
  BY <1>5, <1>6, FS_Injection
<1>8. seq \in Seq(S) /\ Len(seq) = n
  BY <1>1, <1>2, SeqDef
<1>9. \A s \in S : \E k \in 1..n : seq[k] = s
  BY <1>7 DEF Surjection
<1> QED
  BY <1>1, <1>2, <1>4, <1>8, <1>9, EmptySeq

\* The next entry of the batch comes up.
LEMMA NextEntryEffect ==
  ASSUME Types, Entries, spc = "batch", NextEntry
  PROVE  /\ batch' \in Seq(Client \cup {Listener}) /\ spc' \in {"wait", "batch"}
         /\ spc' = "batch" <=> batch' # <<>>
         /\ \A j, k \in 1..Len(batch') : batch'[j] = batch'[k] => j = k
         /\ Rest' = Rest \ {Head(batch)} /\ Head(batch) \in Rest
<1>1. batch \in Seq(Client \cup {Listener}) /\ batch # <<>>
  BY DEF Types, Entries
<1>2. /\ batch' \in Seq(Client \cup {Listener})
      /\ Len(batch') = Len(batch) - 1 /\ Len(batch) \in Nat \ {0} /\ Head(batch) = batch[1]
      /\ \A k \in 1..Len(batch') : batch'[k] = batch[k + 1]
  BY <1>1, HeadTailProperties, EmptySeq DEF NextEntry
<1>3. \A k \in 1..Len(batch') : k + 1 \in 1..Len(batch) /\ k + 1 # 1
  BY <1>2
<1>4. \A k \in 1..Len(batch) : k # 1 => k - 1 \in 1..Len(batch') /\ (k - 1) + 1 = k
  BY <1>2
<1>5. 1 \in 1..Len(batch)
  BY <1>2
<1>6. \A j, k \in 1..Len(batch') : batch'[j] = batch'[k] => j = k
  <2> TAKE j, k \in 1..Len(batch')
  <2>1. batch[j + 1] = batch[k + 1] => j + 1 = k + 1
    BY <1>3 DEF Entries
  <2> QED
    BY <1>2, <2>1
<1>7. Rest' \subseteq Rest \ {Head(batch)}
  BY <1>2, <1>3, <1>5 DEF Rest, Entries
<1>8. Rest \ {Head(batch)} \subseteq Rest'
  <2> SUFFICES ASSUME NEW k \in 1..Len(batch), batch[k] # Head(batch) PROVE batch[k] \in Rest'
    BY DEF Rest
  <2>1. k - 1 \in 1..Len(batch') /\ (k - 1) + 1 = k
    BY <1>2, <1>4
  <2>2. batch[k] = batch'[k - 1]
    BY <1>2, <2>1
  <2> QED
    BY <2>1, <2>2 DEF Rest
<1>9. Head(batch) \in Rest
  BY <1>2, <1>5 DEF Rest
<1> QED
  BY <1>2, <1>6, <1>7, <1>8, <1>9 DEF NextEntry

\* A client sends a byte and nothing else changes about what is read and echoed.
LEMMA ByteSent ==
  ASSUME SizesAssumption, Types, Ordered, NEW c \in Client, NEW dot \in BOOLEAN,
         sent < MaxBytes, sent' = sent + 1, UNCHANGED echoed,
         inbox' = [inbox EXCEPT ![c] = Append(@, [n |-> sent', dot |-> dot])]
  PROVE  /\ sent' \in 0..MaxBytes /\ inbox' \in [Client -> Seq(Byte)] /\ Ordered'
         /\ \A d \in Client : d # c => inbox'[d] = inbox[d]
<1> DEFINE m == [n |-> sent', dot |-> dot]
           len == Len(inbox[c])
<1>1. /\ sent \in Nat /\ sent' \in 0..MaxBytes /\ sent < sent' /\ sent' = sent + 1
      /\ m \in Byte /\ m.n = sent'
  BY DEF SizesAssumption, Types, Byte
<1>2. inbox \in [Client -> Seq(Byte)] /\ echoed \in [Client -> Seq(Byte)]
  BY DEF Types
<1>3. inbox' = [inbox EXCEPT ![c] = Append(@, m)]
  OBVIOUS
<1> HIDE DEF m
<1>4. /\ inbox[c] \in Seq(Byte) /\ len \in Nat
      /\ inbox'[c] = Append(inbox[c], m) /\ inbox'[c] \in Seq(Byte)
      /\ Len(inbox'[c]) = len + 1
      /\ \A k \in 1..Len(inbox'[c]) : k \in 1..len \/ k = len + 1
      /\ \A k \in 1..len : inbox'[c][k] = inbox[c][k]
      /\ inbox'[c][len + 1] = m
  BY <1>1, <1>2, <1>3, AppendProperties
<1>5. /\ inbox' \in [Client -> Seq(Byte)]
      /\ \A d \in Client : d # c => inbox'[d] = inbox[d]
  BY <1>2, <1>3, <1>4
<1>6. \A d \in Client :
        /\ \A k \in 1..Len(inbox[d]) : inbox[d][k].n \in Int
        /\ \A k \in 1..Len(echoed[d]) : echoed[d][k].n \in Int
  <2> TAKE d \in Client
  <2>1. /\ \A k \in 1..Len(inbox[d]) : inbox[d][k] \in Byte
        /\ \A k \in 1..Len(echoed[d]) : echoed[d][k] \in Byte
    BY <1>2
  <2> QED
    BY <2>1 DEF Byte, SizesAssumption
<1>7. \A d \in Client :
        /\ \A k \in 1..Len(inbox[d]) : inbox[d][k].n < sent' /\ inbox[d][k].n <= sent'
        /\ \A k \in 1..Len(echoed[d]) : echoed[d][k].n < sent' /\ echoed[d][k].n <= sent'
  BY <1>1, <1>6 DEF Ordered, Increasing
<1>8. ASSUME NEW d \in Client, d # c PROVE Increasing(d)'
  BY <1>5, <1>7, <1>8 DEF Ordered, Increasing
<1>9. Increasing(c)'
  <2>1. \A k \in 1..Len(inbox'[c]) : inbox'[c][k].n <= sent'
    BY <1>1, <1>4, <1>7
  <2>2. \A i, j \in 1..Len(inbox'[c]) : i < j => inbox'[c][i].n < inbox'[c][j].n
    <3> TAKE i, j \in 1..Len(inbox'[c])
    <3>1. CASE j \in 1..len
      BY <1>4, <3>1 DEF Ordered, Increasing
    <3>2. CASE j = len + 1
      BY <1>1, <1>4, <1>7, <3>2
    <3> QED
      BY <1>4, <3>1, <3>2
  <2>3. \A i \in 1..Len(echoed[c]), j \in 1..Len(inbox'[c]) : echoed[c][i].n < inbox'[c][j].n
    BY <1>1, <1>4, <1>7 DEF Ordered, Increasing
  <2> QED
    BY <1>7, <2>1, <2>2, <2>3 DEF Ordered, Increasing
<1> QED
  BY <1>1, <1>5, <1>8, <1>9 DEF Ordered

\* What is left of a sequence after its first k elements.
LEMMA Suffix ==
  ASSUME NEW S, NEW s \in Seq(S), NEW k \in 0..Len(s)
  PROVE  /\ SubSeq(s, k + 1, Len(s)) \in Seq(S)
         /\ Len(SubSeq(s, k + 1, Len(s))) = Len(s) - k
         /\ \A i \in 1..Len(s) - k : /\ k + i \in 1..Len(s)
                                    /\ SubSeq(s, k + 1, Len(s))[i] = s[k + i]
<1>1. Len(s) \in Nat /\ k \in Nat /\ k <= Len(s)
  OBVIOUS
<1>2. \A i \in k + 1..Len(s) : s[i] \in S
  BY <1>1
<1>3. /\ SubSeq(s, k + 1, Len(s)) \in Seq(S)
      /\ Len(SubSeq(s, k + 1, Len(s))) =
           IF k + 1 <= Len(s) THEN Len(s) - (k + 1) + 1 ELSE 0
      /\ \A i \in 1..Len(s) - (k + 1) + 1 : SubSeq(s, k + 1, Len(s))[i] = s[k + 1 + i - 1]
  BY <1>1, <1>2, SubSeqProperties
<1>4. \A i \in 1..Len(s) - k : i \in 1..Len(s) - (k + 1) + 1 /\ k + 1 + i - 1 = k + i
  BY <1>1
<1>5. \A i \in 1..Len(s) - k : k + i \in 1..Len(s)
  BY <1>1
<1>6. Len(SubSeq(s, k + 1, Len(s))) = Len(s) - k
  BY <1>1, <1>3
<1>7. \A i \in 1..Len(s) - k : SubSeq(s, k + 1, Len(s))[i] = s[k + i]
  BY <1>3, <1>4
<1> QED
  BY <1>3, <1>5, <1>6, <1>7

\* The first bytes of an inbox are read, and some of them, or none, are echoed.
LEMMA BytesRead ==
  ASSUME SizesAssumption, Types, Ordered, NEW c \in Client,
         NEW size \in 0..Len(inbox[c]), NEW part \in 0..size, UNCHANGED sent,
         inbox' = [inbox EXCEPT ![c] = SubSeq(@, size + 1, Len(@))],
         echoed' = [echoed EXCEPT ![c] = @ \o SubSeq(inbox[c], 1, part)]
  PROVE  /\ inbox' \in [Client -> Seq(Byte)] /\ echoed' \in [Client -> Seq(Byte)]
         /\ \A d \in Client : d # c => inbox'[d] = inbox[d]
         /\ Ordered'
<1> DEFINE s == inbox[c]
           rest == SubSeq(s, size + 1, Len(s))
           out == SubSeq(s, 1, part)
           old == echoed[c]
<1>1. /\ s \in Seq(Byte) /\ Len(s) \in Nat /\ size \in Nat /\ size <= Len(s)
      /\ part \in Nat /\ part <= size
      /\ \A i \in 1..Len(s) : s[i] \in Byte
      /\ old \in Seq(Byte) /\ Len(old) \in Nat /\ \A i \in 1..Len(old) : old[i] \in Byte
  BY DEF Types
<1>2. /\ rest \in Seq(Byte) /\ Len(rest) = Len(s) - size
      /\ \A i \in 1..Len(rest) : size + i \in 1..Len(s) /\ rest[i] = s[size + i]
  BY <1>1, Suffix
<1>3. /\ out \in Seq(Byte) /\ Len(out) = part
      /\ \A i \in 1..part : i \in 1..Len(s) /\ out[i] = s[i]
  BY <1>1, SubSeqProperties
<1> HIDE DEF rest, out
<1>4. /\ inbox' \in [Client -> Seq(Byte)] /\ inbox'[c] = rest
      /\ \A d \in Client : d # c => inbox'[d] = inbox[d]
  BY <1>2 DEF Types, rest
<1>5. /\ old \o out \in Seq(Byte) /\ Len(old \o out) = Len(old) + part
      /\ \A i \in 1..Len(old) + part :
           (old \o out)[i] = IF i <= Len(old) THEN old[i] ELSE out[i - Len(old)]
  BY <1>1, <1>3, ConcatProperties
<1> DEFINE new == echoed'[c]
<1>6. /\ echoed' \in [Client -> Seq(Byte)] /\ new = old \o out
      /\ \A d \in Client : d # c => echoed'[d] = echoed[d]
  BY <1>5 DEF Types, out
<1>7. /\ Len(new) = Len(old) + part
      /\ \A i \in 1..Len(new) : \/ i \in 1..Len(old) /\ new[i] = old[i]
                                \/ /\ i \notin 1..Len(old) /\ i - Len(old) \in 1..part
                                   /\ i - Len(old) \in 1..Len(s) /\ new[i] = s[i - Len(old)]
  BY <1>1, <1>3, <1>5, <1>6
<1> HIDE DEF new
<1>8. /\ \A i \in 1..Len(s) : s[i].n <= sent /\ s[i].n \in Int
      /\ \A i, j \in 1..Len(s) : i < j => s[i].n < s[j].n
      /\ \A i \in 1..Len(old) : old[i].n <= sent /\ old[i].n \in Int
      /\ \A i, j \in 1..Len(old) : i < j => old[i].n < old[j].n
      /\ \A i \in 1..Len(old), j \in 1..Len(s) : old[i].n < s[j].n
  <2>1. \A b \in Byte : b.n \in Int
    BY DEF Byte, SizesAssumption
  <2> QED
    BY <1>1, <2>1 DEF Ordered, Increasing
<1>9. ASSUME NEW d \in Client, d # c PROVE Increasing(d)'
  BY <1>4, <1>6, <1>9 DEF Ordered, Increasing
<1>10. /\ \A i \in 1..Len(rest) : rest[i].n <= sent
       /\ \A i, j \in 1..Len(rest) : i < j => rest[i].n < rest[j].n
  <2>1. \A i, j \in 1..Len(rest) : i < j => size + i < size + j
    BY <1>1
  <2> QED
    BY <1>2, <1>8, <2>1
<1>11. \A i \in 1..Len(new) : new[i].n <= sent
  BY <1>7, <1>8
<1>12. \A i, j \in 1..Len(new) : i < j => new[i].n < new[j].n
  <2> TAKE i, j \in 1..Len(new)
  <2> SUFFICES ASSUME i < j PROVE new[i].n < new[j].n
    OBVIOUS
  <2>1. CASE j \in 1..Len(old)
    <3>1. i \in 1..Len(old)
      BY <1>1, <2>1
    <3> QED
      BY <1>7, <1>8, <2>1, <3>1
  <2>2. CASE i \in 1..Len(old) /\ j \notin 1..Len(old)
    BY <1>7, <1>8, <2>2
  <2>3. CASE i \notin 1..Len(old) /\ j \notin 1..Len(old)
    <3>1. i - Len(old) < j - Len(old)
      BY <1>1, <1>7
    <3> QED
      BY <1>7, <1>8, <2>3, <3>1
  <2> QED
    BY <2>1, <2>2, <2>3
<1>13. \A i \in 1..Len(new), j \in 1..Len(rest) : new[i].n < rest[j].n
  <2> TAKE i \in 1..Len(new), j \in 1..Len(rest)
  <2>1. size + j \in 1..Len(s) /\ rest[j] = s[size + j]
    BY <1>2
  <2>2. CASE i \in 1..Len(old)
    BY <1>7, <1>8, <2>1, <2>2
  <2>3. CASE i \notin 1..Len(old)
    <3>1. i - Len(old) < size + j
      BY <1>1, <1>7, <2>3
    <3> QED
      BY <1>7, <1>8, <2>1, <2>3, <3>1
  <2> QED
    BY <2>2, <2>3
<1>14. Increasing(c)'
  <2>1. sent' = sent /\ inbox'[c] = rest /\ echoed'[c] = new
    BY <1>4 DEF new
  <2> HIDE DEF new, rest
  <2> QED
    BY <1>10, <1>11, <1>12, <1>13, <2>1 DEF Increasing
<1> QED
  BY <1>4, <1>6, <1>9, <1>14 DEF Ordered

------------------------------------------------------------------------------
(* The invariant is inductive. *)

LEMMA InitInv == SizesAssumption /\ Init => IInv
<1> SUFFICES ASSUME SizesAssumption, Init PROVE IInv
  OBVIOUS
<1>1. Types
  BY DEF Init, Types, SizesAssumption
<1>2. /\ Len(batch) = 0 /\ spc = "wait" /\ open = {}
      /\ \A c \in Client : Len(inbox[c]) = 0 /\ Len(echoed[c]) = 0
  BY DEF Init
<1>3. Entries /\ Announced /\ Ordered
  BY <1>2 DEF Entries, Announced, Ordered, Increasing
<1> QED
  BY <1>1, <1>3 DEF IInv

\* A client changes what there is to read of itself only, and raises its edge.
LEMMA ClientAnnounces ==
  ASSUME Types, Entries, Announced, NEW c \in Client,
         UNCHANGED <<open, batch, spc>>, edge \subseteq edge',
         \A d \in Client : d # c => inbox'[d] = inbox[d] /\ peer'[d] = peer[d],
         c \in open => c \in edge' /\ peer'[c] \notin {"new", "backlog", "gone"}
  PROVE  Entries' /\ Announced'
<1>1. Rest' = Rest
  BY DEF Rest
<1>2. Announced'
  BY <1>1 DEF Announced, Types
<1>3. Entries'
  BY DEF Entries, Types
<1> QED
  BY <1>2, <1>3

LEMMA ClientInv ==
  ASSUME SizesAssumption, IInv, NEW c \in Client,
         Connect(c) \/ Close(c) \/ ReadEcho(c) \/ \E dot \in BOOLEAN : Send(c, dot)
  PROVE  IInv'
<1>1. Types /\ Entries /\ Announced /\ Ordered
  BY DEF IInv
<1>2. UNCHANGED <<open, batch, spc, buffer, echoed>>
  BY DEF Connect, Close, ReadEcho, Send
<1>3. CASE Connect(c)
  <2>1. /\ UNCHANGED <<inbox, sent, edge, unread>> /\ c \notin open
        /\ peer' \in [Client -> {"new", "backlog", "gone", "connected", "closed", "reset"}]
        /\ \A d \in Client : d # c => peer'[d] = peer[d]
    BY <1>1, <1>3 DEF Connect, Types, Entries
  <2>2. Types' /\ Ordered'
    BY <1>1, <1>2, <2>1 DEF Types, Ordered, Increasing
  <2>3. Entries' /\ Announced'
    BY <1>1, <1>2, <2>1, ClientAnnounces
  <2> QED
    BY <2>2, <2>3 DEF IInv
<1>4. CASE Close(c)
  <2>1. /\ UNCHANGED <<inbox, sent, unread>> /\ edge' = Raised(c)
        /\ peer' \in [Client -> {"new", "backlog", "gone", "connected", "closed", "reset"}]
        /\ \A d \in Client : d # c => peer'[d] = peer[d]
        /\ c \in open => peer'[c] \in {"closed", "reset"}
    <3>1. /\ UNCHANGED <<inbox, sent, unread>> /\ edge' = Raised(c)
          /\ c \in open => peer[c] # "backlog"
      BY <1>1, <1>4 DEF Close, Entries
    <3>2. PICK how \in IF peer[c] = "backlog" THEN {"gone"} ELSE {"closed", "reset"} :
            peer' = [peer EXCEPT ![c] = how]
      BY <1>4 DEF Close
    <3> QED
      BY <1>1, <3>1, <3>2 DEF Types
  <2>2. edge \subseteq edge' /\ edge' \subseteq open /\ (c \in open => c \in edge')
    BY <1>1, <2>1 DEF Raised, Types
  <2>3. Types' /\ Ordered'
    BY <1>1, <1>2, <2>1, <2>2 DEF Types, Ordered, Increasing
  <2>4. Entries' /\ Announced'
    BY <1>1, <1>2, <2>1, <2>2, ClientAnnounces
  <2> QED
    BY <2>3, <2>4 DEF IInv
<1>5. CASE ReadEcho(c)
  <2>1. UNCHANGED <<peer, inbox, sent, edge>> /\ unread' = [unread EXCEPT ![c] = 0]
    BY <1>5 DEF ReadEcho
  <2>2. unread' \in [Client -> 0..SendBuf]
    <3>1. 0 \in 0..SendBuf
      BY DEF SizesAssumption
    <3> QED
      BY <1>1, <2>1, <3>1 DEF Types
  <2>3. Types' /\ Ordered'
    BY <1>1, <1>2, <2>1, <2>2 DEF Types, Ordered, Increasing
  <2>4. Rest' = Rest
    BY <1>2 DEF Rest
  <2>5. Entries' /\ Announced'
    BY <1>1, <1>2, <2>1, <2>4 DEF Entries, Announced
  <2> QED
    BY <2>3, <2>5 DEF IInv
<1>6. ASSUME NEW dot \in BOOLEAN, Send(c, dot) PROVE IInv'
  <2>1. /\ UNCHANGED <<peer, unread>> /\ edge' = Raised(c)
        /\ sent < MaxBytes /\ sent' = sent + 1
        /\ inbox' = [inbox EXCEPT ![c] = Append(@, [n |-> sent', dot |-> dot])]
    BY <1>6 DEF Send
  <2>2. edge \subseteq edge' /\ edge' \subseteq open /\ (c \in open => c \in edge')
    BY <1>1, <2>1 DEF Raised, Types
  <2>3. /\ sent' \in 0..MaxBytes /\ inbox' \in [Client -> Seq(Byte)] /\ Ordered'
        /\ \A d \in Client : d # c => inbox'[d] = inbox[d]
    BY <1>1, <1>2, <2>1, ByteSent
  <2>4. Types'
    BY <1>1, <1>2, <2>1, <2>2, <2>3 DEF Types
  <2>5. Entries' /\ Announced'
    BY <1>1, <1>2, <2>1, <2>2, <2>3, ClientAnnounces DEF Entries
  <2> QED
    BY <2>3, <2>4, <2>5 DEF IInv
<1> QED
  BY <1>3, <1>4, <1>5, <1>6

\* All edges become entries of the batch.
LEMMA EpollWaitInv == SizesAssumption /\ IInv /\ EpollWait => IInv'
<1> SUFFICES ASSUME SizesAssumption, IInv, EpollWait PROVE IInv'
  OBVIOUS
<1> DEFINE ready == edge \cup IF Waiting # {} THEN {Listener} ELSE {}
<1>1. Types /\ Entries /\ Announced /\ Ordered
  BY DEF IInv
<1>2. /\ UNCHANGED <<peer, open, inbox, sent, buffer, echoed, unread>>
      /\ ready # {} /\ batch' \in SetToSeqs(ready) /\ edge' = {} /\ spc = "wait"
      /\ spc' = "batch"
  BY DEF EpollWait
<1>3. edge \subseteq ready /\ ready \subseteq Client \cup {Listener}
  BY <1>1 DEF Types
<1>4. IsFiniteSet(Client \cup {Listener})
  BY FS_AddElement DEF SizesAssumption
<1>5. IsFiniteSet(ready)
  BY <1>3, <1>4, FS_Subset
<1> HIDE DEF ready
<1>6. /\ batch' \in Seq(ready) /\ batch' # <<>>
      /\ \A j, k \in 1..Len(batch') : batch'[j] = batch'[k] => j = k
      /\ Rest' = ready
  BY <1>2, <1>5, AllInSequence DEF Rest
<1>7. batch' \in Seq(Client \cup {Listener})
  BY <1>3, <1>6, SeqMonotonic
<1>8. Types' /\ Ordered'
  BY <1>1, <1>2, <1>7 DEF Types, Ordered, Increasing
<1>9. Entries'
  BY <1>1, <1>2, <1>6 DEF Entries
<1>10. Announced'
  BY <1>1, <1>2, <1>3, <1>6 DEF Announced
<1> QED
  BY <1>8, <1>9, <1>10 DEF IInv

LEMMA AcceptInv == SizesAssumption /\ IInv /\ Accept => IInv'
<1> SUFFICES ASSUME SizesAssumption, IInv, Accept PROVE IInv'
  OBVIOUS
<1>1. Types /\ Entries /\ Announced /\ Ordered
  BY DEF IInv
<1>2. /\ UNCHANGED <<inbox, sent, buffer, echoed, unread>>
      /\ spc = "batch" /\ Head(batch) = Listener /\ NextEntry
  BY DEF Accept
<1>3. PICK c \in Waiting :
        /\ peer' = [peer EXCEPT ![c] = IF @ = "gone" THEN "closed" ELSE "connected"]
        /\ open' = open \cup {c}
        /\ edge' = IF inbox[c] # <<>> \/ peer[c] = "gone" THEN edge \cup {c} ELSE edge
  BY DEF Accept
<1>4. c \in Client /\ c \notin open
  BY <1>1, <1>3 DEF Waiting, Entries
<1>5. /\ peer' \in [Client -> {"new", "backlog", "gone", "connected", "closed", "reset"}]
      /\ \A d \in Client : d # c => peer'[d] = peer[d]
      /\ peer'[c] \in {"closed", "connected"}
      /\ open' \subseteq Client /\ edge' \subseteq open' /\ edge \subseteq edge'
      /\ inbox[c] # <<>> \/ peer'[c] # "connected" => c \in edge'
  BY <1>1, <1>3, <1>4 DEF Types
<1>6. /\ batch' \in Seq(Client \cup {Listener}) /\ spc' \in {"wait", "batch"}
      /\ (spc' = "batch" <=> batch' # <<>>)
      /\ \A j, k \in 1..Len(batch') : batch'[j] = batch'[k] => j = k
      /\ Rest' = Rest \ {Listener}
  BY <1>1, <1>2, NextEntryEffect
<1>7. Types' /\ Ordered'
  BY <1>1, <1>2, <1>5, <1>6 DEF Types, Ordered, Increasing
<1>8. Entries'
  BY <1>1, <1>3, <1>5, <1>6 DEF Entries, Types
<1>9. Rest' # {} => spc' = "batch"
  BY <1>6 DEF Rest
<1>10. Announced'
  <2> SUFFICES ASSUME NEW d \in open', inbox'[d] # <<>> \/ peer'[d] # "connected"
               PROVE  d \in edge' \/ (spc' = "batch" /\ d \in Rest')
    BY DEF Announced
  <2>1. CASE d = c
    BY <1>2, <1>4, <1>5, <2>1
  <2>2. CASE d # c
    <3>1. d \in open /\ d \in Client /\ d # Listener
      BY <1>1, <1>3, <2>2 DEF Types, SizesAssumption
    <3>2. d \in edge \/ d \in Rest
      BY <1>1, <1>2, <1>5, <2>2, <3>1 DEF Announced
    <3> QED
      BY <1>5, <1>6, <1>9, <3>1, <3>2
  <2> QED
    BY <2>1, <2>2
<1> QED
  BY <1>7, <1>8, <1>10 DEF IInv

\* The server is done with the head of the batch: closed, or with nothing to be read for.
LEMMA HeadIsDone ==
  ASSUME SizesAssumption, Types, Entries, Announced, NEW c \in Client, c = Head(batch),
         spc = "batch", NextEntry, UNCHANGED peer,
         \A d \in Client : d # c => inbox'[d] = inbox[d],
         \/ UNCHANGED <<open, edge>> /\ inbox'[c] = <<>> /\ peer[c] = "connected"
         \/ open' = open \ {c} /\ edge' = edge \ {c}
  PROVE  /\ Entries' /\ Announced'
         /\ batch' \in Seq(Client \cup {Listener}) /\ spc' \in {"wait", "batch"}
         /\ open' \subseteq Client /\ edge' \subseteq open'
<1>1. /\ batch' \in Seq(Client \cup {Listener}) /\ spc' \in {"wait", "batch"}
      /\ (spc' = "batch" <=> batch' # <<>>)
      /\ \A j, k \in 1..Len(batch') : batch'[j] = batch'[k] => j = k
      /\ Rest' = Rest \ {c}
  BY NextEntryEffect
<1>2. open' \subseteq Client /\ open' \subseteq open /\ edge' \subseteq open'
  BY DEF Types
<1>3. Entries'
  BY <1>1, <1>2 DEF Entries
<1>4. Rest' # {} => spc' = "batch"
  BY <1>1 DEF Rest
<1>5. Announced'
  <2> SUFFICES ASSUME NEW d \in open', inbox'[d] # <<>> \/ peer'[d] # "connected"
               PROVE  d \in edge' \/ (spc' = "batch" /\ d \in Rest')
    BY DEF Announced
  <2>1. d # c /\ d \in open /\ d \in Client
    BY <1>2
  <2>2. d \in edge \/ d \in Rest
    BY <2>1 DEF Announced
  <2> QED
    BY <1>1, <1>4, <2>1, <2>2
<1> QED
  BY <1>1, <1>2, <1>3, <1>5

LEMMA HeadIsClient ==
  ASSUME Types, Entries, spc = "batch", Head(batch) # Listener
  PROVE  Head(batch) \in Client /\ Head(batch) \in Rest
<1>1. batch # <<>> /\ batch \in Seq(Client \cup {Listener})
  BY DEF Types, Entries
<1>2. 1 \in 1..Len(batch) /\ batch[1] = Head(batch)
  BY <1>1, EmptySeq
<1> QED
  BY <1>1, <1>2 DEF Rest

LEMMA ReadNothingInv == SizesAssumption /\ IInv /\ ReadNothing => IInv'
<1> SUFFICES ASSUME SizesAssumption, IInv, ReadNothing PROVE IInv'
  OBVIOUS
<1> DEFINE c == Head(batch)
<1>1. Types /\ Entries /\ Announced /\ Ordered
  BY DEF IInv
<1>2. /\ UNCHANGED <<peer, inbox, sent, buffer, echoed, unread>>
      /\ spc = "batch" /\ c # Listener /\ inbox[c] = <<>>
  BY DEF ReadNothing
<1>3. /\ NextEntry
      /\ \/ UNCHANGED <<open, edge>> /\ peer[c] = "connected"
         \/ open' = open \ {c} /\ edge' = edge \ {c}
  BY DEF ReadNothing, CloseClient
<1>4. c \in Client
  BY <1>1, <1>2, HeadIsClient
<1>5. /\ Entries' /\ Announced'
      /\ batch' \in Seq(Client \cup {Listener}) /\ spc' \in {"wait", "batch"}
      /\ open' \subseteq Client /\ edge' \subseteq open'
  BY <1>1, <1>2, <1>3, <1>4, HeadIsDone
<1>6. Types' /\ Ordered'
  BY <1>1, <1>2, <1>5 DEF Types, Ordered, Increasing
<1> QED
  BY <1>5, <1>6 DEF IInv

LEMMA ReadChunkInv == SizesAssumption /\ IInv /\ ReadChunk => IInv'
<1> SUFFICES ASSUME SizesAssumption, IInv, ReadChunk PROVE IInv'
  OBVIOUS
<1> DEFINE c == Head(batch)
           s == inbox[c]
           readn == IF Len(s) < MAX_LINE THEN Len(s) ELSE MAX_LINE
           chunk == SubSeq(s, 1, readn)
           room == SendBuf - unread[c]
           out == Written(chunk, room)
<1>1. Types /\ Entries /\ Announced /\ Ordered
  BY DEF IInv
<1>2. /\ spc = "batch" /\ c # Listener /\ readn > 0 /\ UNCHANGED sent
      /\ inbox' = [inbox EXCEPT ![c] = SubSeq(@, readn + 1, Len(@))]
      /\ buffer' = [k \in 1..MAX_LINE |-> IF k <= readn THEN chunk[k].dot ELSE buffer[k]]
  BY DEF ReadChunk
<1>3. \/ CloseClient(c) /\ UNCHANGED <<peer, echoed, unread>>
      \/ spc' = "dead" /\ UNCHANGED <<peer, open, edge, batch, echoed, unread>>
      \/ /\ unread[c] < SendBuf
         /\ echoed' = [echoed EXCEPT ![c] = @ \o out]
         /\ unread' = [unread EXCEPT ![c] = @ + Len(out)]
         /\ \E answer \in {peer[c], "reset"} :
              /\ answer = "reset" => peer[c] = "closed"
              /\ peer' = [peer EXCEPT ![c] = answer]
         /\ UNCHANGED <<batch, spc, open, edge>>
  BY DEF ReadChunk, ReadAgain
<1>4. c \in Client /\ c \in Rest
  BY <1>1, <1>2, HeadIsClient
<1>5. s \in Seq(Byte) /\ Len(s) \in Nat /\ readn \in 0..Len(s) /\ readn \in 1..MAX_LINE
  BY <1>1, <1>2, <1>4 DEF Types, SizesAssumption
<1>6. chunk \in Seq(Byte) /\ Len(chunk) = readn /\ \A k \in 1..readn : chunk[k] \in Byte
  <2>1. \A k \in 1..readn : s[k] \in Byte
    BY <1>5
  <2> QED
    BY <1>5, <2>1, SubSeqProperties
<1>7. buffer' \in [1..MAX_LINE -> BOOLEAN]
  <2>1. \A k \in 1..readn : chunk[k].dot \in BOOLEAN
    BY <1>6 DEF Byte
  <2>2. buffer \in [1..MAX_LINE -> BOOLEAN]
    BY <1>1 DEF Types
  <2>3. \A k \in 1..MAX_LINE : k <= readn => k \in 1..readn
    BY <1>5
  <2> HIDE DEF chunk, readn
  <2> QED
    BY <1>2, <2>1, <2>2, <2>3
<1> HIDE DEF chunk, readn
<1>8. CASE UNCHANGED <<echoed, unread, peer>>
  <2>1. 0 \in 0..readn /\ SubSeq(inbox[c], 1, 0) = <<>>
    BY <1>5, SubSeqEmpty
  <2>2. echoed[c] \in Seq(Byte)
    BY <1>1, <1>4 DEF Types
  <2>3. echoed[c] \o <<>> = echoed[c]
    BY <2>2, ConcatEmptySeq
  <2>4. echoed' = [echoed EXCEPT ![c] = @ \o SubSeq(inbox[c], 1, 0)]
    BY <1>1, <1>8, <2>1, <2>3 DEF Types
  <2>5. /\ inbox' \in [Client -> Seq(Byte)] /\ Ordered'
        /\ \A d \in Client : d # c => inbox'[d] = inbox[d]
    BY <1>1, <1>2, <1>4, <1>5, <2>1, <2>4, BytesRead
  <2>6. CASE CloseClient(c)
    <3>1. /\ Entries' /\ Announced'
          /\ batch' \in Seq(Client \cup {Listener}) /\ spc' \in {"wait", "batch"}
          /\ open' \subseteq Client /\ edge' \subseteq open'
      <4>1. NextEntry /\ open' = open \ {c} /\ edge' = edge \ {c}
        BY <2>6 DEF CloseClient
      <4> QED
        BY <1>1, <1>2, <1>4, <1>8, <2>5, <4>1, HeadIsDone
    <3>2. Types'
      BY <1>1, <1>2, <1>7, <1>8, <2>5, <3>1 DEF Types
    <3> QED
      BY <2>5, <3>1, <3>2 DEF IInv
  <2>7. CASE spc' = "dead" /\ UNCHANGED <<open, edge, batch>>
    <3>1. Types'
      BY <1>1, <1>2, <1>7, <1>8, <2>5, <2>7 DEF Types
    <3>2. Entries' /\ Announced'
      BY <1>1, <1>8, <2>7 DEF Entries, Announced
    <3> QED
      BY <2>5, <3>1, <3>2 DEF IInv
  <2>8. CASE /\ unread[c] < SendBuf /\ UNCHANGED <<batch, spc, open, edge>>
    <3>1. Types'
      BY <1>1, <1>2, <1>7, <1>8, <2>5, <2>8 DEF Types
    <3>2. Rest' = Rest
      BY <2>8 DEF Rest
    <3>3. Entries' /\ Announced'
      BY <1>1, <1>2, <1>4, <1>8, <2>5, <2>8, <3>2 DEF Entries, Announced, Types
    <3> QED
      BY <2>5, <3>1, <3>3 DEF IInv
  <2> QED
    BY <1>3, <2>6, <2>7, <2>8
<1>9. CASE /\ unread[c] < SendBuf
           /\ echoed' = [echoed EXCEPT ![c] = @ \o out]
           /\ unread' = [unread EXCEPT ![c] = @ + Len(out)]
           /\ \E answer \in {peer[c], "reset"} :
                /\ answer = "reset" => peer[c] = "closed"
                /\ peer' = [peer EXCEPT ![c] = answer]
           /\ UNCHANGED <<batch, spc, open, edge>>
  <2>1. unread[c] \in Nat /\ room \in Nat /\ room >= 1 /\ unread[c] + room = SendBuf
    BY <1>1, <1>4, <1>9 DEF Types, SizesAssumption
  <2> HIDE DEF room
  <2>2. \E part \in 0..readn :
          out = SubSeq(s, 1, part) /\ Len(out) = part /\ part <= room
    <3>1. CASE Len(chunk) <= room
      <4>1. out = SubSeq(s, 1, readn) /\ Len(out) = readn /\ readn <= room
        BY <1>6, <3>1 DEF Written, chunk
      <4> QED
        BY <1>5, <4>1
    <3>2. CASE ~(Len(chunk) <= room)
      <4>1. room \in 1..readn /\ out = SubSeq(chunk, 1, room)
        BY <1>5, <1>6, <2>1, <3>2 DEF Written
      <4>2. readn \in 1..Len(s) /\ 1 \in 1..Len(s) /\ 1 \in 1..(readn - 1 + 1)
            /\ room \in 1..(readn - 1 + 1) /\ 1 + room - 1 = room
        BY <1>5, <4>1
      <4>3. SubSeq(SubSeq(s, 1, readn), 1, room) = SubSeq(s, 1 + 1 - 1, 1 + room - 1)
        BY <1>5, <4>2, SubSeqOfSubSeq
      <4>4. out = SubSeq(s, 1, room)
        BY <4>1, <4>2, <4>3 DEF chunk
      <4>5. Len(out) = room
        <5>1. \A k \in 1..room : s[k] \in Byte
          BY <1>5, <4>1
        <5> QED
          BY <2>1, <4>4, <5>1, SubSeqProperties
      <4> QED
        BY <1>5, <4>1, <4>4, <4>5
    <3> QED
      BY <3>1, <3>2
  <2> HIDE DEF out
  <2>3. PICK part \in 0..readn :
          out = SubSeq(s, 1, part) /\ Len(out) = part /\ part <= room
    BY <2>2
  <2>4. /\ inbox' \in [Client -> Seq(Byte)] /\ echoed' \in [Client -> Seq(Byte)]
        /\ \A d \in Client : d # c => inbox'[d] = inbox[d]
        /\ Ordered'
    <3>1. echoed' = [echoed EXCEPT ![c] = @ \o SubSeq(inbox[c], 1, part)]
      BY <1>9, <2>3
    <3> QED
      BY <1>1, <1>2, <1>4, <1>5, <3>1, BytesRead
  <2>5. unread' \in [Client -> 0..SendBuf]
    <3>1. unread[c] + Len(out) \in 0..SendBuf
      BY <1>5, <2>1, <2>3
    <3> QED
      BY <1>1, <1>4, <1>9, <3>1 DEF Types
  <2>6. /\ peer' \in [Client -> {"new", "backlog", "gone", "connected", "closed", "reset"}]
        /\ \A d \in Client : peer'[d] = peer[d] \/ (d = c /\ peer[d] = "closed"
                                                    /\ peer'[d] = "reset")
    BY <1>1, <1>4, <1>9 DEF Types
  <2>7. Types'
    BY <1>1, <1>2, <1>7, <1>9, <2>4, <2>5, <2>6 DEF Types
  <2>8. Rest' = Rest
    BY <1>9 DEF Rest
  <2>9. Entries'
    BY <1>1, <1>9, <2>6 DEF Entries, Types
  <2>10. Announced'
    BY <1>1, <1>2, <1>4, <1>9, <2>4, <2>6, <2>8 DEF Announced, Types
  <2> QED
    BY <2>4, <2>7, <2>9, <2>10 DEF IInv
<1> QED
  BY <1>3, <1>8, <1>9 DEF CloseClient

LEMMA NextInv == SizesAssumption /\ IInv /\ [Next]_vars => IInv'
<1> SUFFICES ASSUME SizesAssumption, IInv, [Next]_vars PROVE IInv'
  OBVIOUS
<1>1. CASE \/ \E c \in Client : Connect(c) \/ Close(c) \/ ReadEcho(c)
           \/ \E c \in Client, dot \in BOOLEAN : Send(c, dot)
  BY <1>1, ClientInv
<1>2. CASE Server
  BY <1>2, EpollWaitInv, AcceptInv, ReadNothingInv, ReadChunkInv DEF Server
<1>3. CASE UNCHANGED vars
  BY <1>3 DEF vars, IInv, Types, Entries, Rest, Announced, Ordered, Increasing
<1> QED
  BY <1>1, <1>2, <1>3 DEF Next

LEMMA Invariance == ASSUME SizesAssumption PROVE Spec => []IInv
<1>1. Init => IInv
  BY InitInv
<1>2. IInv /\ [Next]_vars => IInv'
  BY NextInv
<1> QED
  BY <1>1, <1>2, PTL DEF Spec

------------------------------------------------------------------------------
(* Theorems. *)

\* Every variable stays in its range, and a socket never holds more than SendBuf bytes.
THEOREM TypeCorrect == ASSUME SizesAssumption PROVE Spec => []TypeOK
<1>1. IInv => TypeOK
  BY DEF IInv, Types, TypeOK, Range
<1> QED
  BY <1>1, Invariance, PTL

\* ex06.c: whenever the server goes to sleep, each open connection with something to read
\* for has an edge that will wake it.
THEOREM EdgesKept == ASSUME SizesAssumption PROVE Spec => []NoLostEdge
<1>1. IInv => NoLostEdge
  BY DEF IInv, Announced, NoLostEdge
<1> QED
  BY <1>1, Invariance, PTL

\* ex06.c: a client gets back what it sent, in order and once, although one buffer serves
\* all clients and short writes drop what does not fit.
THEOREM EchoOrdered == ASSUME SizesAssumption PROVE Spec => []EchoInOrder
<1>1. IInv => EchoInOrder
  <2> SUFFICES ASSUME IInv, NEW c \in Client
               PROVE  /\ \A i, j \in DOMAIN echoed[c] : i < j => echoed[c][i].n < echoed[c][j].n
                      /\ \A i \in DOMAIN echoed[c], j \in DOMAIN inbox[c] :
                           echoed[c][i].n < inbox[c][j].n
    BY DEF EchoInOrder
  <2>1. echoed[c] \in Seq(Byte) /\ inbox[c] \in Seq(Byte) /\ Increasing(c)
    BY DEF IInv, Types, Ordered
  <2> QED
    BY <2>1 DEF Increasing
<1> QED
  BY <1>1, Invariance, PTL

==============================================================================
