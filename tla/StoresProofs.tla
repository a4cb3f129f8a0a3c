---------------------------- MODULE StoresProofs ----------------------------
(***************************************************************************)
(* Theorems about Stores, for any clients, URLs, documents, deployments    *)
(* and bounds: no store holds two documents of one URL, and every store    *)
(* implements DocStore.                                                    *)
(***************************************************************************)
EXTENDS Stores, NaturalTheorems, SequenceTheorems

\* A document without the bounds of the model.
AnyDoc == [url : Url, source : Url, body : Nat, tag : Nat, expires : Int]

\* One document of a URL, in a sequence of documents.
OneOfUrl(seq) == \A i, j \in DOMAIN seq : seq[i].url = seq[j].url => i = j

-----------------------------------------------------------------------------
(* The operators on sequences of documents *)

\* The steps of Keep.
KeepSteps(seq, kept, f) ==
    /\ f[0] = << >>
    /\ \A i \in 1..Len(seq) :
          f[i] = IF seq[i] \in kept THEN Append(f[i - 1], seq[i]) ELSE f[i - 1]

LEMMA KeepUnfolds ==
    ASSUME NEW D, NEW seq \in Seq(D), NEW kept
    PROVE  \E f : KeepSteps(seq, kept, f) /\ Keep(seq, kept) = f[Len(seq)]
<1> DEFINE Is(f) == f = [i \in 0..Len(seq) |->
                          IF i = 0 THEN << >>
                          ELSE IF seq[i] \in kept THEN Append(f[i - 1], seq[i]) ELSE f[i - 1]]
           step == [i \in 1..Len(seq) |-> [s \in Seq(D) |->
                      IF seq[i] \in kept THEN Append(s, seq[i]) ELSE s]]
<1>1. Len(seq) \in Nat /\ \A i \in 1..Len(seq) : seq[i] \in D
  BY LenProperties, ElementOfSeq
<1>2. step \in [1..Len(seq) -> [Seq(D) -> Seq(D)]]
  BY <1>1, AppendProperties
<1>3. PICK f : IsRecursion(f, Len(seq), Seq(D), << >>, step)
  <2>1. << >> \in Seq(D)
    BY EmptySeq
  <2> HIDE DEF step
  <2> QED
    BY <1>1, <1>2, <2>1, RecursionExists
<1>4. Is(f)
  <2>1. ASSUME NEW i \in 0..Len(seq)
        PROVE  f[i] = IF i = 0 THEN << >>
                      ELSE IF seq[i] \in kept THEN Append(f[i - 1], seq[i]) ELSE f[i - 1]
    <3>1. CASE i = 0
      BY <1>3, <3>1 DEF IsRecursion
    <3>2. CASE i # 0
      <4>1. i \in 1..Len(seq) /\ i - 1 \in 0..Len(seq)
        <5> Len(seq) \in Nat
          BY <1>1
        <5> HIDE DEF step, Is
        <5> QED
          BY <3>2
      <4>2. f[i - 1] \in Seq(D)
        BY <1>3, <4>1 DEF IsRecursion
      <4> QED
        BY <1>3, <3>2, <4>1, <4>2 DEF IsRecursion
    <3> QED
      BY <3>1, <3>2
  <2>2. f = [i \in 0..Len(seq) |-> f[i]]
    BY <1>3 DEF IsRecursion
  <2> HIDE DEF step
  <2> QED
    BY <2>1, <2>2
<1> DEFINE g == CHOOSE h : Is(h)
<1>5. Is(g)
  BY <1>4
<1>6. Keep(seq, kept) = g[Len(seq)]
  BY DEF Keep
<1>7. KeepSteps(seq, kept, g)
  <2> HIDE DEF g
  <2>1. 0 \in 0..Len(seq) /\ \A i \in 1..Len(seq) : i \in 0..Len(seq) /\ i # 0
    BY <1>1
  <2> QED
    BY <1>5, <2>1 DEF KeepSteps
<1> QED
  BY <1>6, <1>7

\* Keep keeps the documents asked for, and two of one URL only if there were two.
LEMMA KeepProperties ==
    ASSUME NEW seq \in Seq(AnyDoc), OneOfUrl(seq), NEW kept
    PROVE  /\ Keep(seq, kept) \in Seq(AnyDoc)
           /\ OneOfUrl(Keep(seq, kept))
           /\ ToSet(Keep(seq, kept)) = ToSet(seq) \cap kept
<1>1. /\ Len(seq) \in Nat /\ DOMAIN seq = 1..Len(seq)
      /\ \A i \in 1..Len(seq) : seq[i] \in AnyDoc
  BY LenProperties, ElementOfSeq
<1>2. PICK f : KeepSteps(seq, kept, f) /\ Keep(seq, kept) = f[Len(seq)]
  BY KeepUnfolds
<1> DEFINE Upto(n) == {seq[j] : j \in 1..n}
           S == {n \in 0..Len(seq) : /\ f[n] \in Seq(AnyDoc)
                                     /\ OneOfUrl(f[n])
                                     /\ ToSet(f[n]) = Upto(n) \cap kept}
<1>3. 0 \in S
  <2>1. f[0] = << >> /\ << >> \in Seq(AnyDoc)
    BY <1>2, EmptySeq DEF KeepSteps
  <2>2. OneOfUrl(<< >>) /\ ToSet(<< >>) = {}
    BY DEF OneOfUrl, ToSet
  <2>3. Upto(0) = {} /\ 0 \in 0..Len(seq)
    BY <1>1
  <2> QED
    BY <2>1, <2>2, <2>3
<1>4. ASSUME NEW n \in 0..Len(seq), n \in S, n # Len(seq)
      PROVE  n + 1 \in S
  <2>1. n + 1 \in 1..Len(seq) /\ n + 1 \in 0..Len(seq) /\ seq[n + 1] \in AnyDoc
    <3>1. n \in Nat /\ n < Len(seq)
      <4>1. Len(seq) \in Nat
        BY <1>1
      <4>2. n # Len(seq)
        BY <1>4
      <4> HIDE DEF S, Upto
      <4> QED
        BY <4>1, <4>2
    <3> QED
      BY <1>1, <3>1
  <2> PICK d : d = seq[n + 1]
    OBVIOUS
  <2>2. Upto(n + 1) = Upto(n) \cup {d}
    <3>1. \A j \in 1..(n + 1) : j \in 1..n \/ j = n + 1
      OBVIOUS
    <3>2. n + 1 \in 1..(n + 1) /\ \A j \in 1..n : j \in 1..(n + 1)
      OBVIOUS
    <3> QED
      BY <3>1, <3>2
  <2>3. f[n + 1] = IF d \in kept THEN Append(f[n], d) ELSE f[n]
    BY <1>2, <2>1 DEF KeepSteps
  <2>4. f[n] \in Seq(AnyDoc) /\ OneOfUrl(f[n]) /\ ToSet(f[n]) = Upto(n) \cap kept
    BY <1>4
  <2>5. CASE d \notin kept
    BY <2>1, <2>2, <2>3, <2>4, <2>5
  <2>6. CASE d \in kept
    <3> DEFINE g == Append(f[n], d)
    <3>1. /\ g \in Seq(AnyDoc) /\ Len(f[n]) \in Nat /\ Len(g) = Len(f[n]) + 1
          /\ \A i \in 1..Len(f[n]) : g[i] = f[n][i]
          /\ g[Len(f[n]) + 1] = d
          /\ DOMAIN f[n] = 1..Len(f[n]) /\ DOMAIN g = 1..Len(g)
      BY <2>1, <2>4, AppendProperties, LenProperties
    <3> HIDE DEF g
    <3>2. ASSUME NEW i \in 1..Len(f[n])
          PROVE  f[n][i].url # d.url
      <4>1. f[n][i] \in ToSet(f[n])
        BY <3>1 DEF ToSet
      <4>2. PICK j \in 1..n : f[n][i] = seq[j]
        BY <2>4, <4>1
      <4>3. j \in 1..Len(seq) /\ j # n + 1
        BY <1>1
      <4> QED
        BY <1>1, <2>1, <4>2, <4>3 DEF OneOfUrl
    <3>3. OneOfUrl(g)
      <4> SUFFICES ASSUME NEW i \in 1..Len(g), NEW j \in 1..Len(g), g[i].url = g[j].url
                   PROVE  i = j
        BY <3>1 DEF OneOfUrl
      <4>0. (i \in 1..Len(f[n]) \/ i = Len(g)) /\ (j \in 1..Len(f[n]) \/ j = Len(g)) /\ g[Len(g)] = d
        BY <3>1
      <4>1. CASE i \in 1..Len(f[n]) /\ j \in 1..Len(f[n])
        BY <2>4, <3>1, <4>1 DEF OneOfUrl
      <4>2. CASE i \in 1..Len(f[n]) /\ j = Len(g)
        BY <3>1, <3>2, <4>0, <4>2
      <4>3. CASE j \in 1..Len(f[n]) /\ i = Len(g)
        BY <3>1, <3>2, <4>0, <4>3
      <4> QED
        BY <4>0, <4>1, <4>2, <4>3
    <3>4. ToSet(g) = ToSet(f[n]) \cup {d}
      <4>1. \A i \in DOMAIN g : g[i] \in ToSet(f[n]) \cup {d}
        BY <3>1 DEF ToSet
      <4>2. \A i \in DOMAIN f[n] : f[n][i] \in ToSet(g)
        BY <3>1 DEF ToSet
      <4>3. d \in ToSet(g)
        <5>1. Len(f[n]) + 1 \in DOMAIN g
          BY <3>1
        <5> QED
          BY <3>1, <5>1 DEF ToSet
      <4> QED
        BY <4>1, <4>2, <4>3 DEF ToSet
    <3>5. ToSet(g) = Upto(n + 1) \cap kept
      BY <2>2, <2>4, <2>6, <3>4
    <3> QED
      BY <2>1, <2>3, <2>6, <3>1, <3>3, <3>5 DEF g
  <2> QED
    BY <2>5, <2>6
<1> HIDE DEF S
<1>5. 0..Len(seq) \subseteq S
  BY <1>1, <1>3, <1>4, IntervalInduction
<1>6. Len(seq) \in S
  BY <1>1, <1>5
<1>7. Upto(Len(seq)) = ToSet(seq)
  BY <1>1 DEF ToSet
<1> QED
  BY <1>2, <1>6, <1>7 DEF S

LEMMA IndexOfResult ==
    ASSUME NEW seq \in Seq(AnyDoc), NEW url
    PROVE  \/ /\ IndexOf(seq, url) = 0
              /\ \A i \in 1..Len(seq) : seq[i].url # url
           \/ /\ IndexOf(seq, url) \in 1..Len(seq)
              /\ seq[IndexOf(seq, url)].url = url
<1> DEFINE I == {i \in 1..Len(seq) : seq[i].url = url}
<1>1. IndexOf(seq, url) = IF I # {} THEN Min(I) ELSE 0
  BY DEF IndexOf, SelectInSeq
<1>2. CASE I = {}
  BY <1>1, <1>2
<1>3. CASE I # {}
  <2>1. I \in SUBSET Nat
    BY LenProperties
  <2>2. Min(I) \in I
    <3> HIDE DEF I
    <3> QED
      BY <1>3, <2>1, MinOfNaturals
  <2> QED
    BY <1>1, <1>3, <2>2
<1> QED
  BY <1>2, <1>3

\* The documents of `after` are those of `before`, but for one URL, which has a
\* new document.
Replaced(before, after) ==
    \E d \in AnyDoc : ToSet(after) = {e \in ToSet(before) : e.url # d.url} \cup {d}

\* Put leaves one document of each URL, the new one in the place of the old.
LEMMA PutProperties ==
    ASSUME StoresAssumption, NEW seq \in Seq(AnyDoc), OneOfUrl(seq),
           NEW d \in AnyDoc, NEW op, NEW b
    PROVE  /\ Put(seq, d, op, b) \in Seq(AnyDoc)
           /\ OneOfUrl(Put(seq, d, op, b))
           /\ Replaced(seq, Put(seq, d, op, b))
<1> PICK i : i = IndexOf(seq, d.url)
  OBVIOUS
<1> PICK tag : tag = IF op = "upsert" THEN d.tag
                     ELSE IF i = 0 \/ b = "memory" THEN 0 ELSE seq[i].tag
  OBVIOUS
<1> PICK e : e = [d EXCEPT !.tag = tag]
  OBVIOUS
<1>1. /\ Len(seq) \in Nat /\ DOMAIN seq = 1..Len(seq)
      /\ \A k \in 1..Len(seq) : seq[k] \in AnyDoc
  BY LenProperties, ElementOfSeq
<1>2. \/ i = 0 /\ \A k \in 1..Len(seq) : seq[k].url # d.url
      \/ i \in 1..Len(seq) /\ seq[i].url = d.url
  BY IndexOfResult
<1>3. tag \in Nat
  BY <1>1, <1>2 DEF AnyDoc
<1>4. e \in AnyDoc /\ e.url = d.url
  BY <1>3 DEF AnyDoc
<1>5. Put(seq, d, op, b) = IF i = 0 THEN Append(seq, e) ELSE [seq EXCEPT ![i] = e]
  BY DEF Put
<1>6. CASE i = 0
  <2> DEFINE g == Append(seq, e)
  <2>1. /\ g \in Seq(AnyDoc) /\ Len(g) = Len(seq) + 1
        /\ \A k \in 1..Len(seq) : g[k] = seq[k]
        /\ g[Len(seq) + 1] = e
    BY <1>4, AppendProperties
  <2>2. DOMAIN g = 1..(Len(seq) + 1)
    BY <2>1, LenProperties
  <2> HIDE DEF g
  <2>3. ASSUME NEW k \in DOMAIN g
        PROVE  \/ k \in 1..Len(seq) /\ g[k] = seq[k] /\ seq[k].url # e.url
               \/ k = Len(seq) + 1 /\ g[k] = e
    <3>1. k \in 1..Len(seq) \/ k = Len(seq) + 1
      BY <1>1, <2>2
    <3> QED
      BY <1>1, <1>2, <1>4, <1>6, <2>1, <3>1
  <2>4. OneOfUrl(g)
    <3> SUFFICES ASSUME NEW k \in DOMAIN g, NEW j \in DOMAIN g, g[k].url = g[j].url
                 PROVE  k = j
      BY DEF OneOfUrl
    <3> QED
      BY <1>1, <2>3 DEF OneOfUrl
  <2>5. ToSet(g) = {x \in ToSet(seq) : x.url # e.url} \cup {e}
    <3>1. ASSUME NEW x \in ToSet(g)
          PROVE  x = e \/ (x \in ToSet(seq) /\ x.url # e.url)
      <4>1. PICK k \in DOMAIN g : x = g[k]
        BY DEF ToSet
      <4> QED
        BY <1>1, <2>3, <4>1 DEF ToSet
    <3>2. ASSUME NEW x \in ToSet(seq)
          PROVE  x \in ToSet(g)
      <4>1. PICK k \in 1..Len(seq) : x = seq[k]
        BY <1>1 DEF ToSet
      <4>2. k \in DOMAIN g
        BY <1>1, <2>2
      <4> QED
        BY <2>1, <4>1, <4>2 DEF ToSet
    <3>3. e \in ToSet(g)
      <4>1. Len(seq) + 1 \in DOMAIN g
        BY <1>1, <2>2
      <4> QED
        BY <2>1, <4>1 DEF ToSet
    <3> QED
      BY <3>1, <3>2, <3>3
  <2>6. Put(seq, d, op, b) = g
    BY <1>5, <1>6 DEF g
  <2> QED
    BY <1>4, <2>1, <2>4, <2>5, <2>6 DEF Replaced
<1>7. CASE i # 0
  <2> DEFINE g == [seq EXCEPT ![i] = e]
  <2>1. /\ i \in 1..Len(seq) /\ seq[i].url = e.url
        /\ g \in Seq(AnyDoc) /\ Len(g) = Len(seq)
        /\ \A k \in 1..Len(seq) : g[k] = IF k = i THEN e ELSE seq[k]
    <3>1. i \in 1..Len(seq) /\ seq[i].url = e.url
      BY <1>2, <1>4, <1>7
    <3> QED
      BY <1>4, <3>1, ExceptSeq
  <2>2. DOMAIN g = DOMAIN seq
    BY <1>1, <2>1, LenProperties
  <2> HIDE DEF g
  <2>3. \A k \in DOMAIN seq : g[k].url = seq[k].url
    BY <1>1, <2>1
  <2>4. OneOfUrl(g)
    BY <2>2, <2>3 DEF OneOfUrl
  <2>5. \A k \in DOMAIN seq : k # i => seq[k].url # e.url
    BY <1>1, <2>1 DEF OneOfUrl
  <2>6. ToSet(g) = {x \in ToSet(seq) : x.url # e.url} \cup {e}
    <3>1. ASSUME NEW x \in ToSet(g)
          PROVE  x = e \/ (x \in ToSet(seq) /\ x.url # e.url)
      <4>1. PICK k \in DOMAIN seq : x = g[k]
        BY <2>2 DEF ToSet
      <4> QED
        BY <1>1, <2>1, <2>5, <4>1 DEF ToSet
    <3>2. ASSUME NEW x \in ToSet(seq), x.url # e.url
          PROVE  x \in ToSet(g)
      <4>1. PICK k \in DOMAIN seq : x = seq[k]
        BY DEF ToSet
      <4>2. g[k] = x
        BY <1>1, <2>1, <3>2, <4>1
      <4> QED
        BY <2>2, <4>1, <4>2 DEF ToSet
    <3>3. e \in ToSet(g)
      BY <1>1, <2>1, <2>2 DEF ToSet
    <3> QED
      BY <3>1, <3>2, <3>3
  <2>7. Put(seq, d, op, b) = g
    BY <1>5, <1>7 DEF g
  <2> QED
    BY <1>4, <2>1, <2>4, <2>6, <2>7 DEF Replaced
<1> QED
  BY <1>6, <1>7

-----------------------------------------------------------------------------
(* The inductive invariant *)

Fields == {"op", "step", "url", "other", "ttl", "body", "seq", "found", "ok"}
Holding == {"loaded", "written", "truncate", "truncated"}

\* A call has the fields of its operation.
CallType(k) ==
    k.step # "idle" =>
        /\ DOMAIN k = Fields
        /\ k.op \in Writes => k.url \in Url /\ k.other \in Url /\ k.ttl \in Int /\ k.body \in Nat
        /\ k.op = "delete" => k.url \in Url

TypeInv ==
    /\ active \in Backend \cup {None}
    /\ DOMAIN content = Backend /\ content = [b \in Backend |-> content[b]]
    /\ \A b \in Backend : content[b] \in Seq(AnyDoc)
    /\ now \in Nat /\ calls \in Nat
    /\ call = [c \in Client |-> call[c]]
    /\ \A c \in Client : CallType(call[c])
    /\ writer \in Client \cup {None}

\* One call at a time has the file, and a medium fails only under it.
WriterInv ==
    /\ \A c \in Client : call[c].step \in Holding <=> writer = c
    /\ writer # None => active \in Files
    /\ faulty \subseteq {active} /\ (faulty # {} => writer # None)
    /\ \A c \in Client : call[c].step \in {"truncate", "truncated"} => active \in faulty

\* What the call that has the file will replace it by.
Planned(c) ==
    /\ call[c].seq \in Seq(AnyDoc)
    /\ OneOfUrl(call[c].seq)
    /\ active \notin faulty =>
          \/ Replaced(content[active], call[c].seq)
          \/ \E time \in 0..now :
                ToSet(call[c].seq) = {d \in ToSet(content[active]) : d.expires > time}

ContentInv ==
    /\ OneVersion
    /\ \A c \in Client : call[c].step \in Holding => Planned(c)

StoreInv == TypeInv /\ WriterInv /\ ContentInv

-----------------------------------------------------------------------------
(* What the steps have in common *)

\* The call of c goes on to a step, and no other call changes.
Moves(c, step) ==
    /\ call' = [d \in Client |-> call'[d]]
    /\ \A d \in Client \ {c} : call'[d] = call[d]
    /\ call'[c].step = step
    /\ CallType(call'[c])

LEMMA CallMoves ==
    ASSUME TypeInv, NEW c \in Client, NEW k, call' = [call EXCEPT ![c] = k], CallType(k)
    PROVE  Moves(c, k.step) /\ call'[c] = k
<1>1. DOMAIN call = Client /\ call = [d \in Client |-> call[d]]
  BY DEF TypeInv
<1>2. call' = [d \in Client |-> IF d = c THEN k ELSE call[d]]
  BY <1>1
<1>3. call' = [d \in Client |-> call'[d]] /\ call'[c] = k /\ \A d \in Client \ {c} : call'[d] = call[d]
  BY <1>2
<1> QED
  BY <1>3 DEF Moves

\* A step changes the step of a call, and its answer.
LEMMA StepMoves ==
    ASSUME TypeInv, NEW c \in Client, call[c].step # "idle", NEW step, NEW ok, NEW seq, NEW found
    PROVE  /\ call' = [call EXCEPT ![c].step = step] =>
                 Moves(c, step) /\ call'[c].seq = call[c].seq
           /\ call' = [call EXCEPT ![c].step = step, ![c].ok = ok] => Moves(c, step)
           /\ call' = [call EXCEPT ![c].step = step, ![c].found = found] => Moves(c, step)
           /\ call' = [call EXCEPT ![c].step = step, ![c].seq = seq] =>
                 Moves(c, step) /\ call'[c].seq = seq
<1> PICK k : k = call[c]
  OBVIOUS
<1>1. CallType(k) /\ DOMAIN k = Fields /\ DOMAIN call = Client
  BY DEF TypeInv, CallType
<1>2. ASSUME call' = [call EXCEPT ![c].step = step]
      PROVE  Moves(c, step) /\ call'[c].seq = call[c].seq
  <2> PICK l : l = [k EXCEPT !.step = step]
    OBVIOUS
  <2>1. call' = [call EXCEPT ![c] = l]
    BY <1>2
  <2>2. CallType(l) /\ l.step = step /\ l.seq = k.seq
    BY <1>1 DEF CallType, Fields
  <2>3. Moves(c, l.step) /\ call'[c] = l
    BY <2>1, <2>2, CallMoves
  <2> QED
    BY <2>2, <2>3
<1>3. ASSUME call' = [call EXCEPT ![c].step = step, ![c].ok = ok]
      PROVE  Moves(c, step)
  <2> PICK l : l = [k EXCEPT !.step = step, !.ok = ok]
    OBVIOUS
  <2>1. call' = [call EXCEPT ![c] = l]
    BY <1>1, <1>3
  <2>2. CallType(l) /\ l.step = step
    BY <1>1 DEF CallType, Fields
  <2>3. Moves(c, l.step) /\ call'[c] = l
    BY <2>1, <2>2, CallMoves
  <2> QED
    BY <2>2, <2>3
<1>4. ASSUME call' = [call EXCEPT ![c].step = step, ![c].found = found]
      PROVE  Moves(c, step)
  <2> PICK l : l = [k EXCEPT !.step = step, !.found = found]
    OBVIOUS
  <2>1. call' = [call EXCEPT ![c] = l]
    BY <1>1, <1>4
  <2>2. CallType(l) /\ l.step = step
    BY <1>1 DEF CallType, Fields
  <2>3. Moves(c, l.step) /\ call'[c] = l
    BY <2>1, <2>2, CallMoves
  <2> QED
    BY <2>2, <2>3
<1>5. ASSUME call' = [call EXCEPT ![c].step = step, ![c].seq = seq]
      PROVE  Moves(c, step) /\ call'[c].seq = seq
  <2> PICK l : l = [k EXCEPT !.step = step, !.seq = seq]
    OBVIOUS
  <2>1. call' = [call EXCEPT ![c] = l]
    BY <1>1, <1>5
  <2>2. CallType(l) /\ l.step = step /\ l.seq = seq
    BY <1>1 DEF CallType, Fields
  <2>3. Moves(c, l.step) /\ call'[c] = l
    BY <2>1, <2>2, CallMoves
  <2> QED
    BY <2>2, <2>3
<1> QED
  BY <1>2, <1>3, <1>4, <1>5

\* The documents of one store are replaced.
LEMMA ContentReplaced ==
    ASSUME TypeInv, OneVersion, NEW b \in Backend, NEW s \in Seq(AnyDoc), OneOfUrl(s),
           content' = [content EXCEPT ![b] = s]
    PROVE  /\ DOMAIN content' = Backend /\ content' = [a \in Backend |-> content'[a]]
           /\ \A a \in Backend : content'[a] \in Seq(AnyDoc)
           /\ OneVersion'
           /\ content'[b] = s /\ \A a \in Backend \ {b} : content'[a] = content[a]
<1>1. content' = [a \in Backend |-> IF a = b THEN s ELSE content[a]]
  BY DEF TypeInv
<1>2. /\ DOMAIN content' = Backend /\ content' = [a \in Backend |-> content'[a]]
      /\ content'[b] = s /\ \A a \in Backend \ {b} : content'[a] = content[a]
  BY <1>1
<1>3. \A a \in Backend : content'[a] \in Seq(AnyDoc)
  BY <1>2 DEF TypeInv
<1>4. OneVersion'
  BY <1>2 DEF OneVersion, OneOfUrl
<1> QED
  BY <1>2, <1>3, <1>4

LEMMA TypeKept ==
    ASSUME TypeInv, NEW c \in Client, NEW step, Moves(c, step),
           active' \in Backend \cup {None}, writer' \in Client \cup {None},
           now' \in Nat, calls' \in Nat,
           DOMAIN content' = Backend /\ content' = [b \in Backend |-> content'[b]],
           \A b \in Backend : content'[b] \in Seq(AnyDoc)
    PROVE  TypeInv'
<1>1. \A d \in Client : CallType(call'[d])
  BY DEF Moves, TypeInv
<1> QED
  BY <1>1 DEF Moves, TypeInv

\* A call that does not have the file changes nothing.
LEMMA QuietStep ==
    ASSUME StoreInv, NEW c \in Client, call[c].step \notin Holding,
           NEW step, step \notin Holding, Moves(c, step),
           UNCHANGED <<active, now, content, writer, faulty>>, calls' \in Nat
    PROVE  StoreInv'
<1>1. TypeInv'
  BY TypeKept DEF StoreInv, TypeInv
<1>2. WriterInv'
  BY DEF StoreInv, WriterInv, Moves, Holding
<1>3. ContentInv'
  <2>1. OneVersion'
    BY DEF StoreInv, ContentInv, OneVersion
  <2>2. ASSUME NEW d \in Client, call'[d].step \in Holding
        PROVE  Planned(d)'
    <3>1. d # c /\ call'[d] = call[d]
      BY <2>2 DEF Moves
    <3>2. Planned(d)
      BY <2>2, <3>1 DEF StoreInv, ContentInv
    <3> QED
      BY <3>1, <3>2 DEF Planned
  <2> QED
    BY <2>1, <2>2 DEF ContentInv
<1> QED
  BY <1>1, <1>2, <1>3 DEF StoreInv

\* A call changes a store that is not a file.
LEMMA DirectStep ==
    ASSUME StoreInv, NEW c \in Client, call[c].step \notin Holding, Moves(c, "answered"),
           active \in Backend \ Files, NEW s \in Seq(AnyDoc), OneOfUrl(s),
           content' = [content EXCEPT ![active] = s],
           UNCHANGED <<active, now, calls, writer, faulty>>
    PROVE  StoreInv'
<1>1. /\ DOMAIN content' = Backend /\ content' = [a \in Backend |-> content'[a]]
      /\ \A a \in Backend : content'[a] \in Seq(AnyDoc)
      /\ OneVersion'
  BY ContentReplaced DEF StoreInv, ContentInv
<1>2. TypeInv'
  BY <1>1, TypeKept DEF StoreInv, TypeInv
<1>3. writer = None /\ \A d \in Client : call[d].step \notin Holding
  BY StoresAssumption DEF StoreInv, WriterInv, StoresAssumption
<1>4. \A d \in Client : call'[d].step \notin Holding
  BY <1>3 DEF Moves, Holding
<1>5. WriterInv'
  BY <1>3, <1>4, StoresAssumption DEF StoreInv, WriterInv, Holding, StoresAssumption
<1> QED
  BY <1>1, <1>2, <1>4, <1>5 DEF StoreInv, ContentInv

\* A call takes the file.
LEMMA TakeStep ==
    ASSUME StoreInv, NEW c \in Client, writer = None, active \in Files, Moves(c, "loaded"), Planned(c)',
           writer' = c, faulty' \in {faulty, faulty \cup {active}},
           UNCHANGED <<active, now, calls, content>>
    PROVE  StoreInv'
<1>1. TypeInv'
  BY TypeKept DEF StoreInv, TypeInv
<1>2. \A d \in Client : call[d].step \notin Holding
  BY StoresAssumption DEF StoreInv, WriterInv, StoresAssumption
<1>3. \A d \in Client : call'[d].step \in Holding <=> d = c
  BY <1>2 DEF Moves, Holding
<1>4. WriterInv'
  <2>1. \A d \in Client : call'[d].step \in {"truncate", "truncated"} => FALSE
    BY <1>2 DEF Moves, Holding
  <2> QED
    BY <1>3, <2>1, StoresAssumption DEF StoreInv, WriterInv, StoresAssumption
<1>5. ContentInv'
  BY <1>3 DEF StoreInv, ContentInv, OneVersion
<1> QED
  BY <1>1, <1>4, <1>5 DEF StoreInv

\* The call that has the file goes on, and may cut the file short once the
\* medium has failed.
LEMMA HoldStep ==
    ASSUME StoreInv, NEW c \in Client, call[c].step \in Holding,
           NEW step \in Holding, Moves(c, step), call'[c].seq = call[c].seq,
           faulty' \in {faulty, faulty \cup {active}},
           step \in {"truncate", "truncated"} => active \in faulty',
           \/ UNCHANGED content
           \/ active \in faulty /\ content' = [content EXCEPT ![active] = << >>],
           UNCHANGED <<active, now, calls, writer>>
    PROVE  StoreInv'
<1>1. writer = c /\ active \in Files /\ active \in Backend
  BY StoresAssumption DEF StoreInv, WriterInv, StoresAssumption, Backend
<1>2. /\ DOMAIN content' = Backend /\ content' = [a \in Backend |-> content'[a]]
      /\ \A a \in Backend : content'[a] \in Seq(AnyDoc)
      /\ OneVersion'
  <2>1. << >> \in Seq(AnyDoc) /\ OneOfUrl(<< >>)
    BY EmptySeq DEF OneOfUrl
  <2>2. CASE content' = [content EXCEPT ![active] = << >>]
    BY <1>1, <2>1, <2>2, ContentReplaced DEF StoreInv, ContentInv
  <2>3. CASE UNCHANGED content
    BY <2>3 DEF StoreInv, ContentInv, OneVersion, TypeInv
  <2> QED
    BY <2>2, <2>3
<1>3. TypeInv'
  BY <1>2, TypeKept DEF StoreInv, TypeInv
<1>4. \A d \in Client : call'[d].step \in Holding <=> d = c
  BY <1>1 DEF StoreInv, WriterInv, Moves
<1>5. WriterInv'
  <2>1. \A d \in Client : call'[d].step \in {"truncate", "truncated"} => active \in faulty'
    BY <1>4 DEF Moves, Holding
  <2>2. faulty' \subseteq {active}
    BY DEF StoreInv, WriterInv
  <2>3. writer # None
    BY <1>1, StoresAssumption DEF StoresAssumption
  <2> QED
    BY <1>1, <1>4, <2>1, <2>2, <2>3
    DEF WriterInv
<1>6. Planned(c)'
  BY DEF StoreInv, ContentInv, Planned
<1> QED
  BY <1>2, <1>3, <1>4, <1>5, <1>6 DEF StoreInv, ContentInv

\* The call that has the file ends, and has replaced the file or not.
LEMMA EndStep ==
    ASSUME StoreInv, NEW c \in Client, call[c].step \in Holding, Moves(c, "answered"),
           writer' = None, faulty' = faulty \ {active},
           UNCHANGED content \/ content' = [content EXCEPT ![active] = call[c].seq],
           UNCHANGED <<active, now, calls>>
    PROVE  StoreInv'
<1>1. writer = c /\ active \in Files /\ active \in Backend
  BY StoresAssumption DEF StoreInv, WriterInv, StoresAssumption, Backend
<1>2. /\ DOMAIN content' = Backend /\ content' = [a \in Backend |-> content'[a]]
      /\ \A a \in Backend : content'[a] \in Seq(AnyDoc)
      /\ OneVersion'
  <2>1. call[c].seq \in Seq(AnyDoc) /\ OneOfUrl(call[c].seq)
    BY DEF StoreInv, ContentInv, Planned
  <2>2. CASE content' = [content EXCEPT ![active] = call[c].seq]
    BY <1>1, <2>1, <2>2, ContentReplaced DEF StoreInv, ContentInv
  <2>3. CASE UNCHANGED content
    BY <2>3 DEF StoreInv, ContentInv, OneVersion, TypeInv
  <2> QED
    BY <2>2, <2>3
<1>3. TypeInv'
  BY <1>2, TypeKept DEF StoreInv, TypeInv
<1>4. \A d \in Client : call'[d].step \notin Holding
  BY <1>1 DEF StoreInv, WriterInv, Moves, Holding
<1>5. WriterInv'
  <2>1. faulty' = {}
    BY DEF StoreInv, WriterInv
  <2> QED
    BY <1>4, <2>1, StoresAssumption DEF WriterInv, Holding, StoresAssumption
<1> QED
  BY <1>2, <1>3, <1>4, <1>5 DEF StoreInv, ContentInv

LEMMA NewDocType ==
    ASSUME TypeInv, NEW c \in Client, call[c].step # "idle", call[c].op \in Writes
    PROVE  NewDoc(call[c]) \in AnyDoc
<1>1. /\ call[c].url \in Url /\ call[c].other \in Url /\ call[c].ttl \in Int /\ call[c].body \in Nat
      /\ now \in Nat /\ Never \in Int
  BY StoresAssumption DEF TypeInv, CallType, StoresAssumption
<1>2. Expiry(call[c].ttl, active) \in Int
  BY <1>1 DEF Expiry
<1> QED
  BY <1>1, <1>2 DEF NewDoc, AnyDoc

\* What PutIn, ExpireIn and Delete leave in a store.
LEMMA DirectContent ==
    ASSUME StoreInv, NEW c \in Client
    PROVE  /\ \A b \in Backend : PutIn(c, b) =>
                 \E s \in Seq(AnyDoc) :
                    /\ OneOfUrl(s) /\ Replaced(content[b], s)
                    /\ content' = [content EXCEPT ![b] = s]
           /\ \A b \in Backend :
                 /\ Unexpired(content[b]) \in Seq(AnyDoc) /\ OneOfUrl(Unexpired(content[b]))
                 /\ ToSet(Unexpired(content[b])) = {d \in ToSet(content[b]) : d.expires > now}
           /\ \A b \in Backend : \A url :
                 /\ Without(content[b], url) \in Seq(AnyDoc) /\ OneOfUrl(Without(content[b], url))
                 /\ ToSet(Without(content[b], url)) = {d \in ToSet(content[b]) : url \notin {d.url, d.source}}
<1>1. \A b \in Backend : content[b] \in Seq(AnyDoc) /\ OneOfUrl(content[b])
  BY DEF StoreInv, TypeInv, ContentInv, OneVersion, OneOfUrl
<1>2. ASSUME NEW b \in Backend, PutIn(c, b)
      PROVE  \E s \in Seq(AnyDoc) :
                    /\ OneOfUrl(s) /\ Replaced(content[b], s)
                    /\ content' = [content EXCEPT ![b] = s]
  <2> PICK s : s = Put(content[b], NewDoc(call[c]), call[c].op, b)
    OBVIOUS
  <2>1. NewDoc(call[c]) \in AnyDoc
    BY <1>2, NewDocType DEF StoreInv, PutIn
  <2>2. s \in Seq(AnyDoc) /\ OneOfUrl(s) /\ Replaced(content[b], s)
    BY <1>1, <2>1, PutProperties, StoresAssumption
  <2>3. content' = [content EXCEPT ![b] = s]
    BY <1>2 DEF PutIn
  <2> QED
    BY <2>2, <2>3
<1>3. ASSUME NEW b \in Backend
      PROVE  /\ Unexpired(content[b]) \in Seq(AnyDoc) /\ OneOfUrl(Unexpired(content[b]))
             /\ ToSet(Unexpired(content[b])) = {d \in ToSet(content[b]) : d.expires > now}
  <2> DEFINE kept == {d \in ToSet(content[b]) : Alive(d)}
  <2>1. kept = {d \in ToSet(content[b]) : d.expires > now}
    BY DEF Alive
  <2>2. Unexpired(content[b]) = Keep(content[b], kept)
    BY DEF Unexpired
  <2>3. ToSet(content[b]) \cap kept = kept
    OBVIOUS
  <2> HIDE DEF kept
  <2> QED
    BY <1>1, <2>1, <2>2, <2>3, KeepProperties
<1>4. ASSUME NEW b \in Backend, NEW url
      PROVE  /\ Without(content[b], url) \in Seq(AnyDoc) /\ OneOfUrl(Without(content[b], url))
             /\ ToSet(Without(content[b], url)) = {d \in ToSet(content[b]) : url \notin {d.url, d.source}}
  <2> DEFINE kept == {d \in ToSet(content[b]) : url \notin {d.url, d.source}}
  <2>1. Without(content[b], url) = Keep(content[b], kept)
    BY DEF Without
  <2>2. ToSet(content[b]) \cap kept = kept
    OBVIOUS
  <2>3. \A k : Keep(content[b], k) \in Seq(AnyDoc) /\ OneOfUrl(Keep(content[b], k))
               /\ ToSet(Keep(content[b], k)) = ToSet(content[b]) \cap k
    BY <1>1, KeepProperties
  <2> QED
    BY <2>1, <2>2, <2>3
<1> QED
  BY <1>2, <1>3, <1>4

LEMMA StoreInit == Init => StoreInv
<1> SUFFICES ASSUME Init
             PROVE  StoreInv
  OBVIOUS
<1>1. Earlier \in Seq(AnyDoc) /\ OneOfUrl(Earlier)
  <2>1. 0..MaxCalls \subseteq Nat /\ ((0 - 1)..(MaxTime + 1) \cup {Never}) \subseteq Int
    BY StoresAssumption DEF StoresAssumption
  <2>2. Doc \subseteq AnyDoc
    BY <2>1 DEF Doc, AnyDoc
  <2> QED
    BY <2>2, StoresAssumption, SeqMonotonic DEF StoresAssumption, OneOfUrl
<1>2. << >> \in Seq(AnyDoc) /\ OneOfUrl(<< >>)
  BY EmptySeq DEF OneOfUrl
<1>3. \A b \in Backend : content[b] \in Seq(AnyDoc) /\ OneOfUrl(content[b])
  BY <1>1, <1>2 DEF Init
<1>4. \A c \in Client : call[c].step = "idle"
  BY DEF Init, Idle
<1>5. TypeInv
  <2>1. \A c \in Client : CallType(call[c])
    BY <1>4 DEF CallType
  <2> QED
    BY <1>3, <2>1 DEF Init, TypeInv
<1>6. WriterInv
  BY <1>4, StoresAssumption DEF Init, WriterInv, Holding, StoresAssumption
<1>7. ContentInv
  BY <1>3, <1>4 DEF ContentInv, OneVersion, OneOfUrl, Holding
<1> QED
  BY <1>5, <1>6, <1>7 DEF StoreInv

\* A process that starts has some store.
LEMMA StartType == Start => active' \in Backend
<1> SUFFICES ASSUME Start
             PROVE  active' \in Backend
  OBVIOUS
<1>0. None \notin Backend
  BY StoresAssumption DEF StoresAssumption
<1> USE DEF Backend, Files, Sql, Sqlites
<1>1. ASSUME NEW place \in Sqlites, NEW opens
      PROVE  OpenSqlite(place, opens) \in Backend \cup {None}
  BY DEF OpenSqlite
<1>2. ASSUME NEW url
      PROVE  SqliteOf(url) \in Sqlites
  BY DEF SqliteOf
<1>3. ASSUME NEW url, NEW opens
      PROVE  OpenPostgres(url, opens) \in Backend \cup {None}
  BY DEF OpenPostgres
<1>4. ASSUME NEW driver, NEW url, NEW opens
      PROVE  NewStore(driver, url, opens) \in Backend \cup {None}
  BY <1>1, <1>2, <1>3 DEF NewStore
<1>5. ASSUME NEW driver, NEW url, NEW opens
      PROVE  NewStoreFromEnv(driver, url, opens) \in Backend
  <2> DEFINE byUrl == CASE url = "sqlite"   -> OpenSqlite("namedSqlite", opens)
                        [] url = "postgres" -> OpenPostgres(url, opens)
                        [] OTHER            -> None
             choices == <<NewStore(driver, url, opens), byUrl, Default(opens)>>
             Good(i) == choices[i] # None /\ \A j \in 1..(i - 1) : choices[j] = None
  <2>1. byUrl \in Backend \cup {None}
    BY <1>1, <1>3
  <2>2. Default(opens) \in Backend
    BY DEF Default
  <2>3. choices[1] \in Backend \cup {None} /\ choices[2] \in Backend \cup {None} /\ choices[3] \in Backend
    BY <1>4, <2>1, <2>2
  <2> HIDE DEF choices
  <2>4. \E i \in 1..3 : Good(i)
    <3>1. CASE choices[1] # None
      BY <3>1
    <3>2. CASE choices[1] = None /\ choices[2] # None
      BY <3>2
    <3>3. CASE choices[1] = None /\ choices[2] = None
      BY <1>0, <2>3, <3>3
    <3> QED
      BY <3>1, <3>2, <3>3
  <2>5. PICK i : i = CHOOSE j \in 1..3 : Good(j)
    OBVIOUS
  <2>6. i \in 1..3 /\ choices[i] # None
    BY <2>4, <2>5
  <2>7. choices[i] \in Backend
    BY <2>3, <2>6
  <2>8. NewStoreFromEnv(driver, url, opens) = choices[i]
    BY <2>5 DEF NewStoreFromEnv, choices
  <2> QED
    BY <2>7, <2>8
<1>6. ASSUME NEW driver, NEW url, NEW opens
      PROVE  InitDB(driver, url, opens) \in Backend
  BY <1>1, <1>3 DEF InitDB
<1> QED
  BY <1>5, <1>6 DEF Start

-----------------------------------------------------------------------------
(* The invariant is inductive *)

LEMMA StoreStep == StoreInv /\ [Next]_vars => StoreInv'
<1> SUFFICES ASSUME StoreInv, [Next]_vars
             PROVE  StoreInv'
  OBVIOUS
<1>0. /\ TypeInv /\ WriterInv /\ ContentInv /\ now \in Nat /\ calls \in Nat
      /\ \A c \in Client : call[c].step \notin Holding \/ writer = c
  BY DEF StoreInv, TypeInv, WriterInv
<1>1. CASE Start
  <2>1. active' \in Backend
    BY <1>1, StartType
  <2>2. /\ active = None
        /\ UNCHANGED <<content, call, writer, now, calls, faulty>>
    BY <1>1 DEF Start
  <2>3. writer = None /\ faulty = {} /\ \A c \in Client : call[c].step \notin Holding
    BY <2>2, StoresAssumption DEF StoreInv, WriterInv, StoresAssumption, Backend
  <2>4. TypeInv'
    BY <1>0, <2>1, <2>2 DEF TypeInv
  <2>5. WriterInv'
    BY <1>0, <2>2, <2>3 DEF WriterInv
  <2>6. ContentInv'
    BY <1>0, <2>2, <2>3 DEF ContentInv, OneVersion
  <2> QED
    BY <2>4, <2>5, <2>6 DEF StoreInv
<1>2. ASSUME content' = [b \in Backend |-> IF b \in Volatile THEN << >> ELSE content[b]],
             active' = None, call' = [c \in Client |-> call'[c]],
             \A c \in Client : call'[c].step = "idle", writer' = None, faulty' = {},
             UNCHANGED <<now, calls>>
      PROVE  StoreInv'
  <2>1. << >> \in Seq(AnyDoc) /\ OneOfUrl(<< >>)
    BY EmptySeq DEF OneOfUrl
  <2>2. \A b \in Backend : content'[b] \in Seq(AnyDoc) /\ OneOfUrl(content'[b])
    BY <1>0, <1>2, <2>1 DEF TypeInv, ContentInv, OneVersion, OneOfUrl
  <2>3. OneVersion'
    BY <2>2 DEF OneVersion, OneOfUrl
  <2>4. DOMAIN content' = Backend /\ content' = [b \in Backend |-> content'[b]]
    BY <1>2
  <2>5. \A c \in Client : CallType(call'[c])
    BY <1>2 DEF CallType
  <2>6. TypeInv'
    BY <1>0, <1>2, <2>2, <2>4, <2>5 DEF TypeInv
  <2>7. WriterInv'
    BY <1>2, StoresAssumption DEF WriterInv, Holding, StoresAssumption
  <2>8. ContentInv'
    BY <1>2, <2>3 DEF ContentInv, Holding
  <2> QED
    BY <2>6, <2>7, <2>8 DEF StoreInv
<1>3. CASE Close
  <2>1. writer = None
    BY <1>0, <1>3 DEF Close, WriterInv, TypeInv, Holding
  <2>2. faulty = {} /\ writer' = None /\ faulty' = {}
    BY <1>0, <1>3, <2>1 DEF Close, WriterInv
  <2>3. call' = call /\ UNCHANGED <<now, calls>> /\ active' = None
        /\ content' = [b \in Backend |-> IF b \in Volatile THEN << >> ELSE content[b]]
        /\ \A c \in Client : call[c].step = "idle"
    BY <1>3 DEF Close
  <2> QED
    BY <1>0, <1>2, <2>2, <2>3 DEF TypeInv
<1>4. CASE Crash
  <2>1. \A c \in Client : call'[c].step = "idle"
    BY <1>4 DEF Crash, Idle
  <2>2. call' = [c \in Client |-> call'[c]]
    BY <1>4 DEF Crash
  <2> QED
    BY <1>2, <1>4, <2>1, <2>2 DEF Crash
<1>5. CASE Tick \/ UNCHANGED vars
  <2>1. /\ UNCHANGED <<active, content, call, writer, calls, faulty>>
        /\ now' \in Nat /\ now <= now'
    BY <1>0, <1>5 DEF Tick, vars, processVars, storeVars
  <2>2. TypeInv'
    BY <1>0, <2>1 DEF TypeInv
  <2>3. WriterInv'
    BY <1>0, <2>1 DEF WriterInv
  <2>4. ASSUME NEW c \in Client, Planned(c)
        PROVE  Planned(c)'
    <3>1. \A time \in 0..now : time \in 0..now'
      BY <1>0, <2>1
    <3> QED
      BY <2>1, <2>4, <3>1 DEF Planned
  <2>5. ContentInv'
    BY <1>0, <2>1, <2>4 DEF ContentInv, OneVersion
  <2> QED
    BY <2>2, <2>3, <2>5 DEF StoreInv
<1>6. ASSUME NEW c \in Client, Begin(c)
      PROVE  StoreInv'
  <2>1. /\ call[c].step \notin Holding /\ calls' \in Nat
        /\ UNCHANGED <<active, now, content, writer, faulty>>
    BY <1>0, <1>6 DEF Begin, Holding, storeVars
  <2>2. PICK k : /\ call' = [call EXCEPT ![c] = k] /\ k.step = "called" /\ CallType(k)
    <3> DEFINE K(op, url, other, ttl) == CallOf(op, url, other, ttl)
    <3>1. ASSUME NEW op, NEW url, NEW other, NEW ttl
          PROVE  /\ K(op, url, other, ttl).step = "called"
                 /\ DOMAIN K(op, url, other, ttl) = Fields
                 /\ K(op, url, other, ttl).op = op /\ K(op, url, other, ttl).url = url
                 /\ K(op, url, other, ttl).other = other /\ K(op, url, other, ttl).ttl = ttl
                 /\ K(op, url, other, ttl).body = calls + 1
      BY DEF CallOf, Fields
    <3> HIDE DEF K
    <3>2. calls + 1 \in Nat /\ Ttl \subseteq Int
      BY <1>0, StoresAssumption DEF StoresAssumption
    <3>3. ASSUME NEW op \in Ops \cap Writes, NEW url \in Url, NEW source \in Url, NEW ttl \in Ttl
          PROVE  CallType(K(op, url, source, ttl))
      BY <3>1, <3>2 DEF CallType, Writes
    <3>4. ASSUME NEW op \in {"get", "delete"}, NEW url \in Url
          PROVE  CallType(K(op, url, url, 0))
      BY <3>1 DEF CallType, Writes
    <3>5. ASSUME NEW op \in {"alias", "list", "expire", "initTables"}, NEW url, NEW other
          PROVE  CallType(K(op, url, other, 0))
      BY <3>1 DEF CallType, Writes
    <3>6. \/ \E op \in Ops \cap Writes, url, source \in Url, ttl \in Ttl :
                call' = [call EXCEPT ![c] = K(op, url, source, ttl)]
          \/ \E op \in {"get", "delete"}, url \in Url :
                call' = [call EXCEPT ![c] = K(op, url, url, 0)]
          \/ \E op \in {"alias", "list", "expire", "initTables"} : \E url, other :
                call' = [call EXCEPT ![c] = K(op, url, other, 0)]
      BY <1>6 DEF Begin, K
    <3> QED
      BY <3>1, <3>3, <3>4, <3>5, <3>6
  <2>3. Moves(c, "called")
    BY <1>0, <2>2, CallMoves
  <2> QED
    BY <2>1, <2>3, QuietStep DEF Holding
<1>7. ASSUME NEW c \in Client, Return(c)
      PROVE  StoreInv'
  <2>1. CallType(Idle) /\ Idle.step = "idle"
    BY DEF CallType, Idle
  <2>2. Moves(c, "idle")
    BY <1>0, <1>7, <2>1, CallMoves DEF Return
  <2>3. /\ call[c].step \notin Holding /\ calls' \in Nat
        /\ UNCHANGED <<active, now, content, writer, faulty>>
    BY <1>0, <1>7 DEF Return, Holding, processVars, storeVars
  <2> QED
    BY <2>2, <2>3, QuietStep DEF Holding
\* An answer is a step of the call.
<1>8. ASSUME NEW c \in Client, NEW ok, call[c].step # "idle", Answer(c, ok)
      PROVE  Moves(c, "answered")
  BY <1>0, <1>8, StepMoves DEF Answer
<1>9. ASSUME NEW c \in Client, call[c].step \in {"called", "resolved", "aliased"},
             NEW step \in {"called", "resolved", "aliased", "answered"}, Moves(c, step),
             UNCHANGED <<active, now, calls, content, writer, faulty>>
      PROVE  StoreInv'
  BY <1>0, <1>9, QuietStep DEF Holding
<1>10. ASSUME NEW c \in Client,
              Refuse(c) \/ InitTables(c) \/ Resolve(c) \/ GetByURL(c) \/ ListDocs(c)
              \/ SaveAlias(c) \/ SaveAliasRow(c)
       PROVE  StoreInv'
  <2>1. /\ call[c].step \in {"called", "resolved", "aliased"} /\ call[c].step # "idle"
        /\ UNCHANGED <<active, now, calls, content, writer, faulty>>
    BY <1>10 DEF Refuse, InitTables, Resolve, GetByURL, ListDocs, SaveAlias, SaveAliasRow,
                 Calling, processVars, storeVars
  <2>2. CASE Refuse(c) \/ InitTables(c)
    BY <1>8, <1>9, <2>1, <2>2 DEF Refuse, InitTables
  <2>3. CASE Resolve(c)
    <3>1. Moves(c, "resolved")
      <4> PICK k : k = [call[c] EXCEPT !.step = "resolved", !.other = GetAlias(call[c].url)]
        OBVIOUS
      <4>1. call' = [call EXCEPT ![c] = k]
        BY <1>0, <2>3 DEF Resolve, TypeInv
      <4>2. CallType(call[c]) /\ call[c].op = "get"
        BY <1>0, <2>3 DEF Resolve, Calling, TypeInv
      <4>3. CallType(k) /\ k.step = "resolved"
        BY <2>1, <4>2 DEF CallType, Fields, Writes
      <4> QED
        BY <1>0, <4>1, <4>3, CallMoves
    <3> QED
      BY <1>9, <2>1, <3>1
  <2>4. CASE GetByURL(c)
    <3>1. PICK found : call' = [call EXCEPT ![c].step = "answered", ![c].found = found]
      BY <2>4 DEF GetByURL
    <3> QED
      BY <1>0, <1>9, <2>1, <3>1, StepMoves
  <2>5. CASE ListDocs(c)
    <3>1. \/ Answer(c, FALSE)
          \/ \E found : call' = [call EXCEPT ![c].step = "answered", ![c].found = found]
      BY <2>5 DEF ListDocs
    <3>2. Moves(c, "answered")
      BY <1>0, <1>8, <2>1, <3>1, StepMoves
    <3> QED
      BY <1>9, <2>1, <3>2
  <2>6. CASE SaveAlias(c)
    <3>1. Answer(c, TRUE) \/ call' = [call EXCEPT ![c].step = "aliased"]
      BY <2>6 DEF SaveAlias
    <3> QED
      BY <1>0, <1>8, <1>9, <2>1, <3>1, StepMoves
  <2>7. CASE SaveAliasRow(c)
    <3>1. Answer(c, TRUE) \/ Answer(c, FALSE)
      BY <2>7 DEF SaveAliasRow
    <3> QED
      BY <1>8, <1>9, <2>1, <3>1
  <2> QED
    BY <1>10, <2>2, <2>3, <2>4, <2>5, <2>6, <2>7
<1>11. ASSUME NEW c \in Client, NEW b \in Backend \ Files, NEW ok, Answer(c, ok),
              PutIn(c, b) \/ ExpireIn(c, b)
       PROVE  StoreInv'
  <2>1. /\ active = b /\ call[c].step = "called"
        /\ UNCHANGED <<active, now, calls, writer, faulty>>
    BY <1>11 DEF PutIn, ExpireIn, Calling, processVars
  <2>2. PICK s \in Seq(AnyDoc) : OneOfUrl(s) /\ content' = [content EXCEPT ![active] = s]
    <3>1. CASE PutIn(c, b)
      BY <2>1, <3>1, DirectContent
    <3>2. CASE ExpireIn(c, b)
      <4>1. content' = [content EXCEPT ![b] = Unexpired(content[b])]
        BY <3>2 DEF ExpireIn
      <4> QED
        BY <2>1, <4>1, DirectContent
    <3> QED
      BY <1>11, <3>1, <3>2
  <2>3. Moves(c, "answered")
    BY <1>8, <1>11, <2>1
  <2> QED
    BY <2>1, <2>2, <2>3, DirectStep DEF Holding
<1>12. ASSUME NEW c \in Client, WriteMemory(c) \/ WriteSqlite(c) \/ ExpireMemory(c) \/ ExpireSqlite(c)
       PROVE  StoreInv'
  <2>1. PICK b \in {"memory"} \cup Sqlites : PutIn(c, b) \/ ExpireIn(c, b)
    BY <1>12 DEF WriteMemory, WriteSqlite, ExpireMemory, ExpireSqlite
  <2>2. Answer(c, TRUE)
    BY <1>12 DEF WriteMemory, WriteSqlite, ExpireMemory, ExpireSqlite
  <2>3. b \in Backend \ Files
    BY DEF Backend, Files, Sql, Sqlites
  <2> QED
    BY <1>11, <2>1, <2>2, <2>3
<1>13. ASSUME NEW c \in Client, WritePostgres(c) \/ ExpirePostgres(c)
       PROVE  StoreInv'
  <2>1. "postgres" \in Backend \ Files
    BY DEF Backend, Files, Sql, Sqlites
  <2>2. \/ PutIn(c, "postgres") \/ ExpireIn(c, "postgres")
        \/ /\ call[c].step = "called" /\ Answer(c, FALSE)
           /\ UNCHANGED <<active, now, calls, content, writer, faulty>>
    BY <1>13 DEF WritePostgres, ExpirePostgres, Calling, processVars, storeVars
  <2>3. \E ok \in BOOLEAN : Answer(c, ok)
    BY <1>13 DEF WritePostgres, ExpirePostgres
  <2> QED
    BY <1>8, <1>9, <1>11, <2>1, <2>2, <2>3
<1>14. ASSUME NEW c \in Client, Delete(c)
       PROVE  StoreInv'
  <2>1. /\ call[c].step = "called" /\ Answer(c, TRUE)
        /\ UNCHANGED <<active, now, calls, writer, faulty>>
    BY <1>14 DEF Delete, Calling, processVars
  <2>2. Moves(c, "answered")
    BY <1>8, <2>1
  <2>3. CASE active \in Sqlites
    <3>1. active \in Backend \ Files
      BY <2>3 DEF Backend, Files, Sql, Sqlites
    <3>2. content' = [content EXCEPT ![active] = Without(content[active], call[c].url)]
      BY <1>14, <2>3 DEF Delete
    <3> QED
      BY <2>1, <2>2, <3>1, <3>2, DirectContent, DirectStep DEF Holding
  <2>4. CASE active \notin Sqlites
    BY <1>9, <1>14, <2>1, <2>2, <2>4 DEF Delete
  <2> QED
    BY <2>3, <2>4
<1>15. ASSUME NEW c \in Client, Load(c)
       PROVE  StoreInv'
  <2>1. PICK read \in BOOLEAN :
           LET docs == IF read THEN content[active] ELSE << >>
           IN  /\ call' = [call EXCEPT ![c].step = "loaded",
                             ![c].seq = Put(docs, NewDoc(call[c]), call[c].op, active)]
               /\ faulty' = IF read THEN faulty ELSE faulty \cup {active}
    BY <1>15 DEF Load
  <2> PICK docs : docs = IF read THEN content[active] ELSE << >>
    OBVIOUS
  <2> PICK s : s = Put(docs, NewDoc(call[c]), call[c].op, active)
    OBVIOUS
  <2>2. /\ active \in Files /\ active \in Backend /\ writer = None /\ writer' = c
        /\ call[c].step = "called" /\ call[c].op \in Writes
        /\ UNCHANGED <<active, now, calls, content>>
    BY <1>15 DEF Load, Backend, processVars, storeVars
  <2>3. docs \in Seq(AnyDoc) /\ OneOfUrl(docs)
    <3>1. << >> \in Seq(AnyDoc) /\ OneOfUrl(<< >>)
      BY EmptySeq DEF OneOfUrl
    <3> QED
      BY <1>0, <2>2, <3>1 DEF TypeInv, ContentInv, OneVersion, OneOfUrl
  <2>4. s \in Seq(AnyDoc) /\ OneOfUrl(s) /\ Replaced(docs, s)
    BY <1>0, <2>2, <2>3, NewDocType, PutProperties, StoresAssumption
  <2>5. Moves(c, "loaded") /\ call'[c].seq = s
    BY <1>0, <2>1, <2>2, StepMoves
  <2>6. Planned(c)'
    BY <2>1, <2>2, <2>4, <2>5 DEF Planned
  <2> QED
    BY <2>1, <2>2, <2>5, <2>6, TakeStep
<1>16. ASSUME NEW c \in Client, LoadToExpire(c)
       PROVE  StoreInv'
  <2>1. /\ active \in Files /\ active \in Backend /\ writer = None
        /\ call[c].step = "called" /\ UNCHANGED <<active, now, calls, content, faulty>>
    BY <1>16 DEF LoadToExpire, Calling, Backend, processVars, storeVars
  <2>2. CASE Answer(c, TRUE) /\ UNCHANGED writer
    BY <1>8, <1>9, <2>1, <2>2
  <2>3. CASE /\ writer' = c
             /\ call' = [call EXCEPT ![c].step = "loaded", ![c].seq = Unexpired(content[active])]
    <3>1. Moves(c, "loaded") /\ call'[c].seq = Unexpired(content[active])
      BY <1>0, <2>1, <2>3, StepMoves
    <3>2. /\ Unexpired(content[active]) \in Seq(AnyDoc) /\ OneOfUrl(Unexpired(content[active]))
          /\ ToSet(Unexpired(content[active])) = {d \in ToSet(content[active]) : d.expires > now}
      BY <2>1, DirectContent
    <3>3. now \in 0..now
      BY <1>0
    <3>4. Planned(c)'
      BY <2>1, <3>1, <3>2, <3>3 DEF Planned
    <3> QED
      BY <2>1, <2>3, <3>1, <3>4, TakeStep
  <2> QED
    BY <1>16, <2>2, <2>3 DEF LoadToExpire
<1>17. ASSUME NEW c \in Client, WriteTemp(c) \/ Rename(c) \/ Truncate(c) \/ WriteDirectly(c)
       PROVE  StoreInv'
  <2>1. /\ call[c].step \in Holding /\ call[c].step # "idle"
        /\ UNCHANGED <<active, now, calls>>
    BY <1>17 DEF WriteTemp, Rename, Truncate, WriteDirectly, Holding, processVars
  <2>2. \/ /\ \E ok : Answer(c, ok)
           /\ writer' = None /\ faulty' = faulty \ {active}
           /\ UNCHANGED content \/ content' = [content EXCEPT ![active] = call[c].seq]
        \/ /\ call' = [call EXCEPT ![c].step = "written"]
           /\ UNCHANGED <<writer, faulty, content>>
        \/ /\ call' = [call EXCEPT ![c].step = "truncate"]
           /\ faulty' = faulty \cup {active}
           /\ UNCHANGED <<content, writer>>
        \/ /\ call[c].step = "truncate" /\ call' = [call EXCEPT ![c].step = "truncated"]
           /\ content' = [content EXCEPT ![active] = << >>]
           /\ UNCHANGED <<writer, faulty>>
    <3>1. CASE WriteTemp(c)
      BY <3>1 DEF WriteTemp, storeVars
    <3>2. CASE Rename(c)
      BY <3>2 DEF Rename
    <3>3. CASE Truncate(c)
      BY <3>3 DEF Truncate
    <3>4. CASE WriteDirectly(c)
      BY <3>4 DEF WriteDirectly
    <3> QED
      BY <1>17, <3>1, <3>2, <3>3, <3>4
  <2>3. CASE /\ \E ok : Answer(c, ok)
             /\ writer' = None /\ faulty' = faulty \ {active}
             /\ UNCHANGED content \/ content' = [content EXCEPT ![active] = call[c].seq]
    <3>1. Moves(c, "answered")
      BY <1>8, <2>1, <2>3
    <3> QED
      BY <2>1, <2>3, <3>1, EndStep
  <2>4. CASE /\ call' = [call EXCEPT ![c].step = "written"]
             /\ UNCHANGED <<writer, faulty, content>>
    <3>1. Moves(c, "written") /\ call'[c].seq = call[c].seq
      BY <1>0, <2>1, <2>4, StepMoves
    <3> QED
      BY <2>1, <2>4, <3>1, HoldStep DEF Holding
  <2>5. CASE /\ call' = [call EXCEPT ![c].step = "truncate"]
             /\ faulty' = faulty \cup {active}
             /\ UNCHANGED <<content, writer>>
    <3>1. Moves(c, "truncate") /\ call'[c].seq = call[c].seq
      BY <1>0, <2>1, <2>5, StepMoves
    <3> QED
      BY <2>1, <2>5, <3>1, HoldStep DEF Holding
  <2>6. CASE /\ call[c].step = "truncate" /\ call' = [call EXCEPT ![c].step = "truncated"]
             /\ content' = [content EXCEPT ![active] = << >>]
             /\ UNCHANGED <<writer, faulty>>
    <3>1. Moves(c, "truncated") /\ call'[c].seq = call[c].seq
      BY <1>0, <2>1, <2>6, StepMoves
    <3>2. active \in faulty
      BY <1>0, <2>6 DEF WriterInv
    <3> QED
      BY <2>1, <2>6, <3>1, <3>2, HoldStep DEF Holding
  <2> QED
    BY <2>2, <2>3, <2>4, <2>5, <2>6
<1> QED
  BY <1>1, <1>3, <1>4, <1>5, <1>6, <1>7, <1>10, <1>12, <1>13, <1>14, <1>15, <1>16, <1>17 DEF Next

-----------------------------------------------------------------------------
(* The theorems *)

THEOREM StoreInvariant == Spec => []StoreInv
  BY StoreInit, StoreStep, PTL DEF Spec

\* No store holds two documents of one URL.
THEOREM StoresKeepOneVersion == Spec => []OneVersion
<1>1. StoreInv => OneVersion
  BY DEF StoreInv, ContentInv
<1> QED
  BY <1>1, StoreInvariant, PTL

\* The documents of each store, in no order: the state of DocStore.
Documents == [b \in Backend |-> ToSet(content[b])]

LEMMA DocumentsReplaced ==
    ASSUME TypeInv, NEW b \in Backend, NEW s, content' = [content EXCEPT ![b] = s]
    PROVE  Documents' = [Documents EXCEPT ![b] = ToSet(s)]
<1>1. content' = [a \in Backend |-> IF a = b THEN s ELSE content[a]]
  BY DEF TypeInv
<1> QED
  BY <1>1 DEF Documents

\* A document that takes the place of its old version is a Put of DocStore, or
\* the one that was there.
LEMMA ReplacedIsPut ==
    ASSUME TypeInv, OneVersion, NEW b \in Backend, NEW s \in Seq(AnyDoc), Replaced(content[b], s),
           content' = [content EXCEPT ![b] = s]
    PROVE  Abstract!Put(b) \/ UNCHANGED Documents
<1>1. PICK d \in AnyDoc : ToSet(s) = {e \in ToSet(content[b]) : e.url # d.url} \cup {d}
  BY DEF Replaced
<1>2. Documents' = [Documents EXCEPT ![b] = ToSet(s)]
  BY DocumentsReplaced
<1>3. Documents[b] = ToSet(content[b]) /\ DOMAIN Documents = Backend
  BY DEF Documents
<1>4. Documents'[b] = ToSet(s)
  BY <1>2, <1>3
<1>5. CASE d \in ToSet(content[b])
  <2>1. \A e \in ToSet(content[b]) : e.url = d.url => e = d
    BY <1>5 DEF OneVersion, ToSet
  <2>2. ToSet(s) = ToSet(content[b])
    BY <1>1, <1>5, <2>1
  <2>3. Documents' = Documents
    BY <1>2, <1>3, <2>2 DEF Documents
  <2> QED
    BY <2>3
<1>6. CASE d \notin ToSet(content[b])
  <2>1. d \in Documents'[b] \ Documents[b]
    BY <1>1, <1>3, <1>4, <1>6
  <2>2. Documents' = [Documents EXCEPT ![b] = {e \in Documents[b] : e.url # d.url} \cup {d}]
    BY <1>1, <1>2, <1>3
  <2> QED
    BY <2>1, <2>2 DEF Abstract!Put, Abstract!Becomes, Documents
<1> QED
  BY <1>5, <1>6

LEMMA AbstractInit == Init => Abstract!Init
<1> SUFFICES ASSUME Init
             PROVE  Abstract!Init
  OBVIOUS
<1>1. ASSUME NEW b \in Backend
      PROVE  ToSet(content[b]) = IF b \in Volatile THEN {} ELSE ToSet(Earlier)
  <2>1. ToSet(<< >>) = {}
    BY DEF ToSet
  <2> QED
    BY <2>1 DEF Init
<1> QED
  BY <1>1 DEF Init, Abstract!Init

LEMMA AbstractStep ==
    StoreInv /\ [Next]_vars => [Abstract!Next]_<<Documents, now, faulty>>
<1> SUFFICES ASSUME StoreInv, [Next]_vars
             PROVE  Abstract!Next \/ UNCHANGED <<Documents, now, faulty>>
  BY DEF Documents
<1>0. TypeInv /\ WriterInv /\ ContentInv /\ OneVersion /\ now \in Nat
  BY DEF StoreInv, TypeInv, ContentInv
<1>1. ASSUME UNCHANGED <<content, now, faulty>>
      PROVE  UNCHANGED <<Documents, now, faulty>>
  BY <1>1 DEF Documents
<1>2. CASE Close \/ Crash
  <2>1. content' = [b \in Backend |-> IF b \in Volatile THEN << >> ELSE content[b]]
        /\ UNCHANGED now
    BY <1>2 DEF Close, Crash
  <2>2. faulty' = {}
    BY <1>0, <1>2 DEF Close, Crash, WriterInv, TypeInv, Holding
  <2>3. ToSet(<< >>) = {}
    BY DEF ToSet
  <2>4. Documents' = [b \in Backend |-> IF b \in Volatile THEN {} ELSE Documents[b]]
    BY <2>1, <2>3 DEF Documents
  <2> QED
    BY <2>1, <2>2, <2>4 DEF Abstract!Next, Abstract!Restart, Documents
<1>3. CASE Tick
  BY <1>3 DEF Tick, storeVars, Documents, Abstract!Next, Abstract!Tick
<1>4. CASE Start \/ UNCHANGED vars
  BY <1>1, <1>4 DEF Start, vars, processVars, storeVars
<1>5. ASSUME NEW c \in Client,
             Begin(c) \/ Refuse(c) \/ Return(c) \/ InitTables(c) \/ LoadToExpire(c) \/ Resolve(c)
             \/ GetByURL(c) \/ ListDocs(c) \/ SaveAlias(c) \/ SaveAliasRow(c)
      PROVE  UNCHANGED <<Documents, now, faulty>>
  BY <1>1, <1>5 DEF Begin, Refuse, Return, InitTables, LoadToExpire, Resolve, GetByURL, ListDocs,
                    SaveAlias, SaveAliasRow, processVars, storeVars
<1>6. ASSUME NEW b \in Backend, Abstract!Put(b) \/ Abstract!Expire(b) \/ Abstract!Delete(b),
             UNCHANGED <<now, faulty>>
      PROVE  Abstract!Next
  BY <1>6 DEF Abstract!Next
<1>7. ASSUME NEW c \in Client, NEW b \in Backend, PutIn(c, b)
      PROVE  Abstract!Next \/ UNCHANGED <<Documents, now, faulty>>
  <2>1. PICK s \in Seq(AnyDoc) : Replaced(content[b], s) /\ content' = [content EXCEPT ![b] = s]
    BY <1>7, DirectContent
  <2>2. UNCHANGED <<now, faulty>>
    BY <1>7 DEF PutIn, processVars
  <2> QED
    BY <1>0, <1>6, <2>1, <2>2, ReplacedIsPut
\* What the call looked at may have been older than now.
<1>8. ASSUME NEW b \in Backend, NEW s, NEW time \in 0..now,
             ToSet(s) = {d \in ToSet(content[b]) : d.expires > time},
             content' = [content EXCEPT ![b] = s]
      PROVE  Abstract!Expire(b)
  <2>1. Documents' = [Documents EXCEPT ![b] = ToSet(s)]
    BY <1>0, <1>8, DocumentsReplaced
  <2>2. Documents[b] = ToSet(content[b])
    BY DEF Documents
  <2> QED
    BY <1>8, <2>1, <2>2 DEF Abstract!Expire, Abstract!Becomes, Documents
<1>9. ASSUME NEW c \in Client, NEW b \in Backend, ExpireIn(c, b)
      PROVE  Abstract!Next
  <2>1. content' = [content EXCEPT ![b] = Unexpired(content[b])] /\ UNCHANGED <<now, faulty>>
    BY <1>9 DEF ExpireIn, processVars
  <2>2. ToSet(Unexpired(content[b])) = {d \in ToSet(content[b]) : d.expires > now}
    BY DirectContent
  <2>3. now \in 0..now
    BY <1>0
  <2> QED
    BY <1>6, <1>8, <2>1, <2>2, <2>3
<1>10. ASSUME NEW c \in Client,
              WriteMemory(c) \/ WriteSqlite(c) \/ WritePostgres(c)
              \/ ExpireMemory(c) \/ ExpireSqlite(c) \/ ExpirePostgres(c)
       PROVE  Abstract!Next \/ UNCHANGED <<Documents, now, faulty>>
  <2>1. \/ \E b \in Backend : PutIn(c, b) \/ ExpireIn(c, b)
        \/ UNCHANGED <<content, now, faulty>>
    BY <1>10 DEF WriteMemory, WriteSqlite, WritePostgres, ExpireMemory, ExpireSqlite, ExpirePostgres,
                 Backend, Sql, Sqlites, processVars, storeVars
  <2> QED
    BY <1>1, <1>7, <1>9, <2>1
<1>11. ASSUME NEW c \in Client, Delete(c)
       PROVE  Abstract!Next \/ UNCHANGED <<Documents, now, faulty>>
  <2>1. UNCHANGED <<now, faulty>>
    BY <1>11 DEF Delete, processVars
  <2>2. CASE active \in Sqlites
    <3> PICK url : url = call[c].url
      OBVIOUS
    <3>1. active \in Backend /\ content' = [content EXCEPT ![active] = Without(content[active], url)]
      BY <1>11, <2>2 DEF Delete, Backend, Sql
    <3>2. ToSet(Without(content[active], url))
            = {d \in ToSet(content[active]) : url \notin {d.url, d.source}}
      <4>1. \A b \in Backend : \A u :
                 ToSet(Without(content[b], u)) = {d \in ToSet(content[b]) : u \notin {d.url, d.source}}
        BY DirectContent
      <4> QED
        BY <3>1, <4>1
    <3>3. url \in Url
      BY <1>0, <1>11 DEF Delete, Calling, TypeInv, CallType
    <3>4. Documents' = [Documents EXCEPT ![active] = ToSet(Without(content[active], url))]
      BY <1>0, <3>1, DocumentsReplaced
    <3>5. Documents[active] = ToSet(content[active])
      BY <3>1 DEF Documents
    <3>6. Abstract!Delete(active)
      BY <3>2, <3>3, <3>4, <3>5 DEF Abstract!Delete, Abstract!Becomes, Documents
    <3> QED
      BY <1>6, <2>1, <3>1, <3>6
  <2>3. CASE active \notin Sqlites
    BY <1>1, <1>11, <2>1, <2>3 DEF Delete
  <2> QED
    BY <2>2, <2>3
<1>12. ASSUME NEW b \in Files, NEW c, UNCHANGED <<Documents, now>>,
              faulty' \in {faulty, faulty \cup {b}, faulty \ {b}}
       PROVE  Abstract!Next \/ UNCHANGED <<Documents, now, faulty>>
  BY <1>12 DEF Abstract!Next, Abstract!Fail, Abstract!Recover, Backend, Documents
<1>13. ASSUME NEW c \in Client, Load(c)
       PROVE  Abstract!Next \/ UNCHANGED <<Documents, now, faulty>>
  <2>1. /\ active \in Files /\ UNCHANGED <<content, now>>
        /\ faulty' \in {faulty, faulty \cup {active}}
    BY <1>13 DEF Load, processVars, storeVars
  <2> QED
    BY <1>12, <2>1 DEF Documents
\* The file under the call that has it.
<1>14. ASSUME NEW s, active \in Files, active \in faulty, content' = [content EXCEPT ![active] = s],
              UNCHANGED now, faulty' \in {faulty, faulty \ {active}}
       PROVE  Abstract!Next
  <2>1. active \in Backend
    BY <1>14 DEF Backend
  <2>2. Documents' = [Documents EXCEPT ![active] = ToSet(s)]
    BY <1>0, <1>14, <2>1, DocumentsReplaced
  <2>3. Documents'[active] = ToSet(s)
    BY <2>1, <2>2 DEF Documents
  <2>4. Documents' = [Documents EXCEPT ![active] = Documents'[active]]
    BY <2>2, <2>3
  <2>5. Abstract!Rewrite(active)
    BY <1>14, <2>4 DEF Abstract!Rewrite, Abstract!Becomes, Documents
  <2> QED
    BY <1>14, <2>1, <2>5 DEF Abstract!Next
<1>15. ASSUME NEW c \in Client, WriteTemp(c) \/ Rename(c) \/ Truncate(c) \/ WriteDirectly(c)
       PROVE  Abstract!Next \/ UNCHANGED <<Documents, now, faulty>>
  <2>1. /\ call[c].step \in Holding /\ UNCHANGED <<active, now>>
        /\ faulty' \in {faulty, faulty \cup {active}, faulty \ {active}}
    BY <1>15 DEF WriteTemp, Rename, Truncate, WriteDirectly, Holding, processVars
  <2>2. active \in Files /\ active \in Backend
    BY <1>0, <2>1, StoresAssumption DEF WriterInv, StoresAssumption, Backend
  <2>3. CASE UNCHANGED content
    BY <1>12, <2>1, <2>2, <2>3 DEF Documents
  <2>4. CASE Truncate(c)
    <3>1. active \in faulty
      BY <1>0, <2>4 DEF Truncate, WriterInv
    <3> QED
      BY <1>14, <2>1, <2>2, <2>4, <3>1 DEF Truncate
  <2>5. CASE WriteDirectly(c) /\ content' = [content EXCEPT ![active] = call[c].seq]
    <3>1. active \in faulty
      BY <1>0, <2>5 DEF WriteDirectly, WriterInv
    <3> QED
      BY <1>14, <2>1, <2>2, <2>5, <3>1 DEF WriteDirectly
  <2>6. CASE Rename(c) /\ content' = [content EXCEPT ![active] = call[c].seq]
             /\ faulty' = faulty \ {active}
    <3>1. CASE active \in faulty
      BY <1>14, <2>1, <2>2, <2>6, <3>1
    <3>2. CASE active \notin faulty
      <4>1. faulty' = faulty
        BY <2>6, <3>2
      <4>2. Planned(c)
        BY <1>0, <2>1 DEF ContentInv
      <4>3. CASE Replaced(content[active], call[c].seq)
        BY <1>0, <1>6, <2>1, <2>2, <2>6, <4>1, <4>2, <4>3, ReplacedIsPut DEF Planned
      <4>4. CASE \E time \in 0..now :
                    ToSet(call[c].seq) = {d \in ToSet(content[active]) : d.expires > time}
        BY <1>6, <1>8, <2>1, <2>2, <2>6, <4>1, <4>4
      <4> QED
        BY <3>2, <4>2, <4>3, <4>4 DEF Planned
    <3> QED
      BY <3>1, <3>2
  <2> QED
    BY <1>15, <2>3, <2>4, <2>5, <2>6 DEF WriteTemp, Rename, WriteDirectly, storeVars
<1> QED
  BY <1>2, <1>3, <1>4, <1>5, <1>10, <1>11, <1>13, <1>15 DEF Next

\* Whatever step a process dies in, a call has changed its own documents or none,
\* and a restart loses nothing but what lived in memory or what a medium that had
\* just failed was losing: every store implements DocStore.
THEOREM StoresImplementDocStore == Spec => ImplementsDocStore
<1>1. StoreInv /\ [Next]_vars => [Abstract!Next]_<<[b \in Backend |-> ToSet(content[b])], now, faulty>>
  BY AbstractStep DEF Documents
<1> QED
  BY <1>1, AbstractInit, StoreInvariant, PTL DEF Spec, ImplementsDocStore, Abstract!Spec

=============================================================================
