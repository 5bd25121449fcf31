-------------------------- MODULE AgentCallsProofs --------------------------
(***************************************************************************)
(* Proofs about agent calls, for any agents, texts, inputs and answers and *)
(* any number of calls: what an agent is told, that its lines arrive whole *)
(* and in order however the stream is cut, and what the client sees.       *)
(***************************************************************************)
EXTENDS AgentCalls, TLAPS, SequenceTheorems, FiniteSetTheorems, WellFoundedInduction

-----------------------------------------------------------------------------
(***************************************************************************)
(* Flattened sequences.  FlattenSeq is defined by a recursive function: it *)
(* is shown to exist, and to give the sums of what was flattened so far.   *)
(***************************************************************************)
LEMMA LeastElement ==
  ASSUME NEW S \in SUBSET Nat, S # {}
  PROVE  \E m \in S : \A n \in S : m <= n
<1>1. PICK m \in S : \A n \in S : <<n, m>> \notin OpToRel(<, Nat)
  BY NatLessThanWellFounded, WFMin
<1>2. ASSUME NEW n \in S PROVE m <= n
  <2>1. ~(n < m)  BY <1>1 DEF OpToRel
  <2> QED  BY <2>1
<1> QED  BY <1>2

(* A set that holds zero and with each number the next holds them all.     *)
LEMMA Numbers ==
  ASSUME NEW P, 0 \in P, \A n \in Nat : n \in P => n + 1 \in P
  PROVE  \A n \in Nat : n \in P
<1> DEFINE Missing == {n \in Nat : n \notin P}
<1>1. SUFFICES ASSUME Missing # {} PROVE FALSE  OBVIOUS
<1>2. PICK m \in Missing : \A n \in Missing : m <= n  BY <1>1, LeastElement
<1>3. m \in Nat /\ m # 0 /\ m \notin P  BY <1>2
<1>4. m - 1 \in Nat /\ ~(m <= m - 1) /\ (m - 1) + 1 = m  BY <1>3
<1>5. m - 1 \in P  BY <1>2, <1>4
<1> HIDE DEF Missing
<1> QED  BY <1>3, <1>4, <1>5

(* f is the recursive function of FlattenSeq up to n.                      *)
Flattens(f, ss, n) == f = [i \in 1 .. n |-> IF i = 1 THEN ss[i] ELSE f[i - 1] \o ss[i]]

LEMMA FlattensExists ==
  ASSUME NEW ss, NEW n \in Nat
  PROVE  \E f : Flattens(f, ss, n)
<1> DEFINE P == {k \in Nat : \E f : Flattens(f, ss, k)}
<1>1. 0 \in P
  <2> DEFINE f == [i \in 1 .. 0 |-> <<>>]
  <2>1. f = [i \in 1 .. 0 |-> IF i = 1 THEN ss[i] ELSE f[i - 1] \o ss[i]]  OBVIOUS
  <2>2. Flattens(f, ss, 0)  BY <2>1 DEF Flattens
  <2> QED  BY <2>2
<1>2. ASSUME NEW k \in Nat, k \in P PROVE k + 1 \in P
  <2>1. PICK f : Flattens(f, ss, k)  BY <1>2
  <2> DEFINE g == [i \in 1 .. k + 1 |-> IF i = k + 1
                                       THEN IF i = 1 THEN ss[i] ELSE f[k] \o ss[i]
                                       ELSE f[i]]
             h == [i \in 1 .. k + 1 |-> IF i = 1 THEN ss[i] ELSE g[i - 1] \o ss[i]]
  <2>f. \A i \in 1 .. k : f[i] = IF i = 1 THEN ss[i] ELSE f[i - 1] \o ss[i]  BY <2>1 DEF Flattens
  <2>2. ASSUME NEW i \in 1 .. k + 1 PROVE g[i] = h[i]
    <3>1. CASE i = k + 1
      <4>1. i # 1 => i - 1 \in 1 .. k + 1 /\ i - 1 = k /\ k # k + 1 /\ g[i - 1] = f[k]  BY <1>2, <3>1
      <4> QED  BY <3>1, <4>1
    <3>2. CASE i # k + 1
      <4>1. i \in 1 .. k /\ g[i] = f[i]  BY <1>2, <3>2
      <4>2. i # 1 => i - 1 \in 1 .. k + 1 /\ i - 1 # k + 1 /\ g[i - 1] = f[i - 1]  BY <1>2, <4>1
      <4> QED  BY <2>f, <4>1, <4>2
    <3> QED  BY <3>1, <3>2
  <2>3. g = h  BY <2>2
  <2> HIDE DEF g
  <2>4. Flattens(g, ss, k + 1)  BY <2>3 DEF Flattens
  <2> QED  BY <2>4
<1> HIDE DEF P
<1>3. n \in P  BY <1>1, <1>2, Numbers
<1> QED  BY <1>3 DEF P

(* sums[i] is what the first i sequences make.                             *)
Sums(sums, ss, T) ==
    /\ sums \in [0 .. Len(ss) -> Seq(T)]
    /\ sums[0] = <<>>
    /\ \A i \in 1 .. Len(ss) : sums[i] = sums[i - 1] \o ss[i]

LEMMA FlattenSums ==
  ASSUME NEW T, NEW ss \in Seq(Seq(T))
  PROVE  \E sums : Sums(sums, ss, T) /\ FlattenSeq(ss) = sums[Len(ss)]
<1>1. Len(ss) \in Nat /\ \A i \in 1 .. Len(ss) : ss[i] \in Seq(T)  BY ElementOfSeq
<1> DEFINE n == Len(ss)
           F == CHOOSE f : Flattens(f, ss, n)
           sums == [i \in 0 .. n |-> IF i = 0 THEN <<>> ELSE F[i]]
<1>2. Flattens(F, ss, n)
  <2>1. \E f : Flattens(f, ss, n)  BY <1>1, FlattensExists
  <2> QED  BY <2>1
<1>3. n # 0 => FlattenSeq(ss) = F[n]  BY Zenon DEF FlattenSeq, Flattens
<1>4. n = 0 => FlattenSeq(ss) = <<>>
  <2>1. n = 0 => ss = <<>>  BY EmptySeq
  <2> QED  BY <2>1 DEF FlattenSeq
<1> HIDE DEF F
<1>f. \A i \in 1 .. n : F[i] = IF i = 1 THEN ss[i] ELSE F[i - 1] \o ss[i]  BY <1>2 DEF Flattens
<1> DEFINE P == {i \in Nat : i \in 0 .. n => sums[i] \in Seq(T)}
<1>5. 0 \in P
  <2>1. sums[0] = <<>>  BY <1>1
  <2> QED  BY <2>1, EmptySeq
<1>6. ASSUME NEW i \in 1 .. n, i - 1 \in P
      PROVE  sums[i] = sums[i - 1] \o ss[i] /\ sums[i] \in Seq(T)
  <2>1. sums[i] = F[i]  BY <1>1
  <2>2. ss[i] \in Seq(T)  BY <1>1
  <2>3. CASE i = 1
    <3>1. sums[0] = <<>> /\ i - 1 = 0  BY <1>1, <2>3
    <3>2. F[i] = ss[i]  BY <1>f, <2>3
    <3>3. <<>> \o ss[i] = ss[i]  BY <2>2, ConcatEmptySeq
    <3> HIDE DEF sums
    <3> QED  BY <2>1, <2>2, <3>1, <3>2, <3>3
  <2>4. CASE i # 1
    <3>1. i - 1 \in 0 .. n /\ i - 1 # 0 /\ i - 1 \in Nat  BY <1>1, <2>4
    <3>2. sums[i - 1] = F[i - 1]  BY <3>1
    <3>3. sums[i - 1] \in Seq(T)  BY <1>6, <3>1
    <3>4. F[i] = F[i - 1] \o ss[i]  BY <1>f, <2>4
    <3>5. sums[i - 1] \o ss[i] \in Seq(T)  BY <2>2, <3>3, ConcatProperties
    <3> QED  BY <2>1, <3>2, <3>4, <3>5
  <2> QED  BY <2>3, <2>4
<1>7. ASSUME NEW i \in Nat, i \in P PROVE i + 1 \in P
  <2>1. SUFFICES ASSUME i + 1 \in 0 .. n PROVE sums[i + 1] \in Seq(T)  OBVIOUS
  <2>2. i + 1 \in 1 .. n /\ (i + 1) - 1 = i  BY <1>1, <2>1
  <2> HIDE DEF P, sums
  <2> QED  BY <1>6, <1>7, <2>2
<1>8. \A i \in Nat : i \in P
  <2> HIDE DEF P
  <2> QED  BY <1>5, <1>7, Numbers
<1>9. \A i \in 0 .. n : sums[i] \in Seq(T)
  <2> HIDE DEF sums
  <2> QED  BY <1>1, <1>8
<1>10. \A i \in 1 .. n : sums[i] = sums[i - 1] \o ss[i]
  <2> SUFFICES ASSUME NEW i \in 1 .. n PROVE sums[i] = sums[i - 1] \o ss[i]  OBVIOUS
  <2>1. i - 1 \in P
    <3>1. i - 1 \in Nat  BY <1>1
    <3> HIDE DEF P
    <3> QED  BY <1>8, <3>1
  <2> HIDE DEF P, sums
  <2> QED  BY <1>6, <2>1
<1>11. sums[0] = <<>> /\ sums[n] = FlattenSeq(ss)  BY <1>1, <1>3, <1>4
<1>12. sums = [i \in 0 .. n |-> sums[i]]  OBVIOUS
<1> HIDE DEF sums
<1>13. sums \in [0 .. n -> Seq(T)]  BY <1>9, <1>12
<1> QED  BY <1>10, <1>11, <1>13 DEF Sums

(* The sums of two sequences agree as far as the sequences do.             *)
LEMMA SumsAgree ==
  ASSUME NEW T, NEW ss \in Seq(Seq(T)), NEW tt \in Seq(Seq(T)),
         NEW f, Sums(f, ss, T), NEW g, Sums(g, tt, T),
         NEW n \in Nat, n <= Len(ss), n <= Len(tt), \A i \in 1 .. n : ss[i] = tt[i]
  PROVE  f[n] = g[n]
<1> DEFINE P == {i \in Nat : i <= n => f[i] = g[i]}
<1>1. 0 \in P  BY DEF Sums
<1>2. ASSUME NEW i \in Nat, i \in P PROVE i + 1 \in P
  <2> SUFFICES ASSUME i + 1 <= n PROVE f[i + 1] = g[i + 1]  OBVIOUS
  <2>1. Len(ss) \in Nat /\ Len(tt) \in Nat  OBVIOUS
  <2>2. i + 1 \in 1 .. n /\ i + 1 \in 1 .. Len(ss) /\ i + 1 \in 1 .. Len(tt) /\ (i + 1) - 1 = i  BY <2>1
  <2>3. f[i + 1] = f[i] \o ss[i + 1] /\ g[i + 1] = g[i] \o tt[i + 1]  BY <2>2 DEF Sums
  <2>4. f[i] = g[i] /\ ss[i + 1] = tt[i + 1]  BY <1>2, <2>2
  <2> QED  BY <2>3, <2>4
<1> HIDE DEF P
<1>3. n \in P  BY <1>1, <1>2, Numbers
<1> QED  BY <1>3 DEF P

LEMMA FlattenEmpty == FlattenSeq(<<>>) = <<>>
<1>1. Len(<<>>) = 0  BY EmptySeq
<1> QED  BY <1>1 DEF FlattenSeq

LEMMA FlattenType ==
  ASSUME NEW T, NEW ss \in Seq(Seq(T))
  PROVE  FlattenSeq(ss) \in Seq(T)
<1>1. PICK sums : Sums(sums, ss, T) /\ FlattenSeq(ss) = sums[Len(ss)]  BY FlattenSums
<1>2. Len(ss) \in 0 .. Len(ss)  OBVIOUS
<1> QED  BY <1>1, <1>2 DEF Sums

LEMMA FlattenAppend ==
  ASSUME NEW T, NEW ss \in Seq(Seq(T)), NEW s \in Seq(T)
  PROVE  FlattenSeq(Append(ss, s)) = FlattenSeq(ss) \o s
<1> DEFINE tt == Append(ss, s)
<1>1. /\ tt \in Seq(Seq(T)) /\ Len(tt) = Len(ss) + 1 /\ Len(ss) \in Nat
      /\ \A i \in 1 .. Len(ss) : tt[i] = ss[i]
      /\ tt[Len(ss) + 1] = s
  BY AppendProperties
<1> HIDE DEF tt
<1>2. PICK f : Sums(f, ss, T) /\ FlattenSeq(ss) = f[Len(ss)]  BY FlattenSums
<1>3. PICK g : Sums(g, tt, T) /\ FlattenSeq(tt) = g[Len(tt)]  BY <1>1, FlattenSums
<1>4. f[Len(ss)] = g[Len(ss)]
  <2>1. Len(ss) <= Len(ss) /\ Len(ss) <= Len(tt)  BY <1>1
  <2>2. Sums(f, ss, T) /\ Sums(g, tt, T) /\ \A i \in 1 .. Len(ss) : ss[i] = tt[i]
    BY <1>1, <1>2, <1>3
  <2> DEFINE n == Len(ss)
  <2>3. n \in Nat /\ n <= Len(ss) /\ n <= Len(tt) /\ \A i \in 1 .. n : ss[i] = tt[i]
    BY <1>1, <2>1, <2>2
  <2>4. f[n] = g[n]
    <3> HIDE DEF n
    <3> QED  BY <1>1, <2>2, <2>3, SumsAgree
  <2> QED  BY <2>4
<1>5. g[Len(tt)] = g[Len(ss)] \o s
  <2>1. Len(tt) \in 1 .. Len(tt) /\ Len(tt) - 1 = Len(ss)  BY <1>1
  <2>2. g[Len(tt)] = g[Len(tt) - 1] \o tt[Len(tt)]  BY <1>3, <2>1 DEF Sums
  <2> QED  BY <1>1, <2>1, <2>2
<1>6. FlattenSeq(tt) = FlattenSeq(ss) \o s  BY <1>2, <1>3, <1>4, <1>5
<1> QED  BY <1>6 DEF tt

LEMMA FlattenConcat ==
  ASSUME NEW T, NEW ss \in Seq(Seq(T)), NEW tt \in Seq(Seq(T))
  PROVE  FlattenSeq(ss \o tt) = FlattenSeq(ss) \o FlattenSeq(tt)
<1>1. /\ ss \o tt \in Seq(Seq(T)) /\ Len(ss \o tt) = Len(ss) + Len(tt)
      /\ \A i \in 1 .. Len(ss) + Len(tt) :
            (ss \o tt)[i] = IF i <= Len(ss) THEN ss[i] ELSE tt[i - Len(ss)]
      /\ Len(ss) \in Nat /\ Len(tt) \in Nat
  BY ConcatProperties
<1> DEFINE uu == ss \o tt
           m  == Len(ss)
           n  == Len(tt)
<1>2. PICK f : Sums(f, ss, T) /\ FlattenSeq(ss) = f[m]  BY FlattenSums
<1>3. PICK g : Sums(g, tt, T) /\ FlattenSeq(tt) = g[n]  BY FlattenSums
<1>4. PICK h : Sums(h, uu, T) /\ FlattenSeq(uu) = h[Len(uu)]  BY <1>1, FlattenSums
<1>5. /\ uu \in Seq(Seq(T)) /\ Len(uu) = m + n
      /\ \A i \in 1 .. m : uu[i] = ss[i]
  BY <1>1
<1>6. ASSUME NEW i \in 1 .. n PROVE uu[m + i] = tt[i]
  <2>1. m + i \in 1 .. Len(ss) + Len(tt) /\ ~(m + i <= Len(ss)) /\ (m + i) - Len(ss) = i  BY <1>1
  <2> QED  BY <1>1, <2>1
<1>7. m = Len(ss) /\ n = Len(tt) /\ m \in Nat /\ n \in Nat  BY <1>1
<1> HIDE DEF uu, m, n
<1>8. f[m] = h[m]
  <2>1. m <= Len(ss) /\ m <= Len(uu) /\ \A i \in 1 .. m : ss[i] = uu[i]  BY <1>5, <1>7
  <2>2. Sums(f, ss, T) /\ Sums(h, uu, T)  BY <1>2, <1>4
  <2>3. m \in Nat /\ uu \in Seq(Seq(T))  BY <1>5, <1>7
  <2> QED  BY <2>1, <2>2, <2>3, SumsAgree
<1>9. f[m] \in Seq(T) /\ \A i \in 0 .. n : g[i] \in Seq(T)
  <2>1. m \in 0 .. Len(ss)  BY <1>7
  <2> QED  BY <1>2, <1>3, <1>7, <2>1 DEF Sums
<1> DEFINE P == {i \in Nat : i <= n => h[m + i] = f[m] \o g[i]}
<1>10. 0 \in P
  <2>1. g[0] = <<>> /\ m + 0 = m  BY <1>3, <1>7 DEF Sums
  <2>2. f[m] \o <<>> = f[m]  BY <1>9, ConcatEmptySeq
  <2>3. h[m + 0] = f[m] \o g[0]  BY <1>8, <2>1, <2>2
  <2> QED  BY <2>3
<1>11. ASSUME NEW i \in Nat, i \in P PROVE i + 1 \in P
  <2>0. ASSUME i + 1 <= n PROVE h[m + (i + 1)] = f[m] \o g[i + 1]
    <3>1. /\ i + 1 \in 1 .. n /\ (i + 1) - 1 = i /\ i \in 0 .. n /\ i <= n
          /\ m + (i + 1) \in 1 .. Len(uu) /\ (m + (i + 1)) - 1 = m + i
      BY <1>5, <1>7, <1>11, <2>0
    <3>2. g[i + 1] = g[i] \o tt[i + 1]  BY <1>3, <1>7, <3>1 DEF Sums
    <3>3. h[m + (i + 1)] = h[m + i] \o uu[m + (i + 1)]  BY <1>4, <3>1 DEF Sums
    <3>4. uu[m + (i + 1)] = tt[i + 1]  BY <1>6, <3>1
    <3>5. h[m + i] = f[m] \o g[i]  BY <1>11, <3>1
    <3>6. tt[i + 1] \in Seq(T) /\ g[i] \in Seq(T)  BY <1>7, <1>9, <3>1, ElementOfSeq
    <3> DEFINE a == f[m]
               b == g[i]
               c == tt[i + 1]
    <3>7. (a \o b) \o c = a \o (b \o c)
      <4>1. a \in Seq(T) /\ b \in Seq(T) /\ c \in Seq(T)  BY <1>9, <3>6
      <4> HIDE DEF a, b, c
      <4> QED  BY <4>1, ConcatAssociative
    <3> QED  BY <3>2, <3>3, <3>4, <3>5, <3>7
  <2> HIDE DEF P
  <2>1. i + 1 \in Nat  BY <1>11
  <2>2. i + 1 <= n => h[m + (i + 1)] = f[m] \o g[i + 1]  BY <2>0, Zenon
  <2> QED  BY <2>1, <2>2 DEF P
<1> HIDE DEF P
<1>12. n \in P  BY <1>7, <1>10, <1>11, Numbers
<1>13. h[m + n] = f[m] \o g[n]
  <2>1. n <= n  BY <1>7
  <2> QED  BY <1>12, <2>1 DEF P
<1>14. FlattenSeq(uu) = FlattenSeq(ss) \o FlattenSeq(tt)  BY <1>2, <1>3, <1>4, <1>5, <1>13
<1> QED  BY <1>14 DEF uu

LEMMA FlattenOne ==
  ASSUME NEW T, NEW s \in Seq(T)
  PROVE  FlattenSeq(<<s>>) = s
<1>1. <<s>> = Append(<<>>, s) /\ <<>> \in Seq(Seq(T))  BY EmptySeq
<1>2. FlattenSeq(<<s>>) = FlattenSeq(<<>>) \o s  BY <1>1, FlattenAppend
<1> QED  BY <1>2, FlattenEmpty, ConcatEmptySeq


-----------------------------------------------------------------------------
(***************************************************************************)
(* What the variables hold.                                                *)
(***************************************************************************)
Contents == {"text", "blocks", "parts", "missing"}
Speech   == Messages \union Replies
Norms    == [role : {"user", "assistant", "system"}, tag : Tags]

Tokens   == [event : {"token"}, id : Ids, text : Seq(Words), source : {"live", "final", "reconcile"}]
Replaces == [event : {"replace"}, id : Ids, text : Seq(Words)]
Finals   == [event : {"final"}, data : Answers]
Plains   == [event : {"blank", "noJson", "incomplete", "error"}]
Lines    == Tokens \union Replaces \union Finals \union Plains

WirePieces == [line : Nat, half : 0 .. 2]

Processes == [state : {"none", "running", "exited", "failed"},
              out : {"none", "part", "good", "incomplete"}, code : {"none", "zero", "other"},
              held : BOOLEAN, late : BOOLEAN,
              wrote : Responses \union {None}, cuts : SUBSET (Nat \X Nat)]

Children == {c \in Processes : c.out = "good" => c.wrote \in Responses}

Texts == [Ids -> Seq(Words)]
Views == [tuple : Texts, partial : Texts, replaced : SUBSET Ids, retyped : SUBSET Ids]

CallType ==
    /\ agent \in Agents /\ modes \in SUBSET {"tuple", "partial", "custom"}
    /\ values \in [messages : Seq(Messages), top : Tops]
    /\ said \in Seq(Norms) /\ returned \in SUBSET Channels
    /\ turn \in 0 .. agent.turns /\ pc \in Steps
    /\ pc # "start" => input \in agent.inputs

StreamType ==
    /\ sent \in Seq(Lines) /\ wire \in Seq(WirePieces) /\ buffer \in Seq(WirePieces)
    /\ ended \in BOOLEAN /\ streamed \in Texts
    /\ fate \in {"running", "returned", "threw"}
    /\ (ended => Len(sent) <= MaxEvents + 2) /\ (~ended => Len(sent) <= MaxEvents)

HostType ==
    /\ broken \in {"none", "timeout", "cancel", "network"} /\ cancelled \in BOOLEAN
    /\ child \in Children

OutcomeType ==
    /\ seen \in Seq(Lines) /\ answer \in Answers \union {None}
    /\ accumulated \in Texts /\ view \in Views
    /\ result \in Failures \union {"none", "ok"}
    /\ answer # None => result = "ok" \/ seen # <<>>
    /\ (result = "ok") <=> (answer # None /\ pc \in {"type", "done"})
    /\ pc \in {"start", "exec", "fetch", "body", "read", "lines"} => result = "none"
    /\ pc \in {"type", "done"} => result = "ok"

TypeInv == CallType /\ StreamType /\ HostType /\ OutcomeType

(* What a line of each kind holds.                                         *)
LEMMA LineFacts ==
  ASSUME NEW l \in Lines
  PROVE  /\ l.event \in {"token", "replace", "final", "blank", "noJson", "incomplete", "error"}
         /\ l.event = "token" => /\ l.id \in Ids /\ l.text \in Seq(Words)
                                 /\ l.source \in {"live", "final", "reconcile"}
         /\ l.event = "replace" => l.id \in Ids /\ l.text \in Seq(Words)
         /\ l.event = "final" => l.data \in Answers /\ l = Final(l.data)
         /\ l.event \in {"blank", "noJson", "incomplete", "error"} => l = Plain(l.event)
<1>1. l \in Tokens \/ l \in Replaces \/ l \in Finals \/ l \in Plains  BY DEF Lines
<1>2. CASE l \in Tokens  BY <1>2 DEF Tokens
<1>3. CASE l \in Replaces  BY <1>3 DEF Replaces
<1>4. CASE l \in Finals
  <2>1. l.event = "final" /\ l.data \in Answers /\ l = [event |-> "final", data |-> l.data]
    BY <1>4 DEF Finals
  <2> QED  BY <2>1 DEF Final
<1>5. CASE l \in Plains
  <2>1. l.event \in {"blank", "noJson", "incomplete", "error"} /\ l = [event |-> l.event]
    BY <1>5 DEF Plains
  <2> QED  BY <2>1 DEF Plain
<1> QED  BY <1>1, <1>2, <1>3, <1>4, <1>5

LEMMA LineMade ==
  /\ \A id \in Ids, words \in Seq(Words), source \in {"live", "final", "reconcile"} :
        Token(id, words, source) \in Lines
  /\ \A id \in Ids, words \in Seq(Words) : Replace(id, words) \in Lines
  /\ \A response \in Answers : Final(response) \in Lines
  /\ \A e \in {"blank", "noJson", "incomplete", "error"} : Plain(e) \in Lines
<1>1. \A id \in Ids, words \in Seq(Words), source \in {"live", "final", "reconcile"} :
         Token(id, words, source) \in Tokens  BY DEF Token, Tokens
<1>2. \A id \in Ids, words \in Seq(Words) : Replace(id, words) \in Replaces  BY DEF Replace, Replaces
<1>3. \A response \in Answers : Final(response) \in Finals  BY DEF Final, Finals
<1>4. \A e \in {"blank", "noJson", "incomplete", "error"} : Plain(e) \in Plains  BY DEF Plain, Plains
<1> QED  BY <1>1, <1>2, <1>3, <1>4, Zenon DEF Lines

(* A message as it is read, and as it is stored.                           *)
LEMMA SpeechFacts ==
  ASSUME NEW m \in Speech
  PROVE  /\ m.tag \in Tags /\ m.role \in Senders \union {None} /\ m.type \in Senders \union {None}
         /\ m.content \in Contents
<1>1. CASE m \in Messages  BY <1>1 DEF Messages, Contents
<1>2. CASE m \in Replies  BY <1>2 DEF Replies, Contents
<1> QED  BY <1>1, <1>2 DEF Speech

LEMMA ExtractedType ==
  ASSUME NEW m \in Speech
  PROVE  Extracted(m) \in Seq(Norms)
<1>1. CASE Readable(m)
  <2>1. Role(m) \in {"user", "assistant", "system"}
    BY <1>1, ChannelsAssumption DEF Readable, Role, MapTypeToRole
  <2>2. NormalizeMessage(m) \in Norms  BY <2>1, SpeechFacts DEF NormalizeMessage, Norms
  <2> QED  BY <1>1, <2>2 DEF Extracted
<1>2. CASE ~Readable(m)  BY <1>2 DEF Extracted
<1> QED  BY <1>1, <1>2

LEMMA StoredType ==
  ASSUME NEW m \in Speech
  PROVE  ToLangChainMessage(m) \in Messages
<1>1. CASE m.type # None
  <2>1. m.type \in Senders /\ m.tag \in Tags /\ m.content \in Contents  BY <1>1, SpeechFacts
  <2> QED  BY <1>1, <2>1 DEF ToLangChainMessage, Messages, Contents
<1>2. CASE m.type = None
  <2>1. m.tag \in Tags /\ m.content \in Contents  BY SpeechFacts
  <2>2. "ai" \in Senders /\ "system" \in Senders /\ "human" \in Senders  BY ChannelsAssumption
  <2> QED  BY <1>2, <2>1, <2>2 DEF ToLangChainMessage, Messages, Contents
<1> QED  BY <1>1, <1>2

LEMMA ExtractMessagesType ==
  ASSUME NEW s \in Seq(Speech)
  PROVE  ExtractMessages(s) \in Seq(Norms)
<1>1. Mapped(s, Extracted) \in Seq(Seq(Norms))
  <2>1. \A i \in 1 .. Len(s) : Extracted(s[i]) \in Seq(Norms)  BY ElementOfSeq, ExtractedType
  <2> QED  BY <2>1 DEF Mapped
<1> QED  BY <1>1, FlattenType DEF ExtractMessages, FlatMapped

LEMMA StoredSeqType ==
  ASSUME NEW s \in Seq(Speech)
  PROVE  Mapped(s, ToLangChainMessage) \in Seq(Messages)
<1>1. \A i \in 1 .. Len(s) : ToLangChainMessage(s[i]) \in Messages  BY ElementOfSeq, StoredType
<1> QED  BY <1>1 DEF Mapped

LEMMA SpeechSeq ==
  /\ \A s \in Seq(Messages) : s \in Seq(Speech)
  /\ \A s \in Seq(Replies) : s \in Seq(Speech)
BY SeqMonotonic DEF Speech

LEMMA ReduceType ==
  ASSUME NEW prev \in Tops, NEW update \in Tops
  PROVE  ReduceChannels(prev, update) \in Tops
BY DEF ReduceChannels, Tops

(* What a finished turn stores.                                            *)
LEMMA StoreTurnType ==
  ASSUME NEW vs \in [messages : Seq(Messages), top : Tops], NEW in \in Inputs,
         NEW response \in Answers
  PROVE  UpdateThreadState(vs, in, response.messages, response.state)
            \in [messages : Seq(Messages), top : Tops]
<1>1. vs.messages \in Seq(Messages) /\ vs.top \in Tops  OBVIOUS
<1>2. Mapped(in.messages, ToLangChainMessage) \in Seq(Messages)
  BY StoredSeqType, SpeechSeq DEF Inputs
<1>3. Mapped(response.messages, ToLangChainMessage) \in Seq(Messages)
  BY StoredSeqType, SpeechSeq DEF Answers
<1>4. vs.messages \o Mapped(in.messages, ToLangChainMessage)
                  \o Mapped(response.messages, ToLangChainMessage) \in Seq(Messages)
  BY <1>1, <1>2, <1>3, ConcatProperties
<1>5. response.state # None => response.state \in Tops  BY DEF Answers
<1>6. (IF response.state = None THEN vs.top ELSE ReduceChannels(vs.top, response.state)) \in Tops
  BY <1>1, <1>5, ReduceType
<1> QED  BY <1>4, <1>6 DEF UpdateThreadState

(* A line on the wire.                                                     *)
LEMMA LinePiecesType ==
  ASSUME NEW l, NEW n \in Nat
  PROVE  /\ LinePieces(l, n) \in Seq(WirePieces) /\ Halves(n) \in Seq(WirePieces)
         /\ NL \in WirePieces
<1>1. NL \in WirePieces /\ [line |-> n, half |-> 1] \in WirePieces /\ [line |-> n, half |-> 2] \in WirePieces
  BY DEF NL, WirePieces
<1>2. Halves(n) \in Seq(WirePieces) /\ <<NL>> \in Seq(WirePieces)  BY <1>1 DEF Halves
<1>3. <<>> \in Seq(WirePieces)  BY EmptySeq
<1>4. CASE l.event = "blank"
  <2>1. <<>> \o <<NL>> \in Seq(WirePieces)  BY <1>2, <1>3, ConcatProperties
  <2> QED  BY <1>1, <1>2, <1>4, <2>1 DEF LinePieces
<1>5. CASE l.event # "blank"
  <2>1. Halves(n) \o <<NL>> \in Seq(WirePieces)  BY <1>2, ConcatProperties
  <2> QED  BY <1>1, <1>2, <1>5, <2>1 DEF LinePieces
<1> QED  BY <1>4, <1>5

LEMMA PieceLinesType ==
  ASSUME NEW lines \in Seq(Lines), NEW from \in Nat
  PROVE  /\ [i \in 1..Len(lines) |-> LinePieces(lines[i], from + i)] \in Seq(Seq(WirePieces))
         /\ Pieces(lines, from) \in Seq(WirePieces)
<1>1. \A i \in 1 .. Len(lines) : LinePieces(lines[i], from + i) \in Seq(WirePieces)
  <2> TAKE i \in 1 .. Len(lines)
  <2>1. from + i \in Nat  OBVIOUS
  <2> QED  BY <2>1, LinePiecesType
<1>2. [i \in 1..Len(lines) |-> LinePieces(lines[i], from + i)] \in Seq(Seq(WirePieces))  BY <1>1
<1> QED  BY <1>2, FlattenType DEF Pieces

-----------------------------------------------------------------------------
(***************************************************************************)
(* The kinds of steps.                                                     *)
(***************************************************************************)
ChildStep ==
    /\ pc = "exec" /\ child' \in Children
    /\ UNCHANGED <<callVars, turnVars, pc, agentVars, buffer, hostVars, replyVars, result>>

FailStep ==
    /\ pc \in {"exec", "fetch", "body", "read", "lines"}
    /\ pc' = "failed" /\ result' \in Failures
    /\ buffer' \in Seq(WirePieces) /\ child' \in Children
    /\ UNCHANGED <<callVars, turnVars, agentVars, hostVars, replyVars>>

(* What a call that is not streamed may take for the answer.               *)
Received == Responses \union {Decoded(r, cuts) : r \in Responses, cuts \in SUBSET (Nat \X Nat)}

WholeStep ==
    /\ pc \in {"exec", "body"}
    /\ \E response \in Received : AcceptWhole(response)
    /\ UNCHANGED <<agentVars, buffer, hostVars, child>>

HostStep ==
    /\ pc \in Waiting
    /\ broken' \in {"none", "timeout", "cancel", "network"} /\ cancelled' \in BOOLEAN
    /\ UNCHANGED <<callVars, turnVars, pc, agentVars, buffer, child, replyVars, result>>

OpenStep ==
    /\ pc = "fetch" /\ pc' = IF make = "json" THEN "body" ELSE "read"
    /\ make = "template" => request.messages # <<>>
    /\ UNCHANGED <<callVars, turnVars, agentVars, buffer, hostVars, child, replyVars, result>>

(* A line is taken and its event handled, or it is blank.                  *)
Line(nl) == ParseLine(SubSeq(buffer, 1, nl - 1))

FirstEnd(nl) == nl \in LineEnds /\ \A j \in LineEnds : nl <= j

HandleStep ==
    /\ pc = "lines"
    /\ \E nl \in 1 .. Len(buffer) :
          /\ FirstEnd(nl)
          /\ buffer' = SubSeq(buffer, nl + 1, Len(buffer))
          /\ Line(nl).event \notin {"noJson", "incomplete", "error"}
          /\ \/ Line(nl).event = "blank" /\ UNCHANGED replyVars
             \/ Line(nl).event # "blank" /\ HandleEvent(Line(nl))
    /\ UNCHANGED <<callVars, turnVars, pc, agentVars, hostVars, child, result>>

(* The answer that has been read is accepted.                              *)
AcceptStep ==
    /\ pc = "read" /\ wire = <<>> /\ ended
    /\ LET tail == ParseLine(buffer)
           last == IF tail.event = "final" THEN tail.data ELSE answer
       IN  /\ tail.event \notin {"noJson", "incomplete", "error"} /\ last # None
           /\ Accept(last, "type")
           /\ seen' = IF tail.event = "blank" THEN seen ELSE Append(seen, tail)
    /\ buffer' = <<>>
    /\ UNCHANGED <<accumulated, view, agentVars, hostVars, child>>

(* How a call fails.                                                       *)
LEMMA ChildFails ==
  ASSUME TypeInv, CliSpawnFails \/ CliClose \/ BodyArrives \/ HttpRejects
  PROVE  FailStep \/ WholeStep
<1>c. child \in Children /\ buffer \in Seq(WirePieces)  BY DEF TypeInv, HostType, StreamType
<1>1. CASE CliSpawnFails
  <2>1. child' \in Children  BY <1>c, <1>1 DEF CliSpawnFails, Children, Processes
  <2> QED
    BY <1>1, <1>c, <2>1 DEF CliSpawnFails, Fail, FailStep, Failures, StaysWithChild, agentVars,
       hostVars, replyVars, callVars, turnVars
<1>2. CASE CliClose
  <2>1. CASE AcceptWhole(Decoded(child.wrote, child.cuts)) /\ CliVerdict = "good"
    <3>1. child.out = "good"  BY <2>1 DEF CliVerdict
    <3>2. child.wrote \in Responses /\ child.cuts \in SUBSET (Nat \X Nat)
      BY <1>c, <3>1 DEF Children, Processes
    <3>3. Decoded(child.wrote, child.cuts) \in Received  BY <3>2 DEF Received
    <3> QED  BY <1>2, <2>1, <3>3 DEF CliClose, WholeStep, StaysWithChild
  <2>2. CASE pc' = "failed" /\ result' \in Failures /\ UNCHANGED <<callVars, turnVars, replyVars>>
    BY <1>2, <1>c, <2>2 DEF CliClose, FailStep, StaysWithChild, agentVars, hostVars
  <2>3. IF CliVerdict = "timed out" THEN Fail("timed out") /\ UNCHANGED replyVars
        ELSE Judge(CliVerdict, Decoded(child.wrote, child.cuts))
    BY <1>2 DEF CliClose
  <2> QED  BY <2>1, <2>2, <2>3 DEF Judge, Fail, Failures
<1>3. CASE BodyArrives
  <2>1. CASE \E response \in Responses : AcceptWhole(response)
    BY <1>3, <2>1 DEF BodyArrives, WholeStep, Received
  <2>2. CASE pc' = "failed" /\ result' \in Failures /\ UNCHANGED <<callVars, turnVars, replyVars>>
    BY <1>3, <1>c, <2>2 DEF BodyArrives, FailStep, agentVars, hostVars
  <2>3. PICK text \in {"good", "part", "incomplete"}, response \in Responses : Judge(text, response)
    BY <1>3 DEF BodyArrives
  <2> QED  BY <2>1, <2>2, <2>3 DEF Judge, Fail, Failures
<1>4. CASE HttpRejects
  <2>1. TransportError \in Failures  BY DEF TransportError, Failures
  <2> QED
    BY <1>4, <1>c, <2>1 DEF HttpRejects, Fail, FailStep, agentVars, hostVars, replyVars
<1> QED  BY <1>1, <1>2, <1>3, <1>4

LEMMA CliCases ==
  ASSUME TypeInv, Cli
  PROVE  ChildStep \/ FailStep \/ WholeStep
<1>c. child \in Children  BY DEF TypeInv, HostType
<1>1. CASE CliSpawnFails \/ CliClose  BY <1>1, ChildFails
<1>2. CASE CliSpawns
  <2>1. child' \in Children  BY <1>c, <1>2 DEF CliSpawns, Children, Processes
  <2> QED  BY <1>2, <2>1 DEF CliSpawns, ChildStep, StaysWithChild
<1>3. CASE CliWrites
  <2>1. CASE \E text \in {"part", "incomplete"} : child' = [child EXCEPT !.out = text]
    <3>1. child' \in Children  BY <1>c, <2>1 DEF Children, Processes
    <3> QED  BY <1>3, <3>1 DEF CliWrites, Running, ChildStep, StaysWithChild
  <2>2. CASE \E r \in Responses : \E cuts \in IF child.out = "none" THEN {{}} ELSE SUBSET Places(r) :
                child' = [child EXCEPT !.out = "good", !.wrote = r, !.cuts = cuts]
    <3>1. PICK r \in Responses : \E cuts \in IF child.out = "none" THEN {{}} ELSE SUBSET Places(r) :
                child' = [child EXCEPT !.out = "good", !.wrote = r, !.cuts = cuts]
      BY <2>2
    <3>2. PICK cuts \in IF child.out = "none" THEN {{}} ELSE SUBSET Places(r) :
                child' = [child EXCEPT !.out = "good", !.wrote = r, !.cuts = cuts]
      BY <3>1
    <3>3. cuts \in SUBSET (Nat \X Nat)
      <4>1. r.messages \in Seq(Replies)  BY AgentAssumption DEF Answers
      <4>2. \A i \in 1 .. Len(r.messages) : r.messages[i].text \in Seq(Words)
        <5> TAKE i \in 1 .. Len(r.messages)
        <5>1. r.messages[i] \in Replies  BY <4>1, ElementOfSeq
        <5> QED  BY <5>1 DEF Replies
      <4>3. \A i \in 1 .. Len(r.messages) : {i} \X (1..Len(r.messages[i].text)) \subseteq Nat \X Nat
        BY <4>1, <4>2
      <4>4. Places(r) \subseteq Nat \X Nat  BY <4>3 DEF Places
      <4> QED  BY <3>2, <4>4
    <3>4. child' \in Children  BY <1>c, <3>2, <3>3 DEF Children, Processes
    <3> QED  BY <1>3, <3>4 DEF CliWrites, Running, ChildStep, StaysWithChild
  <2> QED  BY <1>3, <2>1, <2>2 DEF CliWrites
<1>4. CASE CliExits
  <2>1. child' \in Children  BY <1>c, <1>4 DEF CliExits, Children, Processes
  <2> QED  BY <1>4, <2>1 DEF CliExits, Running, ChildStep, StaysWithChild
<1>5. CASE OutputReleased
  <2>1. child' \in Children  BY <1>c, <1>5 DEF OutputReleased, Children, Processes
  <2> QED  BY <1>5, <2>1 DEF OutputReleased, ChildStep, StaysWithChild
<1>6. CASE CliTimer
  <2>1. PICK held \in BOOLEAN :
           child' = IF child.state = "running"
                    THEN [child EXCEPT !.late = TRUE, !.state = "exited", !.code = "other", !.held = held]
                    ELSE [child EXCEPT !.late = TRUE]
    BY <1>6 DEF CliTimer
  <2>2. child' \in Children
    <3>1. CASE child.state = "running"  BY <1>c, <2>1, <3>1 DEF Children, Processes
    <3>2. CASE child.state # "running"  BY <1>c, <2>1, <3>2 DEF Children, Processes
    <3> QED  BY <3>1, <3>2
  <2> QED  BY <1>6, <2>2 DEF CliTimer, ChildStep, StaysWithChild
<1> QED  BY <1>1, <1>2, <1>3, <1>4, <1>5, <1>6 DEF Cli

LEMMA TransportCases ==
  ASSUME TypeInv, Transport
  PROVE  FailStep \/ WholeStep \/ HostStep \/ OpenStep
<1>h. broken \in {"none", "timeout", "cancel", "network"} /\ cancelled \in BOOLEAN
  BY DEF TypeInv, HostType
<1>c. child \in Children /\ buffer \in Seq(WirePieces)  BY DEF TypeInv, HostType, StreamType
<1>1. CASE HttpRejects \/ BodyArrives  BY <1>1, ChildFails
<1>2. CASE TimeoutFires
  BY <1>2, <1>h DEF TimeoutFires, TimeoutCovers, Breaks, HostStep
<1>3. CASE ConnectionLost
  BY <1>3, <1>h DEF ConnectionLost, Breaks, HostStep
<1>4. CASE CancelArrives
  BY <1>4, <1>h DEF CancelArrives, HostStep
<1>5. CASE HttpAnswers
  <2>1. PICK ok \in BOOLEAN :
           /\ make = "template" => (ok <=> request.messages # <<>>)
           /\ IF ~ok THEN Fail("bad")
              ELSE /\ pc' = IF make = "json" THEN "body" ELSE "read"
                   /\ UNCHANGED <<callVars, turnVars, result>>
    BY <1>5 DEF HttpAnswers
  <2>2. CASE ok
    BY <1>5, <2>1, <2>2 DEF HttpAnswers, OpenStep
  <2>3. CASE ~ok
    BY <1>5, <1>c, <2>1, <2>3 DEF HttpAnswers, Fail, FailStep, Failures, hostVars
  <2> QED  BY <2>2, <2>3
<1> QED  BY <1>1, <1>2, <1>3, <1>4, <1>5 DEF Transport

LEMMA LineCases ==
  ASSUME TypeInv, TakeLine
  PROVE  FailStep \/ HandleStep
<1>c. child \in Children /\ buffer \in Seq(WirePieces)  BY DEF TypeInv, HostType, StreamType
<1>1. /\ LineEnds \in SUBSET Nat /\ LineEnds # {} /\ LineEnds \subseteq 1 .. Len(buffer)
      /\ Len(buffer) \in Nat
  BY <1>c DEF TakeLine, LineEnds
<1> DEFINE nl    == CHOOSE i \in LineEnds : \A j \in LineEnds : i <= j
           event == Line(nl)
<1>2. FirstEnd(nl)
  <2>1. \E i \in LineEnds : \A j \in LineEnds : i <= j  BY <1>1, LeastElement
  <2> QED  BY <2>1, Zenon DEF FirstEnd
<1>3. nl \in 1 .. Len(buffer)  BY <1>1, <1>2 DEF FirstEnd
<1>4. /\ pc = "lines" /\ buffer' = SubSeq(buffer, nl + 1, Len(buffer))
      /\ CASE event.event \in {"noJson", "incomplete"} -> Fail("bad") /\ UNCHANGED replyVars
           [] event.event = "error" -> Fail("bad") /\ UNCHANGED replyVars
           [] event.event = "blank" -> UNCHANGED <<callVars, turnVars, pc, result, replyVars>>
           [] OTHER -> HandleEvent(event) /\ UNCHANGED <<callVars, turnVars, pc, result>>
      /\ UNCHANGED <<agentVars, hostVars, child>>
  BY DEF TakeLine, Line
<1> HIDE DEF nl, event
<1>5. buffer' \in Seq(WirePieces)
  <2>1. \A i \in nl + 1 .. Len(buffer) : buffer[i] \in WirePieces  BY <1>c, <1>1, <1>3, ElementOfSeq
  <2>2. nl + 1 \in Int /\ Len(buffer) \in Int  BY <1>1, <1>3
  <2> QED  BY <1>4, <2>1, <2>2, SubSeqProperties
<1>6. CASE event.event \in {"noJson", "incomplete", "error"}
  <2>1. Fail("bad") /\ UNCHANGED replyVars  BY <1>4, <1>6
  <2> QED  BY <1>c, <1>4, <1>5, <2>1 DEF FailStep, Fail, Failures
<1>7. CASE event.event = "blank"
  <2>1. UNCHANGED <<callVars, turnVars, pc, result, replyVars>>  BY <1>4, <1>7
  <2>2. event.event \notin {"noJson", "incomplete", "error"}  BY <1>7
  <2> QED  BY <1>2, <1>3, <1>4, <1>7, <2>1, <2>2 DEF HandleStep, event
<1>8. CASE event.event \notin {"noJson", "incomplete", "error", "blank"}
  <2>1. HandleEvent(event) /\ UNCHANGED <<callVars, turnVars, pc, result>>  BY <1>4, <1>8
  <2> QED  BY <1>2, <1>3, <1>4, <1>8, <2>1 DEF HandleStep, event
<1> QED  BY <1>6, <1>7, <1>8

LEMMA EndCases ==
  ASSUME TypeInv, ReadDone
  PROVE  FailStep \/ AcceptStep
<1>c. child \in Children /\ buffer \in Seq(WirePieces)  BY DEF TypeInv, HostType, StreamType
<1> DEFINE tail == ParseLine(buffer)
           last == IF tail.event = "final" THEN tail.data ELSE answer
<1>1. /\ pc = "read" /\ wire = <<>> /\ ended /\ buffer' = <<>> /\ UNCHANGED <<agentVars, hostVars, child>>
      /\ IF tail.event \in {"noJson", "incomplete", "error"} \/ last = None
         THEN Fail("bad") /\ UNCHANGED replyVars
         ELSE /\ Accept(last, "type")
              /\ seen' = IF tail.event = "blank" THEN seen ELSE Append(seen, tail)
              /\ UNCHANGED <<accumulated, view>>
  BY DEF ReadDone
<1>2. CASE tail.event \in {"noJson", "incomplete", "error"} \/ last = None
  <2>1. Fail("bad") /\ UNCHANGED replyVars  BY <1>1, <1>2
  <2>2. buffer' \in Seq(WirePieces)  BY <1>1, EmptySeq
  <2> QED  BY <1>c, <1>1, <2>1, <2>2 DEF FailStep, Fail, Failures
<1>3. CASE ~(tail.event \in {"noJson", "incomplete", "error"} \/ last = None)
  BY <1>1, <1>3 DEF AcceptStep
<1> QED  BY <1>2, <1>3

(* Every step is of one of these kinds.                                    *)
LEMMA StepCases ==
  ASSUME TypeInv, Next
  PROVE  \/ BeginCall \/ ChildStep \/ FailStep \/ WholeStep \/ HostStep \/ OpenStep
         \/ Agent \/ ReadChunk \/ HandleStep \/ NoMoreLines \/ AcceptStep \/ TypeReply
BY CliCases, TransportCases, LineCases, EndCases DEF Next, Reader

-----------------------------------------------------------------------------
(***************************************************************************)
(* Typing out, message by message.  FoldLeft is defined by a recursive     *)
(* function on sets of positions.                                          *)
(***************************************************************************)
LEMMA MaxIsLast ==
  ASSUME NEW k \in Nat, NEW s \in SUBSET (1 .. k), k \in s
  PROVE  Max(s) = k
<1>1. \A y \in s : k >= y  OBVIOUS
<1>2. Max(s) \in s /\ \A y \in s : Max(s) >= y
  <2>1. \E x \in s : \A y \in s : x >= y  BY <1>1
  <2> QED  BY <2>1 DEF Max
<1>3. Max(s) \in 1 .. k  BY <1>2
<1> QED  BY <1>2, <1>3

(* f types out the messages at each set of positions in D.                 *)
TypesOut(f, v, ms, D) ==
    f = [s \in D |-> IF s = {} THEN v ELSE TypeOut(f[s \ {Max(s)}], ms[Max(s)])]

LEMMA TypesMore ==
  ASSUME NEW v, NEW ms, NEW k \in Nat, NEW f, TypesOut(f, v, ms, SUBSET (1 .. k))
  PROVE  \E g : TypesOut(g, v, ms, SUBSET (1 .. k + 1))
<1> DEFINE D == SUBSET (1 .. k)
           E == SUBSET (1 .. k + 1)
           g == [s \in E |-> IF k + 1 \in s THEN TypeOut(f[s \ {k + 1}], ms[k + 1]) ELSE f[s]]
<1>1. ASSUME NEW s \in E, k + 1 \notin s PROVE s \in D /\ g[s] = f[s]
  <2>1. s \in D
    <3>1. ASSUME NEW x \in s PROVE x \in 1 .. k
      <4>1. x \in 1 .. k + 1 /\ x # k + 1  BY <1>1
      <4> QED  BY <4>1
    <3> QED  BY <3>1
  <2> QED  BY <1>1, <2>1
<1>f. \A s \in D : f[s] = IF s = {} THEN v ELSE TypeOut(f[s \ {Max(s)}], ms[Max(s)])
  BY DEF TypesOut
<1>2. ASSUME NEW s \in E
      PROVE  g[s] = IF s = {} THEN v ELSE TypeOut(g[s \ {Max(s)}], ms[Max(s)])
  <2>1. CASE k + 1 \in s
    <3>1. Max(s) = k + 1  BY <2>1, MaxIsLast, k + 1 \in Nat
    <3>2. s \ {k + 1} \in E /\ k + 1 \notin s \ {k + 1}  OBVIOUS
    <3>3. g[s \ {k + 1}] = f[s \ {k + 1}]  BY <1>1, <3>2
    <3>4. g[s] = TypeOut(f[s \ {k + 1}], ms[k + 1])  BY <2>1
    <3> QED  BY <2>1, <3>1, <3>3, <3>4
  <2>2. CASE k + 1 \notin s
    <3>1. s \in D /\ g[s] = f[s]  BY <1>1, <2>2
    <3>2. s \ {Max(s)} \in E /\ k + 1 \notin s \ {Max(s)}  BY <2>2
    <3>3. g[s \ {Max(s)}] = f[s \ {Max(s)}]  BY <1>1, <3>2
    <3>4. f[s] = IF s = {} THEN v ELSE TypeOut(f[s \ {Max(s)}], ms[Max(s)])  BY <1>f, <3>1
    <3> QED  BY <3>1, <3>3, <3>4
  <2> QED  BY <2>1, <2>2
<1>3. TypesOut(g, v, ms, E)
  <2> DEFINE h == [s \in E |-> IF s = {} THEN v ELSE TypeOut(g[s \ {Max(s)}], ms[Max(s)])]
  <2>1. \A s \in E : g[s] = h[s]  BY <1>2
  <2>2. g = [s \in E |-> g[s]] /\ h = [s \in E |-> h[s]]  OBVIOUS
  <2> HIDE DEF g, h
  <2>3. g = h  BY <2>1, <2>2
  <2> QED  BY <2>3 DEF TypesOut, h
<1> QED  BY <1>3

LEMMA TypesExists ==
  ASSUME NEW v, NEW ms, NEW n \in Nat
  PROVE  \E f : TypesOut(f, v, ms, SUBSET (1 .. n))
<1> DEFINE P == {k \in Nat : \E f : TypesOut(f, v, ms, SUBSET (1 .. k))}
<1>1. 0 \in P
  <2> DEFINE f == [s \in SUBSET (1 .. 0) |-> v]
  <2>1. \A s \in SUBSET (1 .. 0) : s = {}  OBVIOUS
  <2>2. f = [s \in SUBSET (1 .. 0) |-> IF s = {} THEN v ELSE TypeOut(f[s \ {Max(s)}], ms[Max(s)])]
    BY <2>1
  <2>3. TypesOut(f, v, ms, SUBSET (1 .. 0))  BY <2>2 DEF TypesOut
  <2> QED  BY <2>3
<1>2. ASSUME NEW k \in Nat, k \in P PROVE k + 1 \in P
  <2>1. PICK f : TypesOut(f, v, ms, SUBSET (1 .. k))  BY <1>2
  <2>2. \E g : TypesOut(g, v, ms, SUBSET (1 .. k + 1))  BY <1>2, <2>1, TypesMore
  <2> QED  BY <1>2, <2>2
<1> HIDE DEF P
<1>3. n \in P  BY <1>1, <1>2, Numbers
<1> QED  BY <1>3 DEF P

(* g[k] is the view when the first k messages have been typed out.         *)
Typings(g, v, ms) ==
    /\ g[0] = v
    /\ \A k \in 1 .. Len(ms) : g[k] = TypeOut(g[k - 1], ms[k])

LEMMA FoldTypes ==
  ASSUME NEW T, NEW ms \in Seq(T), NEW v
  PROVE  \E g : Typings(g, v, ms) /\ FoldLeft(TypeOut, v, ms) = g[Len(ms)]
<1>1. Len(ms) \in Nat /\ DOMAIN ms = 1 .. Len(ms)  OBVIOUS
<1> DEFINE n == Len(ms)
           F == CHOOSE f : TypesOut(f, v, ms, SUBSET (1 .. n))
           g == [k \in 0 .. n |-> F[1 .. k]]
<1>2. TypesOut(F, v, ms, SUBSET (1 .. n))
  <2>1. \E f : TypesOut(f, v, ms, SUBSET (1 .. n))  BY <1>1, TypesExists
  <2> QED  BY <2>1
<1>3. FoldLeft(TypeOut, v, ms) = F[1 .. n]
  BY <1>1, Zenon DEF FoldLeft, MapThenFoldSet, TypesOut
<1> HIDE DEF F
<1>4. \A s \in SUBSET (1 .. n) : F[s] = IF s = {} THEN v ELSE TypeOut(F[s \ {Max(s)}], ms[Max(s)])
  BY <1>2 DEF TypesOut
<1>5. g[0] = v
  <2>1. 1 .. 0 = {}  OBVIOUS
  <2>2. F[{}] = v  BY <1>4
  <2>3. g[0] = F[1 .. 0]  BY <1>1
  <2> QED  BY <2>1, <2>2, <2>3
<1>6. ASSUME NEW k \in 1 .. n PROVE g[k] = TypeOut(g[k - 1], ms[k])
  <2>1. k \in Nat /\ k \in 1 .. k /\ 1 .. k \in SUBSET (1 .. n) /\ (1 .. k) \ {k} = 1 .. k - 1
    BY <1>1, <1>6
  <2>2. Max(1 .. k) = k  BY <2>1, MaxIsLast
  <2>3. F[1 .. k] = TypeOut(F[1 .. k - 1], ms[k])  BY <1>4, <2>1, <2>2
  <2>4. k \in 0 .. n /\ k - 1 \in 0 .. n  BY <1>1, <1>6
  <2> QED  BY <2>3, <2>4
<1>7. g[n] = FoldLeft(TypeOut, v, ms)  BY <1>1, <1>3
<1> HIDE DEF g
<1>8. Typings(g, v, ms)  BY <1>5, <1>6 DEF Typings
<1> QED  BY <1>7, <1>8

(* What an event and a message add to a view.                              *)
LEMMA EmitType ==
  ASSUME NEW w \in Views, NEW id \in Ids, NEW s \in Seq(Words), NEW d \in Seq(Words)
  PROVE  EmitText(w, id, s, d) \in Views /\ EmitReplace(w, id, s) \in Views
<1>1. w.tuple[id] \in Seq(Words) /\ w.partial[id] \in Seq(Words)  BY DEF Views, Texts
<1>2. w.tuple[id] \o d \in Seq(Words) /\ s \o d \in Seq(Words)  BY <1>1, ConcatProperties
<1>3. EmitText(w, id, s, d) \in Views  BY <1>1, <1>2 DEF EmitText, Views, Texts
<1>4. EmitReplace(w, id, s) \in Views  BY <1>1, <1>2 DEF EmitReplace, Views, Texts
<1> QED  BY <1>3, <1>4

LEMMA TypeOutType ==
  ASSUME NEW v \in Views, NEW m \in Replies, accumulated \in Texts
  PROVE  TypeOut(v, m) \in Views
<1>1. /\ v.tuple \in Texts /\ v.partial \in Texts /\ v.replaced \in SUBSET Ids
      /\ v.retyped \in SUBSET Ids
  BY DEF Views
<1>2. m.id \in Ids /\ m.text \in Seq(Words)  BY DEF Replies
<1>3. accumulated[m.id] \in Seq(Words) /\ <<>> \in Seq(Words)  BY <1>2, EmptySeq DEF Texts
<1> DEFINE shown == IF Wrong(m) THEN <<>> ELSE accumulated[m.id]
           start == IF Wrong(m)
                    THEN [v EXCEPT !.retyped = @ \union {m.id},
                                   !.tuple[m.id] = IF "custom" \in modes THEN <<>> ELSE @]
                    ELSE v
<1>4. shown \in Seq(Words)  BY <1>3
<1>5. start \in Views
  <2>1. CASE Wrong(m)
    <3>1. v.tuple[m.id] \in Seq(Words)  BY <1>1, <1>2 DEF Texts
    <3>2. (IF "custom" \in modes THEN <<>> ELSE v.tuple[m.id]) \in Seq(Words)  BY <1>3, <3>1
    <3> QED  BY <1>1, <1>2, <2>1, <3>2 DEF Views, Texts
  <2>2. CASE ~Wrong(m)  BY <2>2
  <2> QED  BY <2>1, <2>2
<1>6. ToType(m, shown) \in Seq(Words)
  <2>1. Len(shown) \in Nat /\ Len(m.text) \in Nat  BY <1>2, <1>4
  <2>2. \A i \in Len(shown) + 1 .. Len(m.text) : m.text[i] \in Words  BY <1>2, <2>1, ElementOfSeq
  <2> QED  BY <2>1, <2>2, SubSeqProperties DEF ToType
<1> HIDE DEF start, shown
<1>7. TypeOut(v, m) = IF m.kwargs = "handoff" THEN EmitText(start, m.id, <<>>, m.text)
                      ELSE IF ToType(m, shown) = <<>> /\ m.kwargs = "none" THEN start
                      ELSE EmitText(start, m.id, shown, ToType(m, shown))
  BY Zenon DEF TypeOut, start, shown
<1> QED  BY <1>2, <1>3, <1>4, <1>5, <1>6, <1>7, EmitType

LEMMA ReplyMessagesType ==
  ASSUME answer \in Answers
  PROVE  ReplyMessages \in Seq(Replies)
<1>1. answer.messages \in Seq(Replies)  BY DEF Answers
<1>2. \A i \in 1 .. Len(answer.messages) : ReplyOf(answer.messages[i]) \in Seq(Replies)
  <2> TAKE i \in 1 .. Len(answer.messages)
  <2>1. answer.messages[i] \in Replies  BY <1>1, ElementOfSeq
  <2> QED  BY <2>1 DEF ReplyOf
<1>3. Mapped(answer.messages, ReplyOf) \in Seq(Seq(Replies))  BY <1>1, <1>2 DEF Mapped
<1> QED  BY <1>3, FlattenType DEF ReplyMessages, FlatMapped

LEMMA TypedViews ==
  ASSUME NEW v \in Views, NEW ms \in Seq(Replies), accumulated \in Texts,
         NEW g, Typings(g, v, ms)
  PROVE  \A k \in 0 .. Len(ms) : g[k] \in Views
<1> DEFINE P == {k \in Nat : k <= Len(ms) => g[k] \in Views}
<1>1. 0 \in P  BY DEF Typings
<1>2. ASSUME NEW k \in Nat, k \in P PROVE k + 1 \in P
  <2>1. ASSUME k + 1 <= Len(ms) PROVE g[k + 1] \in Views
    <3>1. k + 1 \in 1 .. Len(ms) /\ (k + 1) - 1 = k /\ k <= Len(ms)  BY <1>2, <2>1
    <3>2. g[k] \in Views  BY <1>2, <3>1
    <3>3. g[k + 1] = TypeOut(g[k], ms[k + 1])  BY <3>1 DEF Typings
    <3>4. ms[k + 1] \in Replies  BY <3>1, ElementOfSeq
    <3> QED  BY <3>2, <3>3, <3>4, TypeOutType
  <2> QED  BY <1>2, <2>1
<1> HIDE DEF P
<1>3. ASSUME NEW k \in 0 .. Len(ms) PROVE g[k] \in Views
  <2>1. k \in P /\ k <= Len(ms)  BY <1>1, <1>2, Numbers
  <2> QED  BY <2>1 DEF P
<1> QED  BY <1>3

-----------------------------------------------------------------------------
(***************************************************************************)
(* Every step keeps the types.                                             *)
(***************************************************************************)
LEMMA InitTypes == Init => TypeInv
<1> SUFFICES ASSUME Init PROVE TypeInv  OBVIOUS
<1>1. <<>> \in Seq(Norms) /\ <<>> \in Seq(Messages) /\ <<>> \in Seq(Lines)
      /\ <<>> \in Seq(WirePieces) /\ <<>> \in Seq(Words) /\ Len(<<>>) = 0
  BY EmptySeq
<1>2. NoText \in Texts /\ NoView \in Views  BY <1>1 DEF NoText, NoView, Texts, Views
<1>3. NoChild \in Children  BY DEF NoChild, Children, Processes
<1>4. EmptyValues \in [messages : Seq(Messages), top : Tops]
  BY <1>1 DEF EmptyValues, EmptyTop, Tops
<1>5. agent.turns \in Nat /\ MaxEvents \in Nat  BY AgentAssumption DEF Init
<1>6. modes \in SUBSET {"tuple", "partial", "custom"}  BY AgentAssumption DEF Init
<1>7. CallType  BY <1>1, <1>4, <1>5, <1>6 DEF CallType, Init, Steps
<1>8. StreamType
  <2>1. Len(sent) = 0 /\ sent \in Seq(Lines) /\ wire \in Seq(WirePieces) /\ buffer \in Seq(WirePieces)
    BY <1>1 DEF Init
  <2>2. Len(sent) <= MaxEvents /\ Len(sent) <= MaxEvents + 2  BY <1>5, <2>1
  <2> QED  BY <1>2, <2>1, <2>2 DEF StreamType, Init
<1>9. HostType  BY <1>3 DEF HostType, Init
<1>10. OutcomeType  BY <1>1, <1>2 DEF OutcomeType, Init
<1> QED  BY <1>7, <1>8, <1>9, <1>10 DEF TypeInv

LEMMA BeginTypes ==
  ASSUME TypeInv, BeginCall
  PROVE  TypeInv'
<1>1. <<>> \in Seq(Lines) /\ <<>> \in Seq(WirePieces) /\ <<>> \in Seq(Words) /\ Len(<<>>) = 0
  BY EmptySeq
<1>2. NoText \in Texts /\ NoView \in Views  BY <1>1 DEF NoText, NoView, Texts, Views
<1>3. NoChild \in Children  BY DEF NoChild, Children, Processes
<1>5. agent.turns \in Nat /\ MaxEvents \in Nat  BY AgentAssumption DEF TypeInv, CallType
<1>7. CallType'
  <2>1. pc' \in Steps  BY DEF BeginCall, Steps
  <2> QED  BY <1>5, <2>1 DEF TypeInv, CallType, BeginCall, callVars
<1>8. StreamType'
  <2>1. Len(sent') = 0 /\ sent' \in Seq(Lines) /\ wire' \in Seq(WirePieces) /\ buffer' \in Seq(WirePieces)
    BY <1>1 DEF BeginCall, FreshCall
  <2>2. Len(sent') <= MaxEvents /\ Len(sent') <= MaxEvents + 2  BY <1>5, <2>1
  <2> QED  BY <1>2, <2>1, <2>2 DEF StreamType, BeginCall, FreshCall
<1>9. HostType'  BY <1>3 DEF HostType, BeginCall, FreshCall
<1>10. OutcomeType'  BY <1>1, <1>2 DEF OutcomeType, BeginCall, FreshCall
<1> QED  BY <1>7, <1>8, <1>9, <1>10 DEF TypeInv

LEMMA QuietTypes ==
  ASSUME TypeInv, ChildStep \/ FailStep \/ HostStep \/ OpenStep \/ NoMoreLines \/ UNCHANGED vars
  PROVE  TypeInv'
<1>1. CallType'
  <2>1. pc' \in Steps /\ (pc = "start" => pc' = "start")
    BY DEF TypeInv, CallType, ChildStep, FailStep, HostStep, OpenStep, NoMoreLines, vars, Steps, Waiting
  <2>2. UNCHANGED <<callVars, turnVars>>
    BY DEF ChildStep, FailStep, HostStep, OpenStep, NoMoreLines, vars
  <2> QED  BY <2>1, <2>2 DEF TypeInv, CallType, callVars, turnVars
<1>2. StreamType'
  <2>1. UNCHANGED agentVars /\ buffer' \in Seq(WirePieces)
    BY DEF ChildStep, FailStep, HostStep, OpenStep, NoMoreLines, vars, TypeInv, StreamType
  <2> QED  BY <2>1 DEF TypeInv, StreamType, agentVars
<1>3. HostType'
  <2>1. child' \in Children
    BY DEF ChildStep, FailStep, HostStep, OpenStep, NoMoreLines, vars, TypeInv, HostType
  <2>2. broken' \in {"none", "timeout", "cancel", "network"} /\ cancelled' \in BOOLEAN
    BY DEF ChildStep, FailStep, HostStep, OpenStep, NoMoreLines, vars, TypeInv, HostType, hostVars
  <2> QED  BY <2>1, <2>2 DEF HostType
<1>4. OutcomeType'
  <2>1. UNCHANGED replyVars
    BY DEF ChildStep, FailStep, HostStep, OpenStep, NoMoreLines, vars
  <2>2. OutcomeType  BY DEF TypeInv
  <2>3. CASE UNCHANGED <<pc, result>>
    BY <2>1, <2>2, <2>3 DEF OutcomeType, replyVars
  <2>4. CASE FailStep
    BY <2>1, <2>2, <2>4 DEF OutcomeType, replyVars, FailStep, Failures
  <2>5. CASE OpenStep \/ NoMoreLines
    <3>1. /\ pc \in {"fetch", "lines"} /\ pc' \in {"body", "read"} /\ UNCHANGED result
      BY <2>5 DEF OpenStep, NoMoreLines
    <3> QED  BY <2>1, <2>2, <3>1 DEF OutcomeType, replyVars
  <2> QED  BY <2>3, <2>4, <2>5 DEF ChildStep, HostStep, vars
<1> QED  BY <1>1, <1>2, <1>3, <1>4 DEF TypeInv

(* An answer decoded in pieces is an answer, message by message the one    *)
(* that was written but for the words of its texts.                        *)
LEMMA DecodedFacts ==
  ASSUME NEW r \in Answers, NEW cuts
  PROVE  /\ Decoded(r, cuts) \in Answers
         /\ Len(Decoded(r, cuts).messages) = Len(r.messages)
         /\ \A i \in 1 .. Len(r.messages) :
               /\ Decoded(r, cuts).messages[i] = DecodedMessage(r.messages[i], i, cuts)
               /\ r.messages[i] \in Replies /\ DecodedMessage(r.messages[i], i, cuts) \in Replies
<1> DEFINE ms == r.messages
           ds == [i \in 1..Len(ms) |-> DecodedMessage(ms[i], i, cuts)]
<1>1. ms \in Seq(Replies) /\ Len(ms) \in Nat  BY DEF Answers
<1>2. \A i \in 1 .. Len(ms) : ms[i] \in Replies /\ DecodedMessage(ms[i], i, cuts) \in Replies
  <2> TAKE i \in 1 .. Len(ms)
  <2>1. ms[i] \in Replies  BY <1>1, ElementOfSeq
  <2> DEFINE t == [k \in 1..Len(ms[i].text) |-> IF <<i, k>> \in cuts THEN Torn ELSE ms[i].text[k]]
  <2>2. ms[i].text \in Seq(Words)  BY <2>1 DEF Replies
  <2>3. \A k \in 1..Len(ms[i].text) : ms[i].text[k] \in Words  BY <2>2, ElementOfSeq
  <2>4. t \in Seq(Words)  BY <2>2, <2>3, AgentAssumption
  <2>5. DecodedMessage(ms[i], i, cuts) = [ms[i] EXCEPT !.text = t]  BY DEF DecodedMessage
  <2> HIDE DEF t, ms
  <2>6. [ms[i] EXCEPT !.text = t] \in Replies  BY <2>1, <2>4 DEF Replies
  <2> QED  BY <2>1, <2>5, <2>6
<1>3. Decoded(r, cuts) = [r EXCEPT !.messages = ds]  BY DEF Decoded
<1>4. ds \in Seq(Replies) /\ Len(ds) = Len(ms) /\ \A i \in 1 .. Len(ms) : ds[i] = DecodedMessage(ms[i], i, cuts)
  <2> HIDE DEF ms
  <2> QED  BY <1>1, <1>2
<1> HIDE DEF ds
<1>5. [r EXCEPT !.messages = ds] \in Answers /\ [r EXCEPT !.messages = ds].messages = ds
  BY <1>4 DEF Answers
<1> QED  BY <1>2, <1>3, <1>4, <1>5

LEMMA ReceivedAnswers == Received \subseteq Answers
<1>1. Responses \subseteq Answers  BY AgentAssumption
<1> QED  BY <1>1, DecodedFacts DEF Received

(* The answer is stored.                                                   *)
LEMMA AcceptTypes ==
  ASSUME TypeInv, NEW response \in Answers, NEW step \in {"type", "done"}, Accept(response, step),
         pc # "start"
  PROVE  CallType'
<1>1. /\ values \in [messages : Seq(Messages), top : Tops] /\ said \in Seq(Norms)
      /\ returned \in SUBSET Channels /\ input \in Inputs
  BY AgentAssumption DEF TypeInv, CallType
<1>2. values' \in [messages : Seq(Messages), top : Tops]  BY <1>1, StoreTurnType DEF Accept
<1>3. said' \in Seq(Norms)
  <2>1. input.messages \in Seq(Speech) /\ response.messages \in Seq(Speech)
    BY <1>1, SpeechSeq DEF Inputs, Answers
  <2>2. ExtractMessages(input.messages) \in Seq(Norms) /\ ExtractMessages(response.messages) \in Seq(Norms)
    BY <2>1, ExtractMessagesType
  <2>3. said \o ExtractMessages(input.messages) \in Seq(Norms)  BY <1>1, <2>2, ConcatProperties
  <2>4. (said \o ExtractMessages(input.messages)) \o ExtractMessages(response.messages) \in Seq(Norms)
    BY <2>2, <2>3, ConcatProperties
  <2> QED  BY <2>4 DEF Accept
<1>4. returned' \in SUBSET Channels  BY <1>1 DEF Accept
<1>5. pc' \in Steps  BY DEF Accept, Steps
<1> QED  BY <1>2, <1>3, <1>4, <1>5 DEF Accept, CallType, callVars, TypeInv

LEMMA WholeTypes ==
  ASSUME TypeInv, WholeStep
  PROVE  TypeInv'
<1>1. PICK response \in Received : AcceptWhole(response)  BY DEF WholeStep
<1>2. response \in Answers /\ response # None  BY AgentAssumption, ReceivedAnswers
<1>3. CallType'
  <2>1. pc # "start"  BY DEF WholeStep
  <2>2. Accept(response, IF way = "events" THEN "type" ELSE "done")  BY <1>1 DEF AcceptWhole
  <2> QED  BY <1>2, <2>1, <2>2, AcceptTypes
<1>4. StreamType'  BY DEF WholeStep, TypeInv, StreamType, agentVars
<1>5. HostType'  BY DEF WholeStep, TypeInv, HostType, hostVars
<1>6. OutcomeType'
  <2>1. Final(response) \in Lines  BY <1>2, LineMade
  <2>2. seen' = <<Final(response)>>  BY <1>1 DEF AcceptWhole, Final
  <2>3. seen' \in Seq(Lines) /\ seen' # <<>>  BY <2>1, <2>2
  <2>4. answer' = response /\ result' = "ok" /\ pc' \in {"type", "done"} /\ UNCHANGED <<accumulated, view>>
    BY <1>1 DEF AcceptWhole, Accept
  <2> QED  BY <1>2, <2>3, <2>4 DEF OutcomeType, TypeInv
<1> QED  BY <1>3, <1>4, <1>5, <1>6 DEF TypeInv

(* The agent's side of a stream: the lines of each step.                   *)
LEMMA LastReplyFacts ==
  ASSUME NEW ms \in Seq(Replies)
  PROVE  /\ LastReply(ms) \in 0 .. Len(ms)
         /\ LastReply(ms) # 0 => ms[LastReply(ms)] \in Replies
<1> DEFINE ai == {i \in 1..Len(ms) : ms[i].role = "assistant"}
           n  == Len(ms)
           D  == {n - i : i \in ai}
<1>1. n \in Nat  OBVIOUS
<1>2. CASE ai = {}  BY <1>1, <1>2 DEF LastReply
<1>3. CASE ai # {}
  <2>1. D \in SUBSET Nat /\ D # {}  BY <1>1, <1>3
  <2>2. PICK d \in D : \A e \in D : d <= e  BY <2>1, LeastElement
  <2>3. PICK i \in ai : d = n - i  BY <2>2
  <2>4. \A j \in ai : j <= i
    <3> TAKE j \in ai
    <3>1. n - i <= n - j  BY <2>2, <2>3
    <3> QED  BY <1>1, <3>1
  <2>5. \E k \in ai : \A j \in ai : j <= k  BY <2>4
  <2>6. LastReply(ms) = CHOOSE k \in ai : \A j \in ai : j <= k  BY <1>3 DEF LastReply
  <2> HIDE DEF ai
  <2>7. LastReply(ms) \in ai  BY <2>5, <2>6
  <2>8. LastReply(ms) \in 1 .. Len(ms)  BY <2>7 DEF ai
  <2> QED  BY <2>8, ElementOfSeq
<1> QED  BY <1>2, <1>3

LEMMA StampedType ==
  ASSUME NEW ms \in Seq(Replies)
  PROVE  Stamped(ms) \in Seq(Replies) /\ Len(Stamped(ms)) = Len(ms)
<1>1. CASE LastReply(ms) = 0  BY <1>1 DEF Stamped
<1>2. CASE LastReply(ms) # 0
  <2> DEFINE l == LastReply(ms)
             m == [ms[l] EXCEPT !.id = "r"]
  <2>1. l \in 1 .. Len(ms) /\ ms[l] \in Replies  BY <1>2, LastReplyFacts
  <2>2. m \in Replies  BY <2>1, AgentAssumption DEF Replies, Ids
  <2>3. Stamped(ms) = [ms EXCEPT ![l] = m]  BY <1>2 DEF Stamped
  <2> HIDE DEF l, m
  <2> QED  BY <2>1, <2>2, <2>3, ExceptSeq
<1> QED  BY <1>1, <1>2

LEMMA ReconcileType ==
  ASSUME TypeInv, NEW ms \in Seq(Replies)
  PROVE  Reconcile(ms) \in Seq(Lines) /\ Len(Reconcile(ms)) \in 0 .. 1
<1> DEFINE l    == LastReply(ms)
           text == ms[l].text
           sofar == streamed["r"]
           rest == SubSeq(text, Len(sofar) + 1, Len(text))
           src == IF sofar = <<>> THEN "final" ELSE "reconcile"
<1>1. "r" \in Ids /\ sofar \in Seq(Words)  BY AgentAssumption DEF Ids, TypeInv, StreamType, Texts
<1>2. CASE l = 0  BY <1>2, EmptySeq DEF Reconcile
<1>3. CASE l # 0
  <2>1. text \in Seq(Words)  BY <1>3, LastReplyFacts DEF Replies
  <2>2. rest \in Seq(Words)
    <3>1. Len(sofar) \in Nat /\ Len(text) \in Nat  BY <1>1, <2>1
    <3>2. \A i \in Len(sofar) + 1 .. Len(text) : text[i] \in Words  BY <2>1, <3>1, ElementOfSeq
    <3> QED  BY <3>1, <3>2, SubSeqProperties
  <2>3. Replace("r", text) \in Lines /\ Token("r", rest, src) \in Lines
    BY <1>1, <2>1, <2>2, LineMade
  <2>4. /\ <<Replace("r", text)>> \in Seq(Lines) /\ Len(<<Replace("r", text)>>) = 1
        /\ <<Token("r", rest, src)>> \in Seq(Lines) /\ Len(<<Token("r", rest, src)>>) = 1
        /\ <<>> \in Seq(Lines) /\ Len(<<>>) = 0
    BY <2>3, EmptySeq
  <2>5. \/ Reconcile(ms) = <<>> \/ Reconcile(ms) = <<Replace("r", text)>>
        \/ Reconcile(ms) = <<Token("r", rest, src)>>
    BY Zenon DEF Reconcile
  <2> HIDE DEF rest, src, text
  <2>6. 0 \in 0 .. 1 /\ 1 \in 0 .. 1  OBVIOUS
  <2> QED  BY <2>4, <2>5, <2>6, Zenon
<1> QED  BY <1>2, <1>3

(* What the handler's response becomes when it is sent.                    *)
Sending(response) == [response EXCEPT !.messages = Stamped(@)]

LEMMA SendingType ==
  ASSUME TypeInv, NEW response \in Answers
  PROVE  /\ Sending(response) \in Answers
         /\ Reconcile(response.messages) \o <<Final(Sending(response))>> \in Seq(Lines)
         /\ Len(Reconcile(response.messages) \o <<Final(Sending(response))>>) \in 1 .. 2
<1>1. response.messages \in Seq(Replies)  BY DEF Answers
<1>2. Sending(response) \in Answers  BY <1>1, StampedType DEF Sending, Answers
<1>3. <<Final(Sending(response))>> \in Seq(Lines) /\ Len(<<Final(Sending(response))>>) = 1
  BY <1>2, LineMade
<1>4. Reconcile(response.messages) \in Seq(Lines) /\ Len(Reconcile(response.messages)) \in 0 .. 1
  BY <1>1, ReconcileType
<1> QED  BY <1>2, <1>3, <1>4, ConcatProperties

LEMMA OtherLinesType == OtherLines \subseteq Lines
<1>1. OwnIds \subseteq Ids /\ Scraps \subseteq Seq(Words) /\ Responses \subseteq Answers
  BY AgentAssumption DEF Ids
<1>2. ASSUME NEW l \in OtherLines PROVE l \in Lines
  <2>1. CASE l \in {Plain(e) : e \in {"blank", "noJson", "incomplete", "error"}}  BY <2>1, LineMade
  <2>2. CASE l \in {Token(id, words, source) : id \in OwnIds, words \in Scraps, source \in {"live", "final"}}
    <3>1. PICK id \in OwnIds, words \in Scraps, source \in {"live", "final"} : l = Token(id, words, source)
      BY <2>2
    <3> QED  BY <1>1, <3>1, LineMade
  <2>3. CASE l \in {Replace(id, words) : id \in OwnIds, words \in Scraps}
    <3>1. PICK id \in OwnIds, words \in Scraps : l = Replace(id, words)  BY <2>3
    <3> QED  BY <1>1, <3>1, LineMade
  <2>4. CASE l \in {Final(response) : response \in Responses}  BY <1>1, <2>4, LineMade
  <2> QED  BY <2>1, <2>2, <2>3, <2>4 DEF OtherLines
<1> QED  BY <1>2

(* Writing keeps the stream well formed.                                   *)
LEMMA WriteTypes ==
  ASSUME TypeInv, NEW lines \in Seq(Lines), Writes(lines)
  PROVE  sent' \in Seq(Lines) /\ wire' \in Seq(WirePieces) /\ Len(sent') = Len(sent) + Len(lines)
<1>1. sent \in Seq(Lines) /\ wire \in Seq(WirePieces) /\ Len(sent) \in Nat  BY DEF TypeInv, StreamType
<1>2. Pieces(lines, Len(sent)) \in Seq(WirePieces)  BY <1>1, PieceLinesType
<1>3. sent \o lines \in Seq(Lines) /\ Len(sent \o lines) = Len(sent) + Len(lines)  BY <1>1, ConcatProperties
<1>4. wire \o Pieces(lines, Len(sent)) \in Seq(WirePieces)  BY <1>1, <1>2, ConcatProperties
<1> QED  BY <1>3, <1>4 DEF Writes

LEMMA AgentTypes ==
  ASSUME TypeInv, Agent
  PROVE  TypeInv'
<1>1. UNCHANGED <<callVars, turnVars, pc, buffer, hostVars, child, replyVars, result>> /\ ~ended
  BY DEF Agent, HandlerEmits, HandlerReturns, HandlerThrows, OtherWrites, OtherEnds, StaysWithAgent, Open
<1>m. MaxEvents \in Nat /\ Len(sent) \in Nat /\ Len(sent) <= MaxEvents
  BY <1>1, AgentAssumption DEF TypeInv, StreamType
<1>s. /\ sent \in Seq(Lines) /\ wire \in Seq(WirePieces) /\ buffer \in Seq(WirePieces)
      /\ streamed \in Texts /\ fate \in {"running", "returned", "threw"} /\ ended \in BOOLEAN
  BY DEF TypeInv, StreamType
<1>o. OwnIds \subseteq Ids /\ Scraps \subseteq Seq(Words) /\ Responses \subseteq Answers
  BY AgentAssumption DEF Ids
<1>2. /\ sent' \in Seq(Lines) /\ wire' \in Seq(WirePieces) /\ ended' \in BOOLEAN /\ streamed' \in Texts
      /\ fate' \in {"running", "returned", "threw"}
      /\ (ended' => Len(sent') <= MaxEvents + 2) /\ (~ended' => Len(sent') <= MaxEvents)
  <2>1. CASE HandlerEmits
    <3>1. PICK id \in OwnIds, words \in Scraps :
             \/ /\ streamed' = [streamed EXCEPT ![id] = @ \o words]
                /\ Writes(<<Token(id, words, "live")>>)
             \/ /\ streamed' = [streamed EXCEPT ![id] = words]
                /\ Writes(<<Replace(id, words)>>)
      BY <2>1 DEF HandlerEmits
    <3>2. id \in Ids /\ words \in Seq(Words) /\ streamed[id] \in Seq(Words)
      BY <1>o, <1>s DEF Texts
    <3>3. streamed[id] \o words \in Seq(Words)  BY <3>2, ConcatProperties
    <3>4. streamed' \in Texts  BY <1>s, <3>1, <3>2, <3>3 DEF Texts
    <3>5. \E l \in Lines : Writes(<<l>>)  BY <3>1, <3>2, LineMade
    <3>6. PICK l \in Lines : Writes(<<l>>)  BY <3>5
    <3>7. <<l>> \in Seq(Lines) /\ Len(<<l>>) = 1  OBVIOUS
    <3>8. sent' \in Seq(Lines) /\ wire' \in Seq(WirePieces) /\ Len(sent') = Len(sent) + 1
      BY <3>6, <3>7, WriteTypes
    <3>9. Len(sent) < MaxEvents /\ UNCHANGED <<ended, fate>>  BY <2>1 DEF HandlerEmits
    <3>10. Len(sent') <= MaxEvents  BY <1>m, <3>8, <3>9
    <3> QED  BY <1>1, <1>s, <3>4, <3>8, <3>9, <3>10
  <2>2. CASE HandlerReturns
    <3>1. PICK response \in HandlerResponses :
             Writes(Reconcile(response.messages) \o <<Final(Sending(response))>>)
      BY <2>2 DEF HandlerReturns, Sending
    <3>2. response \in Answers  BY <1>o DEF HandlerResponses
    <3> DEFINE lines == Reconcile(response.messages) \o <<Final(Sending(response))>>
    <3>3. lines \in Seq(Lines) /\ Len(lines) \in 1 .. 2  BY <3>2, SendingType
    <3>4. sent' \in Seq(Lines) /\ wire' \in Seq(WirePieces) /\ Len(sent') = Len(sent) + Len(lines)
      BY <3>1, <3>3, WriteTypes
    <3>5. ended' = TRUE /\ fate' = "returned" /\ UNCHANGED streamed  BY <2>2 DEF HandlerReturns
    <3> DEFINE n == Len(lines)
    <3>n. n \in 1 .. 2 /\ Len(sent') = Len(sent) + n  BY <3>3, <3>4
    <3> HIDE DEF lines, n
    <3>6. Len(sent') <= MaxEvents + 2  BY <1>m, <3>n
    <3> QED  BY <1>s, <3>4, <3>5, <3>6
  <2>3. CASE HandlerThrows
    <3>1. Plain("error") \in Lines /\ Writes(<<Plain("error")>>)  BY <2>3, LineMade DEF HandlerThrows
    <3>2. <<Plain("error")>> \in Seq(Lines) /\ Len(<<Plain("error")>>) = 1  BY <3>1
    <3>3. sent' \in Seq(Lines) /\ wire' \in Seq(WirePieces) /\ Len(sent') = Len(sent) + 1
      BY <3>1, <3>2, WriteTypes
    <3>4. ended' = TRUE /\ fate' = "threw" /\ UNCHANGED streamed  BY <2>3 DEF HandlerThrows
    <3>5. Len(sent') <= MaxEvents + 2  BY <1>m, <3>3
    <3> QED  BY <1>s, <3>3, <3>4, <3>5
  <2>4. CASE OtherWrites
    <3>1. PICK l \in OtherLines : Writes(<<l>>)  BY <2>4 DEF OtherWrites
    <3>2. l \in Lines  BY OtherLinesType
    <3>3. <<l>> \in Seq(Lines) /\ Len(<<l>>) = 1  BY <3>2
    <3>4. sent' \in Seq(Lines) /\ wire' \in Seq(WirePieces) /\ Len(sent') = Len(sent) + 1
      BY <3>1, <3>3, WriteTypes
    <3>5. Len(sent) < MaxEvents /\ UNCHANGED <<ended, streamed, fate>>  BY <2>4 DEF OtherWrites
    <3>6. Len(sent') <= MaxEvents  BY <1>m, <3>4, <3>5
    <3> QED  BY <1>1, <1>s, <3>4, <3>5, <3>6
  <2>5. CASE OtherEnds
    <3>1. ended' = TRUE /\ UNCHANGED <<streamed, fate>>  BY <2>5 DEF OtherEnds
    <3>2. CASE UNCHANGED <<sent, wire>>
      <4>1. Len(sent') <= MaxEvents + 2  BY <1>m, <3>2
      <4> QED  BY <1>s, <3>1, <3>2, <4>1
    <3>3. ASSUME NEW response \in Responses, sent' = Append(sent, Final(response)),
                 wire' = wire \o Halves(Len(sent) + 1)
          PROVE  sent' \in Seq(Lines) /\ wire' \in Seq(WirePieces) /\ Len(sent') = Len(sent) + 1
      <4>1. Final(response) \in Lines  BY <1>o, LineMade
      <4>2. Len(sent) + 1 \in Nat  BY <1>m
      <4>3. Halves(Len(sent) + 1) \in Seq(WirePieces)  BY <4>2, LinePiecesType
      <4>4. sent' \in Seq(Lines) /\ Len(sent') = Len(sent) + 1  BY <1>s, <3>3, <4>1, AppendProperties
      <4> QED  BY <1>s, <3>3, <4>3, <4>4, ConcatProperties
    <3>4. CASE \E response \in Responses : /\ sent' = Append(sent, Final(response))
                                           /\ wire' = wire \o Halves(Len(sent) + 1)
      <4>1. sent' \in Seq(Lines) /\ wire' \in Seq(WirePieces) /\ Len(sent') = Len(sent) + 1  BY <3>3, <3>4
      <4>2. Len(sent') <= MaxEvents + 2  BY <1>m, <4>1
      <4> QED  BY <1>s, <3>1, <4>1, <4>2
    <3> QED  BY <2>5, <3>2, <3>4 DEF OtherEnds
  <2> QED  BY <2>1, <2>2, <2>3, <2>4, <2>5 DEF Agent
<1>3. CallType'  BY <1>1 DEF TypeInv, CallType, callVars, turnVars
<1>4. StreamType'  BY <1>1, <1>2, <1>s DEF StreamType
<1>5. HostType'  BY <1>1 DEF TypeInv, HostType, hostVars
<1>6. OutcomeType'  BY <1>1 DEF TypeInv, OutcomeType, replyVars
<1> QED  BY <1>3, <1>4, <1>5, <1>6 DEF TypeInv

(* A line that is read is a line.                                          *)
LEMMA ParseType ==
  ASSUME TypeInv, NEW pieces
  PROVE  ParseLine(pieces) \in Lines
<1>1. sent \in Seq(Lines)  BY DEF TypeInv, StreamType
<1>2. Plain("blank") \in Lines /\ Plain("noJson") \in Lines  BY LineMade
<1>3. CASE pieces[1].line \in 1 .. Len(sent)
  <2>1. sent[pieces[1].line] \in Lines  BY <1>1, <1>3, ElementOfSeq
  <2> QED  BY <1>2, <2>1 DEF ParseLine
<1>4. CASE pieces[1].line \notin 1 .. Len(sent)  BY <1>2, <1>4 DEF ParseLine
<1> QED  BY <1>3, <1>4

LEMMA HandleEventTypes ==
  ASSUME TypeInv, NEW event \in Lines, HandleEvent(event)
  PROVE  /\ seen' \in Seq(Lines) /\ seen' # <<>> /\ Len(seen') = Len(seen) + 1
         /\ answer' \in Answers \union {None}
         /\ accumulated' \in Texts /\ view' \in Views
<1>1. /\ seen \in Seq(Lines) /\ answer \in Answers \union {None} /\ accumulated \in Texts /\ view \in Views
  BY DEF TypeInv, OutcomeType
<1>2. seen' \in Seq(Lines) /\ seen' # <<>> /\ Len(seen') = Len(seen) + 1
  BY <1>1, AppendProperties DEF HandleEvent
<1>3. answer' \in Answers \union {None}
  <2>1. event.event = "final" => event.data \in Answers  BY LineFacts
  <2> QED  BY <1>1, <2>1 DEF HandleEvent
<1>4. CASE event.event = "token"
  <2>1. event.id \in Ids /\ event.text \in Seq(Words)  BY <1>4, LineFacts
  <2>2. accumulated[event.id] \in Seq(Words)  BY <1>1, <2>1 DEF Texts
  <2>3. accumulated[event.id] \o event.text \in Seq(Words)  BY <2>1, <2>2, ConcatProperties
  <2>4. [accumulated EXCEPT ![event.id] = @ \o event.text] \in Texts  BY <1>1, <2>1, <2>3 DEF Texts
  <2>5. EmitText(view, event.id, accumulated[event.id], event.text) \in Views
    BY <1>1, <2>1, <2>2, EmitType
  <2>6. accumulated' \in Texts  BY <1>1, <1>4, <2>4 DEF HandleEvent, Accumulated
  <2>7. view' \in Views  BY <1>1, <1>4, <2>5 DEF HandleEvent
  <2> QED  BY <1>2, <1>3, <2>6, <2>7
<1>5. CASE event.event = "replace"
  <2>1. event.id \in Ids /\ event.text \in Seq(Words)  BY <1>5, LineFacts
  <2>4. [accumulated EXCEPT ![event.id] = event.text] \in Texts  BY <1>1, <2>1 DEF Texts
  <2>5. EmitReplace(view, event.id, event.text) \in Views  BY <1>1, <2>1, EmitType
  <2>6. accumulated' \in Texts  BY <1>1, <1>5, <2>4 DEF HandleEvent, Accumulated
  <2>7. view' \in Views  BY <1>1, <1>5, <2>5 DEF HandleEvent
  <2> QED  BY <1>2, <1>3, <2>6, <2>7
<1>6. CASE event.event \notin {"token", "replace"}
  <2>1. accumulated' = accumulated /\ view' = view  BY <1>6 DEF HandleEvent, Accumulated
  <2> QED  BY <1>1, <1>2, <1>3, <2>1
<1> QED  BY <1>4, <1>5, <1>6

LEMMA HandleTypes ==
  ASSUME TypeInv, HandleStep
  PROVE  TypeInv'
<1>1. PICK nl \in 1 .. Len(buffer) :
         /\ buffer' = SubSeq(buffer, nl + 1, Len(buffer))
         /\ \/ UNCHANGED replyVars
            \/ HandleEvent(Line(nl))
  BY DEF HandleStep
<1>2. UNCHANGED <<callVars, turnVars, pc, agentVars, hostVars, child, result>> /\ pc = "lines"
  BY DEF HandleStep
<1>3. buffer' \in Seq(WirePieces)
  <2>1. buffer \in Seq(WirePieces) /\ Len(buffer) \in Nat  BY DEF TypeInv, StreamType
  <2>2. \A i \in nl + 1 .. Len(buffer) : buffer[i] \in WirePieces  BY <2>1, ElementOfSeq
  <2>3. nl + 1 \in Int /\ Len(buffer) \in Int  BY <2>1
  <2> QED  BY <1>1, <2>2, <2>3, SubSeqProperties
<1>4. CallType'  BY <1>2 DEF TypeInv, CallType, callVars, turnVars
<1>5. StreamType'  BY <1>2, <1>3 DEF TypeInv, StreamType, agentVars
<1>6. HostType'  BY <1>2 DEF TypeInv, HostType, hostVars
<1>7. OutcomeType'
  <2>1. CASE UNCHANGED replyVars  BY <1>2, <2>1 DEF TypeInv, OutcomeType, replyVars
  <2>2. CASE HandleEvent(Line(nl))
    <3>1. Line(nl) \in Lines  BY ParseType DEF Line
    <3>2. /\ seen' \in Seq(Lines) /\ seen' # <<>>
          /\ answer' \in Answers \union {None} /\ accumulated' \in Texts /\ view' \in Views
      BY <2>2, <3>1, HandleEventTypes
    <3>3. result' = "none" /\ pc' = "lines"  BY <1>2 DEF TypeInv, OutcomeType
    <3> QED  BY <3>2, <3>3 DEF OutcomeType
  <2> QED  BY <1>1, <2>1, <2>2
<1> QED  BY <1>4, <1>5, <1>6, <1>7 DEF TypeInv

LEMMA ReadTypes ==
  ASSUME TypeInv, ReadChunk
  PROVE  TypeInv'
<1>1. PICK n \in 1..Len(wire) :
         /\ buffer' = Buffered(SubSeq(wire, 1, n))
         /\ wire' = SubSeq(wire, n + 1, Len(wire))
  BY DEF ReadChunk
<1>2. /\ pc = "read" /\ pc' = "lines"
      /\ UNCHANGED <<callVars, turnVars, sent, ended, streamed, fate, hostVars, child, replyVars, result>>
  BY DEF ReadChunk
<1>3. wire \in Seq(WirePieces) /\ buffer \in Seq(WirePieces) /\ Len(wire) \in Nat
  BY DEF TypeInv, StreamType
<1>4. \A i \in 1 .. Len(wire) : wire[i] \in WirePieces  BY <1>3, ElementOfSeq
<1>5. SubSeq(wire, 1, n) \in Seq(WirePieces) /\ SubSeq(wire, n + 1, Len(wire)) \in Seq(WirePieces)
  <2>1. \A i \in 1 .. n : wire[i] \in WirePieces  BY <1>3, <1>4
  <2>2. \A i \in n + 1 .. Len(wire) : wire[i] \in WirePieces  BY <1>3, <1>4
  <2> QED  BY <1>3, <2>1, <2>2, SubSeqProperties
<1>6. buffer' \in Seq(WirePieces) /\ wire' \in Seq(WirePieces)
  BY <1>1, <1>3, <1>5, ConcatProperties DEF Buffered
<1>7. CallType'  BY <1>2 DEF TypeInv, CallType, callVars, turnVars, Steps
<1>8. StreamType'  BY <1>2, <1>6 DEF TypeInv, StreamType
<1>9. HostType'  BY <1>2 DEF TypeInv, HostType, hostVars
<1>10. OutcomeType'  BY <1>2 DEF TypeInv, OutcomeType, replyVars
<1> QED  BY <1>7, <1>8, <1>9, <1>10 DEF TypeInv

LEMMA AcceptStepTypes ==
  ASSUME TypeInv, AcceptStep
  PROVE  TypeInv'
<1> DEFINE tail == ParseLine(buffer)
           last == IF tail.event = "final" THEN tail.data ELSE answer
<1>1. /\ pc = "read" /\ buffer' = <<>> /\ last # None /\ Accept(last, "type")
      /\ tail.event \notin {"noJson", "incomplete", "error"}
      /\ seen' = IF tail.event = "blank" THEN seen ELSE Append(seen, tail)
      /\ UNCHANGED <<accumulated, view, agentVars, hostVars, child>>
  BY DEF AcceptStep
<1>2. tail \in Lines  BY ParseType
<1> HIDE DEF tail
<1>3. last \in Answers
  <2>1. tail.event = "final" => tail.data \in Answers  BY <1>2, LineFacts
  <2>2. answer \in Answers \union {None}  BY DEF TypeInv, OutcomeType
  <2> QED  BY <1>1, <2>1, <2>2
<1> HIDE DEF last
<1>4. CallType'  BY <1>1, <1>3, AcceptTypes
<1>5. StreamType'
  <2>1. buffer' \in Seq(WirePieces)  BY <1>1, EmptySeq
  <2> QED  BY <1>1, <2>1 DEF TypeInv, StreamType, agentVars
<1>6. HostType'  BY <1>1 DEF TypeInv, HostType, hostVars
<1>7. OutcomeType'
  <2>1. seen \in Seq(Lines) /\ accumulated \in Texts /\ view \in Views  BY DEF TypeInv, OutcomeType
  <2>2. Append(seen, tail) \in Seq(Lines)  BY <1>2, <2>1, AppendProperties
  <2>3. answer' = last /\ result' = "ok" /\ pc' = "type"  BY <1>1 DEF Accept
  <2> QED  BY <1>1, <1>3, <2>1, <2>2, <2>3 DEF OutcomeType
<1> QED  BY <1>4, <1>5, <1>6, <1>7 DEF TypeInv

LEMMA TypeReplyTypes ==
  ASSUME TypeInv, TypeReply
  PROVE  TypeInv'
<1>1. /\ pc = "type" /\ pc' = "done"
      /\ view' = IF {"tuple", "partial"} \intersect modes = {} THEN view
                 ELSE FoldLeft(TypeOut, view, ReplyMessages)
      /\ UNCHANGED <<callVars, turnVars, agentVars, buffer, hostVars, child, seen, answer,
                     accumulated, result>>
  BY DEF TypeReply
<1>2. view \in Views /\ accumulated \in Texts  BY DEF TypeInv, OutcomeType
<1>3. ReplyMessages \in Seq(Replies)
  <2>1. answer \in Answers  BY <1>1 DEF TypeInv, OutcomeType
  <2> QED  BY <2>1, ReplyMessagesType
<1>4. PICK g : Typings(g, view, ReplyMessages) /\ FoldLeft(TypeOut, view, ReplyMessages) = g[Len(ReplyMessages)]
  BY <1>3, FoldTypes
<1>5. g[Len(ReplyMessages)] \in Views
  <2>1. Len(ReplyMessages) \in 0 .. Len(ReplyMessages)  BY <1>3
  <2> QED  BY <1>2, <1>3, <1>4, <2>1, TypedViews
<1>6. view' \in Views  BY <1>1, <1>2, <1>4, <1>5
<1>7. CallType'  BY <1>1 DEF TypeInv, CallType, callVars, turnVars, Steps
<1>8. StreamType'  BY <1>1 DEF TypeInv, StreamType, agentVars
<1>9. HostType'  BY <1>1 DEF TypeInv, HostType, hostVars
<1>10. OutcomeType'  BY <1>1, <1>6 DEF TypeInv, OutcomeType
<1> QED  BY <1>7, <1>8, <1>9, <1>10 DEF TypeInv

(* Every step keeps the types.                                             *)
LEMMA NextTypes ==
  ASSUME TypeInv, [Next]_vars
  PROVE  TypeInv'
<1>1. CASE Next
  BY <1>1, StepCases, BeginTypes, QuietTypes, WholeTypes, AgentTypes, HandleTypes, ReadTypes,
     AcceptStepTypes, TypeReplyTypes
<1>2. CASE UNCHANGED vars  BY <1>2, QuietTypes
<1> QED  BY <1>1, <1>2

LEMMA TypeInvariant == Spec => []TypeInv
<1>1. Init => TypeInv  BY InitTypes
<1>2. TypeInv /\ [Next]_vars => TypeInv'  BY NextTypes
<1> QED  BY <1>1, <1>2, PTL DEF Spec

LEMMA TypesSuffice == TypeInv => TypeOK
<1> SUFFICES ASSUME TypeInv PROVE TypeOK  OBVIOUS
<1>1. Len(sent) <= MaxEvents + 2
  <2>1. MaxEvents \in Nat /\ Len(sent) \in Nat  BY AgentAssumption DEF TypeInv, StreamType
  <2> QED  BY <2>1 DEF TypeInv, StreamType
<1>2. child.state \in {"none", "running", "exited", "failed"}  BY DEF TypeInv, HostType, Children, Processes
<1>3. values.top \in Tops  BY DEF TypeInv, CallType
<1>4. accumulated \in [Ids -> Seq(Words)]  BY DEF TypeInv, OutcomeType, Texts
<1> QED  BY <1>1, <1>2, <1>3, <1>4 DEF TypeInv, CallType, StreamType, HostType, OutcomeType, TypeOK

(* Every variable keeps its type, through any number of calls on a thread  *)
(* and however the agent writes its lines: an answer is there exactly when *)
(* the call has gone well or the stream has brought one.                   *)
THEOREM TypeCorrect == Spec => []TypeOK
BY TypeInvariant, TypesSuffice, PTL

-----------------------------------------------------------------------------
(***************************************************************************)
(* What an agent is told.                                                  *)
(***************************************************************************)
(* What F makes of each element of s, in a row.                            *)
Sift(s, F) == FlattenSeq([i \in 1 .. Len(s) |-> F[s[i]]])

LEMMA SiftType ==
  ASSUME NEW S, NEW T, NEW F \in [S -> Seq(T)], NEW s \in Seq(S)
  PROVE  Sift(s, F) \in Seq(T) /\ [i \in 1 .. Len(s) |-> F[s[i]]] \in Seq(Seq(T))
<1>1. \A i \in 1 .. Len(s) : F[s[i]] \in Seq(T)
  <2> TAKE i \in 1 .. Len(s)
  <2>1. s[i] \in S  BY ElementOfSeq
  <2> QED  BY <2>1
<1>2. [i \in 1 .. Len(s) |-> F[s[i]]] \in Seq(Seq(T))  BY <1>1
<1> QED  BY <1>2, FlattenType DEF Sift

LEMMA SiftConcat ==
  ASSUME NEW S, NEW T, NEW F \in [S -> Seq(T)], NEW s \in Seq(S), NEW t \in Seq(S)
  PROVE  Sift(s \o t, F) = Sift(s, F) \o Sift(t, F)
<1> DEFINE a == [i \in 1 .. Len(s) |-> F[s[i]]]
           b == [i \in 1 .. Len(t) |-> F[t[i]]]
           c == [i \in 1 .. Len(s \o t) |-> F[(s \o t)[i]]]
<1>1. /\ s \o t \in Seq(S) /\ Len(s \o t) = Len(s) + Len(t) /\ Len(s) \in Nat /\ Len(t) \in Nat
      /\ \A i \in 1 .. Len(s) + Len(t) :
            (s \o t)[i] = IF i <= Len(s) THEN s[i] ELSE t[i - Len(s)]
  BY ConcatProperties
<1>2. a \in Seq(Seq(T)) /\ b \in Seq(Seq(T)) /\ c \in Seq(Seq(T))  BY <1>1, SiftType
<1>3. Len(a) = Len(s) /\ Len(b) = Len(t) /\ Len(c) = Len(s) + Len(t)  BY <1>1
<1>4. /\ a \o b \in Seq(Seq(T)) /\ Len(a \o b) = Len(s) + Len(t)
      /\ \A i \in 1 .. Len(s) + Len(t) : (a \o b)[i] = IF i <= Len(s) THEN a[i] ELSE b[i - Len(s)]
  <2> HIDE DEF a, b
  <2>1. /\ a \o b \in Seq(Seq(T)) /\ Len(a \o b) = Len(a) + Len(b)
        /\ \A i \in 1 .. Len(a) + Len(b) : (a \o b)[i] = IF i <= Len(a) THEN a[i] ELSE b[i - Len(a)]
    BY <1>2, ConcatProperties
  <2> QED  BY <1>3, <2>1
<1>5. ASSUME NEW i \in 1 .. Len(s) + Len(t) PROVE (a \o b)[i] = c[i]
  <2>1. c[i] = F[(s \o t)[i]]  BY <1>1
  <2>2. CASE i <= Len(s)
    <3>1. i \in 1 .. Len(s)  BY <1>1, <2>2
    <3>2. a[i] = F[s[i]]  BY <3>1
    <3> QED  BY <1>1, <1>4, <2>1, <2>2, <3>2
  <2>3. CASE ~(i <= Len(s))
    <3>1. i - Len(s) \in 1 .. Len(t)  BY <1>1, <2>3
    <3>2. b[i - Len(s)] = F[t[i - Len(s)]]  BY <3>1
    <3>3. (a \o b)[i] = b[i - Len(s)] /\ (s \o t)[i] = t[i - Len(s)]  BY <1>1, <1>4, <2>3
    <3> QED  BY <2>1, <3>2, <3>3
  <2> QED  BY <2>2, <2>3
<1>6. a \o b = c
  <2> HIDE DEF a, b, c
  <2> QED  BY <1>2, <1>3, <1>4, <1>5, SeqEqual
<1>7. FlattenSeq(a \o b) = FlattenSeq(a) \o FlattenSeq(b)
  <2> HIDE DEF a, b
  <2> QED  BY <1>2, FlattenConcat
<1> QED  BY <1>6, <1>7 DEF Sift

LEMMA SiftEmpty == \A F : Sift(<<>>, F) = <<>>
<1> TAKE F
<1>1. [i \in 1 .. Len(<<>>) |-> F[<<>>[i]]] = <<>>
  <2>1. 1 .. Len(<<>>) = {}  BY EmptySeq
  <2> QED  BY <2>1
<1> QED  BY <1>1, FlattenEmpty DEF Sift

LEMMA SiftOne ==
  ASSUME NEW S, NEW T, NEW F \in [S -> Seq(T)], NEW x \in S
  PROVE  Sift(<<x>>, F) = F[x]
<1>1. [i \in 1 .. Len(<<x>>) |-> F[<<x>>[i]]] = <<F[x]>>
  <2>1. Len(<<x>>) = 1 /\ <<x>>[1] = x  OBVIOUS
  <2> QED  BY <2>1
<1>2. F[x] \in Seq(T)  OBVIOUS
<1> QED  BY <1>1, <1>2, FlattenOne DEF Sift

(* The sums of a sequence determine what it flattens to.                   *)
LEMMA SumsFlatten ==
  ASSUME NEW T, NEW ss \in Seq(Seq(T)), NEW f, Sums(f, ss, T)
  PROVE  FlattenSeq(ss) = f[Len(ss)]
<1>1. PICK g : Sums(g, ss, T) /\ FlattenSeq(ss) = g[Len(ss)]  BY FlattenSums
<1>2. Len(ss) \in Nat /\ Len(ss) <= Len(ss)  OBVIOUS
<1> DEFINE n == Len(ss)
<1>3. n \in Nat /\ n <= Len(ss) /\ \A i \in 1 .. n : ss[i] = ss[i]  BY <1>2
<1>4. f[n] = g[n]
  <2> HIDE DEF n
  <2> QED  BY <1>1, <1>3, SumsAgree
<1> QED  BY <1>1, <1>4

(* Sifting what was flattened is flattening what was sifted.               *)
LEMMA SiftFlatten ==
  ASSUME NEW S, NEW T, NEW F \in [S -> Seq(T)], NEW ss \in Seq(Seq(S))
  PROVE  Sift(FlattenSeq(ss), F) = FlattenSeq([i \in 1 .. Len(ss) |-> Sift(ss[i], F)])
<1>1. PICK f : Sums(f, ss, S) /\ FlattenSeq(ss) = f[Len(ss)]  BY FlattenSums
<1> DEFINE n  == Len(ss)
           g  == [i \in 0 .. n |-> Sift(f[i], F)]
           tt == [i \in 1 .. n |-> Sift(ss[i], F)]
<1>2. n \in Nat /\ \A i \in 1 .. n : ss[i] \in Seq(S)  BY ElementOfSeq
<1>3. \A i \in 0 .. n : f[i] \in Seq(S)  BY <1>1 DEF Sums
<1>4. tt \in Seq(Seq(T)) /\ Len(tt) = n
  <2>1. \A i \in 1 .. n : Sift(ss[i], F) \in Seq(T)  BY <1>2, SiftType
  <2> QED  BY <1>2, <2>1
<1>5. g \in [0 .. n -> Seq(T)]
  <2>1. \A i \in 0 .. n : Sift(f[i], F) \in Seq(T)  BY <1>3, SiftType
  <2> QED  BY <2>1
<1>6. g[0] = <<>>
  <2>1. f[0] = <<>> /\ 0 \in 0 .. n  BY <1>1, <1>2 DEF Sums
  <2> QED  BY <2>1, SiftEmpty
<1>7. ASSUME NEW i \in 1 .. n PROVE g[i] = g[i - 1] \o tt[i]
  <2>1. i \in 0 .. n /\ i - 1 \in 0 .. n  BY <1>2
  <2>2. f[i] = f[i - 1] \o ss[i]  BY <1>1 DEF Sums
  <2>3. f[i - 1] \in Seq(S) /\ ss[i] \in Seq(S)  BY <1>2, <1>3, <2>1
  <2>4. Sift(f[i], F) = Sift(f[i - 1], F) \o Sift(ss[i], F)  BY <2>2, <2>3, SiftConcat
  <2> QED  BY <2>1, <2>4
<1>8. Sums(g, tt, T)
  <2> HIDE DEF g, tt
  <2> QED  BY <1>4, <1>5, <1>6, <1>7 DEF Sums
<1>9. FlattenSeq(tt) = g[n]
  <2> HIDE DEF g, tt, n
  <2> QED  BY <1>4, <1>8, SumsFlatten
<1>10. g[n] = Sift(FlattenSeq(ss), F)  BY <1>1, <1>2
<1> QED  BY <1>9, <1>10

-----------------------------------------------------------------------------
(* Messages, as an agent reads them.                                       *)
Reading    == [m \in Speech |-> Extracted(m)]
KnownNorms == [m \in Norms |-> Known(m)]

LEMMA ReadingType == Reading \in [Speech -> Seq(Norms)]
BY ExtractedType DEF Reading

LEMMA KnownType == KnownNorms \in [Norms -> Seq(Norms)]
<1>1. \A m \in Norms : Known(m) \in Seq(Norms)  BY DEF Known
<1> QED  BY <1>1 DEF KnownNorms

LEMMA ExtractIsSift ==
  ASSUME NEW s \in Seq(Speech)
  PROVE  ExtractMessages(s) = Sift(s, Reading)
<1>1. \A i \in 1 .. Len(s) : Reading[s[i]] = Extracted(s[i])
  <2> TAKE i \in 1 .. Len(s)
  <2>1. s[i] \in Speech  BY ElementOfSeq
  <2> QED  BY <2>1 DEF Reading
<1>2. [i \in 1 .. Len(s) |-> Reading[s[i]]] = [i \in 1 .. Len(s) |-> Extracted(s[i])]  BY <1>1
<1> QED  BY <1>2 DEF ExtractMessages, FlatMapped, Mapped, Sift

LEMMA KnownIsSift ==
  ASSUME NEW s \in Seq(Norms)
  PROVE  FlatMapped(s, Known) = Sift(s, KnownNorms)
<1>1. \A i \in 1 .. Len(s) : KnownNorms[s[i]] = Known(s[i])
  <2> TAKE i \in 1 .. Len(s)
  <2>1. s[i] \in Norms  BY ElementOfSeq
  <2> QED  BY <2>1 DEF KnownNorms
<1>2. [i \in 1 .. Len(s) |-> KnownNorms[s[i]]] = [i \in 1 .. Len(s) |-> Known(s[i])]  BY <1>1
<1> QED  BY <1>2 DEF FlatMapped, Mapped, Sift

LEMMA ExtractConcat ==
  ASSUME NEW s \in Seq(Speech), NEW t \in Seq(Speech)
  PROVE  ExtractMessages(s \o t) = ExtractMessages(s) \o ExtractMessages(t)
<1>1. s \o t \in Seq(Speech)  BY ConcatProperties
<1>2. /\ ExtractMessages(s \o t) = Sift(s \o t, Reading)
      /\ ExtractMessages(s) = Sift(s, Reading) /\ ExtractMessages(t) = Sift(t, Reading)
  BY <1>1, ExtractIsSift
<1>3. Sift(s \o t, Reading) = Sift(s, Reading) \o Sift(t, Reading)  BY SiftConcat, ReadingType
<1> QED  BY <1>2, <1>3

(* A message that is read the same once it has been stored, or is odd.     *)
Steady(m) == m.tag \in Odd \/ Extracted(ToLangChainMessage(m)) = Extracted(m)

LEMMA SpokenSteady == \A m \in Spoken : Steady(m)
BY DEF Steady, Odd

LEMMA StoredOne ==
  ASSUME NEW m \in Speech, Steady(m)
  PROVE  Sift(Extracted(ToLangChainMessage(m)), KnownNorms) = Sift(Extracted(m), KnownNorms)
<1>1. CASE m.tag \in Odd
  <2>1. ASSUME NEW n \in Speech, n.tag = m.tag PROVE Sift(Extracted(n), KnownNorms) = <<>>
    <3>1. CASE ~Readable(n)  BY <3>1, SiftEmpty DEF Extracted
    <3>2. CASE Readable(n)
      <4>1. Extracted(n) = <<NormalizeMessage(n)>> /\ NormalizeMessage(n).tag \in Odd
        BY <1>1, <2>1, <3>2 DEF Extracted, NormalizeMessage
      <4>2. NormalizeMessage(n) \in Norms
        <5>1. Extracted(n) \in Seq(Norms) /\ Len(Extracted(n)) = 1  BY <4>1, ExtractedType
        <5>2. Extracted(n)[1] \in Norms
          <6>1. 1 \in 1 .. Len(Extracted(n))  BY <5>1
          <6> QED  BY <5>1, <6>1, ElementOfSeq
        <5> QED  BY <4>1, <5>2
      <4>3. KnownNorms[NormalizeMessage(n)] = <<>>  BY <4>1, <4>2 DEF KnownNorms, Known
      <4> QED  BY <4>1, <4>2, <4>3, SiftOne, KnownType
    <3> QED  BY <3>1, <3>2
  <2>2. ToLangChainMessage(m) \in Speech /\ ToLangChainMessage(m).tag = m.tag
    BY StoredType DEF Speech, ToLangChainMessage
  <2> QED  BY <2>1, <2>2
<1>2. CASE m.tag \notin Odd  BY <1>2 DEF Steady
<1> QED  BY <1>1, <1>2

(* What is stored of steady messages says what they said.                  *)
LEMMA StoredSays ==
  ASSUME NEW s \in Seq(Speech), \A i \in 1 .. Len(s) : Steady(s[i])
  PROVE  Sift(ExtractMessages(Mapped(s, ToLangChainMessage)), KnownNorms)
            = Sift(ExtractMessages(s), KnownNorms)
<1> DEFINE t == Mapped(s, ToLangChainMessage)
           a == [i \in 1 .. Len(s) |-> Extracted(ToLangChainMessage(s[i]))]
           b == [i \in 1 .. Len(s) |-> Extracted(s[i])]
<1>1. \A i \in 1 .. Len(s) : s[i] \in Speech  BY ElementOfSeq
<1>2. t \in Seq(Speech) /\ Len(t) = Len(s) /\ \A i \in 1 .. Len(s) : t[i] = ToLangChainMessage(s[i])
  <2>1. t \in Seq(Messages)  BY StoredSeqType
  <2>2. t \in Seq(Speech)  BY <2>1, SpeechSeq
  <2> QED  BY <2>2 DEF Mapped
<1>3. a = Mapped(t, Extracted) /\ b = Mapped(s, Extracted)
  <2>1. b = Mapped(s, Extracted)  BY DEF Mapped
  <2> HIDE DEF t
  <2>2. a = Mapped(t, Extracted)  BY <1>2 DEF Mapped
  <2> QED  BY <2>1, <2>2
<1>4. a \in Seq(Seq(Norms)) /\ b \in Seq(Seq(Norms)) /\ Len(a) = Len(s) /\ Len(b) = Len(s)
  <2>1. \A i \in 1 .. Len(s) : Extracted(s[i]) \in Seq(Norms)  BY <1>1, ExtractedType
  <2>2. \A i \in 1 .. Len(s) : Extracted(ToLangChainMessage(s[i])) \in Seq(Norms)
    <3> TAKE i \in 1 .. Len(s)
    <3>1. ToLangChainMessage(s[i]) \in Speech  BY <1>1, StoredType DEF Speech
    <3> QED  BY <3>1, ExtractedType
  <2> QED  BY <2>1, <2>2
<1>5. [i \in 1 .. Len(a) |-> Sift(a[i], KnownNorms)] = [i \in 1 .. Len(b) |-> Sift(b[i], KnownNorms)]
  <2>1. \A i \in 1 .. Len(s) : Sift(a[i], KnownNorms) = Sift(b[i], KnownNorms)
    BY <1>1, StoredOne
  <2> HIDE DEF a, b
  <2> QED  BY <1>4, <2>1
<1> HIDE DEF a, b, t
<1>6. Sift(FlattenSeq(a), KnownNorms) = Sift(FlattenSeq(b), KnownNorms)
  BY <1>4, <1>5, SiftFlatten, KnownType
<1> QED  BY <1>3, <1>6 DEF ExtractMessages, FlatMapped, t

(* Every message of an answer is steady, and no two have one id: so it is  *)
(* with what agents answer, and the id that the runner gives to the reply  *)
(* changes nothing an agent reads.                                         *)
Apart(response) ==
    \A i, j \in 1 .. Len(response.messages) :
        i # j => response.messages[i].id # response.messages[j].id

Uttered(response) ==
    /\ \A i \in 1 .. Len(response.messages) : Steady(response.messages[i])
    /\ Apart(response)

UtterLine(l) == l.event = "final" => Uttered(l.data)

UtterInv ==
    /\ \A i \in 1 .. Len(sent) : UtterLine(sent[i])
    /\ answer # None => Uttered(answer)

RequestInv ==
    /\ Sift(ExtractMessages(values.messages), KnownNorms) = Sift(said, KnownNorms)
    /\ \A k \in returned : values.top[k] # None
    /\ pc \notin {"start", "type", "done", "failed"} => request = ComposeRequest(values, input)

LEMMA AgentKeeps ==
  ASSUME agent' = agent
  PROVE  /\ KnownNorms' = KnownNorms
         /\ \A m : Steady(m)' <=> Steady(m)
         /\ \A r : Uttered(r)' <=> Uttered(r)
         /\ \A l : UtterLine(l)' <=> UtterLine(l)
<1>1. Odd' = Odd  BY DEF Odd, Spoken
<1>2. KnownNorms' = KnownNorms  BY <1>1 DEF KnownNorms, Known
<1>3. \A m : Steady(m)' <=> Steady(m)  BY <1>1 DEF Steady
<1>4. \A r : Uttered(r)' <=> Uttered(r)  BY <1>3 DEF Uttered
<1>5. \A l : UtterLine(l)' <=> UtterLine(l)  BY <1>4 DEF UtterLine
<1> QED  BY <1>2, <1>3, <1>4, <1>5

LEMMA SpokenUttered == \A r \in Responses : Uttered(r)
<1> TAKE r \in Responses
<1>1. \A i \in 1 .. Len(r.messages) : r.messages[i] \in Spoken  BY DEF Spoken
<1>2. Apart(r)  BY AgentAssumption DEF Apart
<1> QED  BY <1>1, <1>2, SpokenSteady DEF Uttered

LEMMA ReceivedUttered == \A r \in Received : Uttered(r)
<1>1. ASSUME NEW r \in Responses, NEW cuts PROVE Uttered(Decoded(r, cuts))
  <2> DEFINE ms == r.messages
             d  == Decoded(r, cuts)
  <2>1. r \in Answers /\ Uttered(r)  BY <1>1, AgentAssumption, SpokenUttered
  <2>2. /\ Len(d.messages) = Len(ms)
        /\ \A i \in 1 .. Len(ms) : /\ d.messages[i] = DecodedMessage(ms[i], i, cuts)
                                  /\ ms[i] \in Replies
    BY <2>1, DecodedFacts
  <2>3. ASSUME NEW i \in 1 .. Len(ms)
        PROVE  /\ d.messages[i].tag = ms[i].tag /\ d.messages[i].role = ms[i].role
               /\ d.messages[i].type = ms[i].type /\ d.messages[i].content = ms[i].content
               /\ d.messages[i].id = ms[i].id
    <3>1. d.messages[i] = DecodedMessage(ms[i], i, cuts) /\ ms[i] \in Replies  BY <2>2
    <3> HIDE DEF d, ms
    <3> QED  BY <3>1 DEF DecodedMessage, Replies
  <2> HIDE DEF d
  <2>4. ASSUME NEW i \in 1 .. Len(ms) PROVE Steady(d.messages[i])
    <3>1. Steady(ms[i])  BY <2>1 DEF Uttered
    <3>2. ToLangChainMessage(d.messages[i]) = ToLangChainMessage(ms[i])
          /\ Extracted(d.messages[i]) = Extracted(ms[i])
      BY <2>3 DEF ToLangChainMessage, Extracted, Readable, Role, NormalizeMessage
    <3> QED  BY <2>3, <3>1, <3>2 DEF Steady
  <2>5. \A i, j \in 1 .. Len(ms) : i # j => d.messages[i].id # d.messages[j].id
    BY <2>1, <2>3 DEF Uttered, Apart
  <2> HIDE DEF ms
  <2>6. Uttered(d)  BY <2>2, <2>4, <2>5 DEF Uttered, Apart
  <2> QED  BY <2>6 DEF d
<1> QED  BY <1>1, SpokenUttered DEF Received

LEMMA SendingUttered ==
  ASSUME NEW r \in HandlerResponses
  PROVE  Uttered(Sending(r))
<1> DEFINE ms == r.messages
           l  == LastReply(ms)
<1>0. r \in Responses /\ \A i \in 1 .. Len(ms) : ms[i].id = "r" => i = l  BY DEF HandlerResponses
<1>1. r \in Answers /\ ms \in Seq(Replies)  BY <1>0, AgentAssumption DEF Answers
<1>2. \A i \in 1 .. Len(ms) : Steady(ms[i])  BY <1>0, SpokenUttered DEF Uttered
<1>a. \A i, j \in 1 .. Len(ms) : i # j => ms[i].id # ms[j].id
  BY <1>0, SpokenUttered DEF Uttered, Apart
<1>3. Sending(r).messages = Stamped(ms)  BY <1>1 DEF Sending, Answers
<1>4. CASE l = 0
  <2>1. Stamped(ms) = ms  BY <1>4 DEF Stamped
  <2> QED  BY <1>2, <1>3, <1>a, <2>1 DEF Uttered, Apart
<1>5. CASE l # 0
  <2>1. l \in 1 .. Len(ms)  BY <1>1, <1>5, LastReplyFacts
  <2> DEFINE m == [ms[l] EXCEPT !.id = "r"]
  <2>2. Stamped(ms) = [ms EXCEPT ![l] = m]  BY <1>5 DEF Stamped
  <2>3. ms[l] \in Replies /\ m \in Replies
    <3>1. ms[l] \in Replies  BY <1>1, <2>1, ElementOfSeq
    <3>2. "r" \in Ids  BY AgentAssumption DEF Ids
    <3> QED  BY <3>1, <3>2 DEF Replies
  <2>4. m.tag = ms[l].tag /\ m.role = ms[l].role /\ m.type = ms[l].type /\ m.content = ms[l].content
    BY <2>3 DEF Replies
  <2>r. m.id = "r"  BY <2>3 DEF Replies
  <2> HIDE DEF m
  <2>5. ToLangChainMessage(m) = ToLangChainMessage(ms[l]) /\ Extracted(m) = Extracted(ms[l])
    BY <2>4 DEF ToLangChainMessage, Extracted, Readable, Role, NormalizeMessage
  <2>6. Steady(m)  BY <1>2, <2>1, <2>4, <2>5 DEF Steady
  <2> HIDE DEF l, ms
  <2>7. /\ Len(Stamped(ms)) = Len(ms)
        /\ \A j \in 1 .. Len(ms) : Stamped(ms)[j] = IF j = l THEN m ELSE ms[j]
    BY <1>1, <2>1, <2>2, <2>3, ExceptSeq
  <2>8. \A j \in 1 .. Len(ms) : Steady(Stamped(ms)[j])  BY <1>2, <2>6, <2>7
  <2>9. \A i, j \in 1 .. Len(ms) : i # j => Stamped(ms)[i].id # Stamped(ms)[j].id
    BY <1>0, <1>a, <2>7, <2>r
  <2> QED  BY <1>3, <2>7, <2>8, <2>9 DEF Uttered, Apart
<1> QED  BY <1>4, <1>5

(* What an agent writes.                                                   *)
LEMMA AgentUtters ==
  ASSUME TypeInv, Agent
  PROVE  \E lines \in Seq(Lines) :
            sent' = sent \o lines /\ \A i \in 1 .. Len(lines) : UtterLine(lines[i])
<1>s. sent \in Seq(Lines)  BY DEF TypeInv, StreamType
<1>o. OwnIds \subseteq Ids /\ Scraps \subseteq Seq(Words) /\ Responses \subseteq Answers
  BY AgentAssumption DEF Ids
<1>1. ASSUME NEW l \in Lines, UtterLine(l), sent' = sent \o <<l>>
      PROVE  \E lines \in Seq(Lines) :
                sent' = sent \o lines /\ \A i \in 1 .. Len(lines) : UtterLine(lines[i])
  <2>1. <<l>> \in Seq(Lines) /\ \A i \in 1 .. Len(<<l>>) : UtterLine(<<l>>[i])  BY <1>1
  <2> QED  BY <1>1, <2>1
<1>2. CASE HandlerEmits
  <2>1. PICK id \in OwnIds, words \in Scraps :
           Writes(<<Token(id, words, "live")>>) \/ Writes(<<Replace(id, words)>>)
    BY <1>2 DEF HandlerEmits
  <2>2. Token(id, words, "live") \in Lines /\ Replace(id, words) \in Lines  BY <1>o, LineMade
  <2>3. UtterLine(Token(id, words, "live")) /\ UtterLine(Replace(id, words))
    BY DEF UtterLine, Token, Replace
  <2> QED  BY <1>1, <2>1, <2>2, <2>3 DEF Writes
<1>3. CASE HandlerReturns
  <2>1. PICK r \in HandlerResponses :
           Writes(Reconcile(r.messages) \o <<Final(Sending(r))>>)
    BY <1>3 DEF HandlerReturns, Sending
  <2>2. r \in Responses /\ r \in Answers  BY <1>o DEF HandlerResponses
  <2> DEFINE a == Reconcile(r.messages)
             b == <<Final(Sending(r))>>
  <2>3. a \in Seq(Lines) /\ b \in Seq(Lines) /\ a \o b \in Seq(Lines)
    BY <2>2, SendingType, ReconcileType, LineMade DEF Answers
  <2>4. \A i \in 1 .. Len(a) : UtterLine(a[i])
    <3>1. \/ a = <<>> \/ \E id, text : a = <<Replace(id, text)>> \/ \E src : a = <<Token(id, text, src)>>
      BY Zenon DEF Reconcile
    <3> HIDE DEF a
    <3>2. Len(<<>>) = 0  BY EmptySeq
    <3>3. \A id, text, src : UtterLine(Token(id, text, src)) /\ UtterLine(Replace(id, text))
      BY DEF UtterLine, Token, Replace
    <3> QED  BY <3>1, <3>2, <3>3
  <2>5. Len(b) = 1 /\ b[1] = Final(Sending(r)) /\ UtterLine(b[1])
    BY <2>1, SendingUttered DEF UtterLine, Final
  <2> HIDE DEF a, b
  <2>6. \A i \in 1 .. Len(a \o b) : UtterLine((a \o b)[i])
    <3> TAKE i \in 1 .. Len(a \o b)
    <3>1. Len(a \o b) = Len(a) + 1 /\ (a \o b)[i] = IF i <= Len(a) THEN a[i] ELSE b[i - Len(a)]
      <4>1. /\ Len(a \o b) = Len(a) + Len(b)
            /\ \A j \in 1 .. Len(a) + Len(b) : (a \o b)[j] = IF j <= Len(a) THEN a[j] ELSE b[j - Len(a)]
        BY <2>3, ConcatProperties
      <4> QED  BY <2>5, <4>1
    <3>2. Len(a) \in Nat /\ (i \in 1 .. Len(a) \/ i = Len(a) + 1)  BY <2>3, <3>1
    <3>3. CASE i \in 1 .. Len(a)  BY <2>4, <3>1, <3>3
    <3>4. CASE i = Len(a) + 1
      <4>1. ~(i <= Len(a)) /\ i - Len(a) = 1  BY <3>2, <3>4
      <4> QED  BY <2>5, <3>1, <4>1
    <3> QED  BY <3>2, <3>3, <3>4
  <2>7. sent' = sent \o (a \o b)  BY <2>1 DEF Writes, a, b
  <2> QED  BY <2>3, <2>6, <2>7
<1>4. CASE HandlerThrows
  <2>1. UtterLine(Plain("error")) /\ Plain("error") \in Lines /\ sent' = sent \o <<Plain("error")>>
    BY <1>4, LineMade DEF UtterLine, Plain, HandlerThrows, Writes
  <2> QED  BY <1>1, <2>1
<1>5. CASE OtherWrites
  <2>1. PICK l \in OtherLines : sent' = sent \o <<l>>  BY <1>5 DEF OtherWrites, Writes
  <2>2. l \in Lines  BY OtherLinesType
  <2>3. UtterLine(l)
    <3>1. CASE l \in {Final(response) : response \in Responses}
      BY <3>1, SpokenUttered DEF UtterLine, Final
    <3>2. CASE l.event # "final"  BY <3>2 DEF UtterLine
    <3> QED  BY <3>1, <3>2 DEF OtherLines, Plain, Token, Replace
  <2> QED  BY <1>1, <2>1, <2>2, <2>3
<1>6. CASE OtherEnds
  <2>1. CASE UNCHANGED sent
    <3>1. sent' = sent \o <<>> /\ <<>> \in Seq(Lines) /\ Len(<<>>) = 0
      BY <1>s, <2>1, ConcatEmptySeq, EmptySeq
    <3>2. \A i \in 1 .. Len(<<>>) : UtterLine(<<>>[i])  BY <3>1
    <3> QED  BY <3>1, <3>2, Zenon
  <2>2. ASSUME NEW response \in Responses, sent' = Append(sent, Final(response))
        PROVE  \E l \in Lines : UtterLine(l) /\ sent' = sent \o <<l>>
    <3>1. Final(response) \in Lines  BY <1>o, LineMade
    <3>2. UtterLine(Final(response))  BY SpokenUttered DEF UtterLine, Final
    <3>3. sent' = sent \o <<Final(response)>>  BY <1>s, <2>2, <3>1, AppendIsConcat
    <3> QED  BY <3>1, <3>2, <3>3
  <2> QED  BY <1>1, <1>6, <2>1, <2>2 DEF OtherEnds
<1> QED  BY <1>2, <1>3, <1>4, <1>5, <1>6 DEF Agent

(* A line that is read is one the agent wrote, or no line of a stream.     *)
LEMMA ParseUtters ==
  ASSUME TypeInv, UtterInv, NEW pieces
  PROVE  UtterLine(ParseLine(pieces))
<1>1. UtterLine(Plain("blank")) /\ UtterLine(Plain("noJson"))  BY DEF UtterLine, Plain
<1>2. CASE pieces[1].line \in 1 .. Len(sent)
  <2>1. UtterLine(sent[pieces[1].line])  BY <1>2 DEF UtterInv
  <2> QED  BY <1>1, <2>1 DEF ParseLine
<1>3. CASE pieces[1].line \notin 1 .. Len(sent)  BY <1>1, <1>3 DEF ParseLine
<1> QED  BY <1>2, <1>3

(* The agent and the client never change.                                  *)
LEMMA CallStays ==
  ASSUME [Next]_vars
  PROVE  agent' = agent /\ modes' = modes
BY DEF Next, vars, callVars, turnVars, BeginCall, Cli, CliSpawns, CliSpawnFails, CliWrites, CliExits,
   OutputReleased, CliTimer, CliClose, Transport, TimeoutFires, ConnectionLost, Breaks, CancelArrives,
   HttpRejects, HttpAnswers, BodyArrives, Judge, AcceptWhole, Accept, Fail, Agent, HandlerEmits,
   HandlerReturns, HandlerThrows, OtherWrites, OtherEnds, StaysWithAgent, Reader, ReadChunk, TakeLine,
   NoMoreLines, ReadDone, TypeReply

LEMMA UtterHolds ==
  ASSUME TypeInv, TypeInv', UtterInv, [Next]_vars
  PROVE  UtterInv'
<1>a. agent' = agent  BY CallStays
<1>1. SUFFICES ASSUME TRUE
               PROVE  /\ \A i \in 1 .. Len(sent') : UtterLine(sent'[i])
                      /\ answer' # None => Uttered(answer')
  BY <1>a, AgentKeeps DEF UtterInv
<1>2. CASE UNCHANGED <<sent, answer>>  BY <1>2 DEF UtterInv
<1>3. CASE BeginCall
  <2>1. sent' = <<>> /\ Len(<<>>) = 0 /\ answer' = None  BY <1>3, EmptySeq DEF BeginCall, FreshCall
  <2> QED  BY <2>1
<1>4. CASE Agent
  <2>1. PICK lines \in Seq(Lines) : sent' = sent \o lines /\ \A i \in 1 .. Len(lines) : UtterLine(lines[i])
    BY <1>4, AgentUtters
  <2>2. sent \in Seq(Lines) /\ Len(sent) \in Nat /\ Len(lines) \in Nat  BY DEF TypeInv, StreamType
  <2>3. ASSUME NEW i \in 1 .. Len(sent') PROVE UtterLine(sent'[i])
    <3>1. Len(sent') = Len(sent) + Len(lines) /\ sent'[i] = IF i <= Len(sent) THEN sent[i] ELSE lines[i - Len(sent)]
      BY <2>1, <2>2, ConcatProperties
    <3>2. CASE i <= Len(sent)
      <4>1. i \in 1 .. Len(sent)  BY <2>2, <3>1, <3>2
      <4> QED  BY <3>1, <3>2, <4>1 DEF UtterInv
    <3>3. CASE ~(i <= Len(sent))
      <4>1. i - Len(sent) \in 1 .. Len(lines)  BY <2>2, <3>1, <3>3
      <4> QED  BY <2>1, <3>1, <3>3, <4>1
    <3> QED  BY <3>2, <3>3
  <2>4. answer' = answer
    BY <1>4 DEF Agent, HandlerEmits, HandlerReturns, HandlerThrows, OtherWrites, OtherEnds,
       StaysWithAgent, replyVars
  <2> QED  BY <2>3, <2>4 DEF UtterInv
<1>5. CASE WholeStep
  <2>1. answer' \in Received /\ sent' = sent  BY <1>5 DEF WholeStep, AcceptWhole, Accept, agentVars
  <2> QED  BY <1>2, <2>1, ReceivedUttered DEF UtterInv
<1>6. CASE HandleStep
  <2>1. sent' = sent  BY <1>6 DEF HandleStep, agentVars
  <2>2. CASE UNCHANGED replyVars  BY <2>1, <2>2 DEF UtterInv, replyVars
  <2>3. ASSUME NEW nl, HandleEvent(Line(nl)) PROVE answer' # None => Uttered(answer')
    <3>1. UtterLine(Line(nl))  BY ParseUtters DEF Line
    <3> QED  BY <2>3, <3>1 DEF HandleEvent, UtterLine, UtterInv
  <2> QED  BY <1>6, <2>1, <2>2, <2>3 DEF HandleStep, UtterInv
<1>7. CASE AcceptStep
  <2> DEFINE tail == ParseLine(buffer)
             last == IF tail.event = "final" THEN tail.data ELSE answer
  <2>1. sent' = sent /\ answer' = last  BY <1>7 DEF AcceptStep, agentVars, Accept
  <2>2. UtterLine(tail)  BY ParseUtters
  <2> HIDE DEF tail
  <2> QED  BY <2>1, <2>2 DEF UtterLine, UtterInv
<1>8. CASE ChildStep \/ FailStep \/ HostStep \/ OpenStep \/ ReadChunk \/ NoMoreLines \/ TypeReply
  BY <1>2, <1>8 DEF ChildStep, FailStep, HostStep, OpenStep, ReadChunk, NoMoreLines, TypeReply,
     agentVars, replyVars
<1>9. CASE UNCHANGED vars  BY <1>2, <1>9 DEF vars, agentVars, replyVars
<1> QED  BY <1>3, <1>4, <1>5, <1>6, <1>7, <1>8, <1>9, StepCases

(* A turn that is stored adds the same to what is read as to what was said. *)
LEMMA AcceptSays ==
  ASSUME TypeInv, RequestInv, NEW response \in Answers, Uttered(response), NEW step,
         Accept(response, step), pc # "start"
  PROVE  /\ Sift(ExtractMessages(values'.messages), KnownNorms) = Sift(said', KnownNorms)
         /\ \A k \in returned' : values'.top[k] # None
<1>1. /\ values \in [messages : Seq(Messages), top : Tops] /\ said \in Seq(Norms)
      /\ returned \in SUBSET Channels /\ input \in agent.inputs /\ input \in Inputs
  BY AgentAssumption DEF TypeInv, CallType
<1> DEFINE old == values.messages
           in  == input.messages
           out == response.messages
           sin == Mapped(in, ToLangChainMessage)
           sout == Mapped(out, ToLangChainMessage)
           K(s) == Sift(s, KnownNorms)
           X(s) == ExtractMessages(s)
<1>2. old \in Seq(Speech) /\ in \in Seq(Speech) /\ out \in Seq(Speech)
  BY <1>1, SpeechSeq DEF Inputs, Answers
<1>3. sin \in Seq(Speech) /\ sout \in Seq(Speech)  BY <1>2, StoredSeqType, SpeechSeq
<1>4. K(X(sin)) = K(X(in)) /\ K(X(sout)) = K(X(out))
  <2>1. \A i \in 1 .. Len(in) : in[i] \in Spoken  BY <1>1 DEF Spoken
  <2>2. \A i \in 1 .. Len(in) : Steady(in[i])  BY <2>1, SpokenSteady
  <2>3. \A i \in 1 .. Len(out) : Steady(out[i])  BY DEF Uttered
  <2> QED  BY <1>2, <2>2, <2>3, StoredSays
<1>5. values'.messages = (old \o sin) \o sout  BY <1>1 DEF Accept, UpdateThreadState
<1>6. said' = (said \o X(in)) \o X(out)  BY DEF Accept
<1> HIDE DEF old, in, out, sin, sout
<1>7. X((old \o sin) \o sout) = (X(old) \o X(sin)) \o X(sout)
  <2>1. old \o sin \in Seq(Speech)  BY <1>2, <1>3, ConcatProperties
  <2>2. X(old \o sin) = X(old) \o X(sin)  BY <1>2, <1>3, ExtractConcat
  <2>3. X((old \o sin) \o sout) = X(old \o sin) \o X(sout)  BY <1>3, <2>1, ExtractConcat
  <2> QED  BY <2>2, <2>3
<1>8. /\ X(old) \in Seq(Norms) /\ X(sin) \in Seq(Norms) /\ X(sout) \in Seq(Norms)
      /\ X(in) \in Seq(Norms) /\ X(out) \in Seq(Norms)
  BY <1>2, <1>3, ExtractMessagesType
<1> HIDE DEF X
<1>9. ASSUME NEW a \in Seq(Norms), NEW b \in Seq(Norms), NEW c \in Seq(Norms)
      PROVE  K((a \o b) \o c) = (K(a) \o K(b)) \o K(c)
  <2>1. a \o b \in Seq(Norms)  BY <1>9, ConcatProperties
  <2>2. Sift(a \o b, KnownNorms) = Sift(a, KnownNorms) \o Sift(b, KnownNorms)
    BY <1>9, SiftConcat, KnownType
  <2>3. Sift((a \o b) \o c, KnownNorms) = Sift(a \o b, KnownNorms) \o Sift(c, KnownNorms)
    BY <1>9, <2>1, SiftConcat, KnownType
  <2> QED  BY <2>2, <2>3
<1>10. K(X(old)) = K(said)  BY DEF RequestInv, X, old
<1> HIDE DEF K
<1>11. K((X(old) \o X(sin)) \o X(sout)) = (K(X(old)) \o K(X(sin))) \o K(X(sout))  BY <1>8, <1>9
<1>12. K((said \o X(in)) \o X(out)) = (K(said) \o K(X(in))) \o K(X(out))  BY <1>1, <1>8, <1>9
<1>13. K(X((old \o sin) \o sout)) = K((said \o X(in)) \o X(out))  BY <1>4, <1>7, <1>10, <1>11, <1>12
<1>14. Sift(ExtractMessages(values'.messages), KnownNorms) = Sift(said', KnownNorms)
  BY <1>5, <1>6, <1>13 DEF K, X
<1>15. ASSUME NEW k \in returned' PROVE values'.top[k] # None
  <2>1. values'.top = IF response.state = None THEN values.top ELSE ReduceChannels(values.top, response.state)
    BY DEF Accept, UpdateThreadState
  <2>2. CASE response.state = None
    BY <1>15, <2>1, <2>2 DEF Accept, RequestInv
  <2>3. CASE response.state # None
    <3>1. k \in returned \/ (k \in Channels /\ response.state[k] # None)  BY <1>15, <2>3 DEF Accept
    <3>2. k \in Keys  BY <1>1, <3>1 DEF Keys
    <3>3. values'.top[k] = IF response.state[k] # None THEN response.state[k] ELSE values.top[k]
      BY <2>1, <2>3, <3>2 DEF ReduceChannels
    <3> QED  BY <3>1, <3>3 DEF RequestInv
  <2> QED  BY <2>2, <2>3
<1> QED  BY <1>14, <1>15

LEMMA RequestHolds ==
  ASSUME TypeInv, UtterInv, UtterInv', RequestInv, [Next]_vars
  PROVE  RequestInv'
<1>a. KnownNorms' = KnownNorms  BY CallStays, AgentKeeps
<1>1. SUFFICES ASSUME TRUE
               PROVE  /\ Sift(ExtractMessages(values'.messages), KnownNorms) = Sift(said', KnownNorms)
                      /\ \A k \in returned' : values'.top[k] # None
                      /\ pc' \notin {"start", "type", "done", "failed"} => request' = ComposeRequest(values', input')
  BY <1>a DEF RequestInv, Sift, ExtractMessages, FlatMapped, Mapped
<1>2. CASE UNCHANGED turnVars /\ (pc' \in {"type", "done", "failed"} \/ pc \notin {"start", "type", "done", "failed"})
  BY <1>2 DEF RequestInv, turnVars
<1>3. CASE BeginCall
  BY <1>3 DEF BeginCall, RequestInv
<1>4. CASE WholeStep
  <2>1. PICK response \in Received : AcceptWhole(response)  BY <1>4 DEF WholeStep
  <2>2. /\ response \in Answers /\ Uttered(response) /\ pc # "start"
        /\ Accept(response, IF way = "events" THEN "type" ELSE "done")
    BY <1>4, <2>1, ReceivedAnswers, ReceivedUttered DEF WholeStep, AcceptWhole
  <2>3. pc' \in {"type", "done"}  BY <2>2 DEF Accept
  <2> QED  BY <2>2, <2>3, AcceptSays
<1>5. CASE AcceptStep
  <2> DEFINE tail == ParseLine(buffer)
             last == IF tail.event = "final" THEN tail.data ELSE answer
  <2>1. Accept(last, "type") /\ last # None /\ pc = "read"  BY <1>5 DEF AcceptStep
  <2>2. last \in Answers
    <3>1. tail.event = "final" => tail.data \in Answers  BY ParseType, LineFacts
    <3>2. answer \in Answers \union {None}  BY DEF TypeInv, OutcomeType
    <3> HIDE DEF tail
    <3> QED  BY <2>1, <3>1, <3>2
  <2>3. Uttered(last)
    <3>1. UtterLine(tail)  BY ParseUtters
    <3> HIDE DEF tail
    <3> QED  BY <2>1, <3>1 DEF UtterLine, UtterInv
  <2> HIDE DEF last
  <2>4. pc' = "type"  BY <2>1 DEF Accept
  <2> QED  BY <2>1, <2>2, <2>3, <2>4, AcceptSays
<1>6. CASE Agent
  BY <1>2, <1>6 DEF Agent, HandlerEmits, HandlerReturns, HandlerThrows, OtherWrites, OtherEnds,
     StaysWithAgent, Open
<1>7. CASE ChildStep \/ FailStep \/ HostStep \/ OpenStep \/ ReadChunk \/ HandleStep \/ NoMoreLines \/ TypeReply
  BY <1>2, <1>7 DEF ChildStep, FailStep, HostStep, OpenStep, ReadChunk, HandleStep, NoMoreLines, TypeReply, Waiting
<1>8. CASE UNCHANGED vars
  BY <1>8 DEF RequestInv, vars, turnVars
<1> QED  BY <1>3, <1>4, <1>5, <1>6, <1>7, <1>8, StepCases

LEMMA RequestSuffices ==
  ASSUME TypeInv, RequestInv
  PROVE  RequestComplete
<1>1. SUFFICES ASSUME pc \notin {"start", "type", "done", "failed"}
               PROVE  /\ FlatMapped(request.messages, Known)
                            = FlatMapped(said \o ExtractMessages(input.messages), Known)
                      /\ request.state["documents"] = None
                      /\ \A k \in returned : request.state[k] # None
  BY DEF RequestComplete
<1>2. /\ values \in [messages : Seq(Messages), top : Tops] /\ said \in Seq(Norms)
      /\ returned \in SUBSET Channels /\ input \in Inputs
  BY <1>1, AgentAssumption DEF TypeInv, CallType
<1>3. request = ComposeRequest(values, input)  BY <1>1 DEF RequestInv
<1> DEFINE old == ExtractMessages(values.messages)
           in  == ExtractMessages(input.messages)
<1>4. old \in Seq(Norms) /\ in \in Seq(Norms)
  BY <1>2, SpeechSeq, ExtractMessagesType DEF Inputs
<1>5. request.messages = old \o in  BY <1>3 DEF ComposeRequest
<1>6. Sift(old, KnownNorms) = Sift(said, KnownNorms)  BY DEF RequestInv
<1> HIDE DEF old, in
<1>7. FlatMapped(old \o in, Known) = FlatMapped(said \o in, Known)
  <2>1. old \o in \in Seq(Norms) /\ said \o in \in Seq(Norms)  BY <1>2, <1>4, ConcatProperties
  <2>2. /\ FlatMapped(old \o in, Known) = Sift(old \o in, KnownNorms)
        /\ FlatMapped(said \o in, Known) = Sift(said \o in, KnownNorms)
    BY <2>1, KnownIsSift
  <2>3. Sift(old \o in, KnownNorms) = Sift(old, KnownNorms) \o Sift(in, KnownNorms)
    BY <1>4, SiftConcat, KnownType
  <2>4. Sift(said \o in, KnownNorms) = Sift(said, KnownNorms) \o Sift(in, KnownNorms)
    BY <1>2, <1>4, SiftConcat, KnownType
  <2> QED  BY <1>6, <2>2, <2>3, <2>4
<1>8. FlatMapped(request.messages, Known) = FlatMapped(said \o ExtractMessages(input.messages), Known)
  BY <1>5, <1>7 DEF in
<1>9. request.state = ExtractState(input, values)  BY <1>3 DEF ComposeRequest
<1>10. values.top \in Tops /\ input.top \in Tops  BY <1>2 DEF Inputs
<1>11. request.state["documents"] = None
  BY <1>9, <1>10 DEF ExtractState, ReduceChannels, StripReservedChannels, Tops, Keys
<1>12. ASSUME NEW k \in returned PROVE request.state[k] # None
  <2>1. values.top[k] # None  BY DEF RequestInv
  <2>2. k \in Keys /\ k # "documents"  BY <1>2, <1>12, ChannelsAssumption DEF Keys
  <2> QED  BY <1>9, <1>10, <2>1, <2>2 DEF ExtractState, ReduceChannels, StripReservedChannels, Tops
<1> QED  BY <1>8, <1>11, <1>12

LEMMA RequestInvariant == Spec => [](TypeInv /\ UtterInv /\ RequestInv)
<1>1. Init => UtterInv /\ RequestInv
  <2> SUFFICES ASSUME Init PROVE UtterInv /\ RequestInv  OBVIOUS
  <2>1. Len(<<>>) = 0  BY EmptySeq
  <2>2. UtterInv  BY <2>1 DEF Init, UtterInv
  <2>3. ExtractMessages(<<>>) = <<>>
    <3>1. <<>> \in Seq(Speech)  BY EmptySeq
    <3> QED  BY <3>1, ExtractIsSift, SiftEmpty
  <2>4. RequestInv  BY <2>3 DEF Init, RequestInv, EmptyValues
  <2> QED  BY <2>2, <2>4
<1>2. TypeInv /\ TypeInv' /\ UtterInv /\ RequestInv /\ [Next]_vars => UtterInv' /\ RequestInv'
  BY UtterHolds, RequestHolds
<1> QED  BY <1>1, <1>2, TypeInvariant, PTL DEF Spec

(* What an agent is told on a thread, call after call, is all that was     *)
(* said there so far and then the input, in order and once, whatever the   *)
(* agents answered before, whether those calls went well or failed; and    *)
(* every channel an agent has ever returned, but no document.              *)
THEOREM RequestCompleteCorrect == Spec => []RequestComplete
<1>1. TypeInv /\ UtterInv /\ RequestInv => RequestComplete  BY RequestSuffices
<1> QED  BY <1>1, RequestInvariant, PTL

-----------------------------------------------------------------------------
(***************************************************************************)
(* Lines on the wire.                                                      *)
(***************************************************************************)
(* A sequence cut in two.                                                  *)
LEMMA CutSeq ==
  ASSUME NEW S, NEW s \in Seq(S), NEW k \in 0 .. Len(s)
  PROVE  /\ SubSeq(s, 1, k) \in Seq(S) /\ Len(SubSeq(s, 1, k)) = k
         /\ SubSeq(s, k + 1, Len(s)) \in Seq(S) /\ Len(SubSeq(s, k + 1, Len(s))) = Len(s) - k
         /\ \A i \in 1 .. k : SubSeq(s, 1, k)[i] = s[i]
         /\ \A i \in 1 .. Len(s) - k : SubSeq(s, k + 1, Len(s))[i] = s[k + i]
         /\ SubSeq(s, 1, k) \o SubSeq(s, k + 1, Len(s)) = s
<1>1. Len(s) \in Nat /\ \A i \in 1 .. Len(s) : s[i] \in S  BY ElementOfSeq
<1>2. (\A i \in 1 .. k : s[i] \in S) /\ (\A i \in k + 1 .. Len(s) : s[i] \in S)  BY <1>1
<1> DEFINE a == SubSeq(s, 1, k)
           b == SubSeq(s, k + 1, Len(s))
<1>3. a \in Seq(S) /\ Len(a) = k /\ \A i \in 1 .. k : a[i] = s[i]
  <2>1. /\ a \in Seq(S) /\ Len(a) = IF 1 <= k THEN k - 1 + 1 ELSE 0
        /\ \A i \in 1 .. k - 1 + 1 : a[i] = s[1 + i - 1]
    BY <1>1, <1>2, SubSeqProperties
  <2> HIDE DEF a
  <2> QED  BY <1>1, <2>1
<1>4. b \in Seq(S) /\ Len(b) = Len(s) - k /\ \A i \in 1 .. Len(s) - k : b[i] = s[k + i]
  <2>1. /\ b \in Seq(S) /\ Len(b) = IF k + 1 <= Len(s) THEN Len(s) - (k + 1) + 1 ELSE 0
        /\ \A i \in 1 .. Len(s) - (k + 1) + 1 : b[i] = s[(k + 1) + i - 1]
    BY <1>1, <1>2, SubSeqProperties
  <2> HIDE DEF b
  <2>2. Len(b) = Len(s) - k  BY <1>1, <2>1
  <2>3. ASSUME NEW i \in 1 .. Len(s) - k PROVE b[i] = s[k + i]
    <3>1. i \in 1 .. Len(s) - (k + 1) + 1 /\ (k + 1) + i - 1 = k + i  BY <1>1
    <3> QED  BY <2>1, <3>1
  <2> QED  BY <2>1, <2>2, <2>3
<1> HIDE DEF a, b
<1>5. /\ a \o b \in Seq(S) /\ Len(a \o b) = Len(s)
      /\ \A i \in 1 .. Len(s) : (a \o b)[i] = IF i <= k THEN a[i] ELSE b[i - k]
  <2>1. /\ a \o b \in Seq(S) /\ Len(a \o b) = Len(a) + Len(b)
        /\ \A i \in 1 .. Len(a) + Len(b) : (a \o b)[i] = IF i <= Len(a) THEN a[i] ELSE b[i - Len(a)]
    BY <1>3, <1>4, ConcatProperties
  <2>2. Len(a) + Len(b) = Len(s)  BY <1>1, <1>3, <1>4
  <2> QED  BY <1>3, <2>1, <2>2
<1>6. ASSUME NEW i \in 1 .. Len(s) PROVE (a \o b)[i] = s[i]
  <2>1. CASE i <= k
    <3>1. i \in 1 .. k  BY <2>1
    <3> QED  BY <1>3, <1>5, <2>1, <3>1
  <2>2. CASE ~(i <= k)
    <3>1. i - k \in 1 .. Len(s) - k /\ k + (i - k) = i  BY <1>1, <2>2
    <3> QED  BY <1>4, <1>5, <2>2, <3>1
  <2> QED  BY <2>1, <2>2
<1>7. a \o b = s  BY <1>5, <1>6, SeqEqual
<1> QED  BY <1>3, <1>4, <1>7 DEF a, b

(* Named, for the provers to instantiate.                                  *)
Assoc(a, b, c) == (a \o b) \o c = a \o (b \o c)

LEMMA Associates ==
  ASSUME NEW S, NEW a \in Seq(S), NEW b \in Seq(S), NEW c \in Seq(S)
  PROVE  Assoc(a, b, c)
BY ConcatAssociative DEF Assoc

Cancels(h, t, w, r) == (h \o t) \o w = h \o r => t \o w = r

LEMMA CancelFirst ==
  ASSUME NEW S, NEW h \in Seq(S), NEW t \in Seq(S), NEW w \in Seq(S), NEW r \in Seq(S)
  PROVE  Cancels(h, t, w, r)
<1>1. (h \o t) \o w = h \o (t \o w)
  <2>1. Assoc(h, t, w)  BY Associates
  <2> QED  BY <2>1 DEF Assoc
<1>2. t \o w \in Seq(S)  BY ConcatProperties
<1>3. h \o (t \o w) = h \o r => t \o w = r
  <2> DEFINE v == t \o w
  <2>1. v \in Seq(S)  BY <1>2
  <2> HIDE DEF v
  <2>2. h \o v = h \o r => v = r  BY <2>1, ConcatSimplifications
  <2> QED  BY <2>2 DEF v
<1> QED  BY <1>1, <1>3, Zenon DEF Cancels

(* The first e of b, when b begins what p closes with its only e.          *)
Splits(b, w, p, r, e, n) ==
    /\ b \o w = p \o r /\ p # <<>> /\ p[Len(p)] = e
    /\ \A i \in 1 .. Len(p) - 1 : p[i] # e
    /\ b[n] = e /\ \A j \in 1 .. Len(b) : b[j] = e => n <= j

LEMMA SplitFirst ==
  ASSUME NEW S, NEW b \in Seq(S), NEW w \in Seq(S), NEW p \in Seq(S), NEW r \in Seq(S), NEW e,
         NEW n \in 1 .. Len(b), Splits(b, w, p, r, e, n)
  PROVE  /\ n = Len(p) /\ SubSeq(b, 1, n) = p
         /\ \A i \in 1 .. n - 1 : SubSeq(b, 1, n - 1)[i] = p[i]
         /\ SubSeq(b, n + 1, Len(b)) \o w = r
<1>1. /\ Len(b) \in Nat /\ Len(w) \in Nat /\ Len(p) \in Nat /\ Len(p) # 0 /\ Len(r) \in Nat
  BY EmptySeq DEF Splits
<1>2. Len(b) + Len(w) = Len(p) + Len(r)
  <2>1. Len(b \o w) = Len(b) + Len(w) /\ Len(p \o r) = Len(p) + Len(r)  BY ConcatProperties
  <2> QED  BY <2>1 DEF Splits
<1>3. /\ \A i \in 1 .. Len(b) : (b \o w)[i] = b[i]
      /\ \A i \in 1 .. Len(p) : (b \o w)[i] = p[i]
  <2>1. /\ \A i \in 1 .. Len(b) + Len(w) : (b \o w)[i] = IF i <= Len(b) THEN b[i] ELSE w[i - Len(b)]
        /\ \A i \in 1 .. Len(p) + Len(r) : (p \o r)[i] = IF i <= Len(p) THEN p[i] ELSE r[i - Len(p)]
    BY ConcatProperties
  <2>2. \A i \in 1 .. Len(b) : (b \o w)[i] = b[i]
    <3> TAKE i \in 1 .. Len(b)
    <3>1. i \in 1 .. Len(b) + Len(w) /\ i <= Len(b)  BY <1>1
    <3> QED  BY <2>1, <3>1
  <2>3. \A i \in 1 .. Len(p) : (p \o r)[i] = p[i]
    <3> TAKE i \in 1 .. Len(p)
    <3>1. i \in 1 .. Len(p) + Len(r) /\ i <= Len(p)  BY <1>1
    <3> QED  BY <2>1, <3>1
  <2> QED  BY <2>2, <2>3 DEF Splits
<1>4. n = Len(p)
  <2>1. CASE n < Len(p)
    <3>1. n \in 1 .. Len(p) - 1 /\ n \in 1 .. Len(p)  BY <1>1, <2>1
    <3>2. p[n] = b[n]  BY <1>3, <3>1
    <3> QED  BY <3>1, <3>2 DEF Splits
  <2>2. CASE Len(p) < n
    <3>1. Len(p) \in 1 .. Len(b) /\ Len(p) \in 1 .. Len(p) /\ ~(n <= Len(p))  BY <1>1, <2>2
    <3>2. b[Len(p)] = p[Len(p)]  BY <1>3, <3>1
    <3> QED  BY <3>1, <3>2 DEF Splits
  <2> QED  BY <1>1, <2>1, <2>2
<1>c. n \in 0 .. Len(b) /\ n - 1 \in 0 .. Len(b)  BY <1>1
<1> DEFINE h == SubSeq(b, 1, n)
           t == SubSeq(b, n + 1, Len(b))
<1>5. h \in Seq(S) /\ Len(h) = n /\ t \in Seq(S) /\ h \o t = b /\ \A i \in 1 .. n : h[i] = b[i]
  BY <1>c, CutSeq
<1> HIDE DEF h, t
<1>6. h = p
  <2>1. \A i \in 1 .. n : h[i] = p[i]
    <3> TAKE i \in 1 .. n
    <3>1. i \in 1 .. Len(b) /\ i \in 1 .. Len(p)  BY <1>1, <1>4
    <3> QED  BY <1>3, <1>5, <3>1
  <2> QED  BY <1>4, <1>5, <2>1, SeqEqual
<1>7. t \o w = r
  <2>1. (h \o t) \o w = h \o r  BY <1>5, <1>6 DEF Splits
  <2>2. h \in Seq(S) /\ t \in Seq(S)  BY <1>5
  <2>3. Cancels(h, t, w, r)  BY <2>2, CancelFirst
  <2> QED  BY <2>1, <2>3, Zenon DEF Cancels
<1>8. \A i \in 1 .. n - 1 : SubSeq(b, 1, n - 1)[i] = p[i]
  <2> TAKE i \in 1 .. n - 1
  <2>1. i \in 1 .. n /\ i \in 1 .. Len(p)  BY <1>1, <1>4
  <2>2. SubSeq(b, 1, n - 1)[i] = b[i]  BY <1>c, CutSeq
  <2> QED  BY <1>5, <1>6, <2>1, <2>2
<1> QED  BY <1>4, <1>6, <1>7, <1>8 DEF h, t

(* The pieces of lines in a row.                                           *)
LEMMA PiecesConcat ==
  ASSUME NEW a \in Seq(Lines), NEW b \in Seq(Lines), NEW n \in Nat
  PROVE  Pieces(a \o b, n) = Pieces(a, n) \o Pieces(b, n + Len(a))
<1> DEFINE P(l, m) == [i \in 1..Len(l) |-> LinePieces(l[i], m + i)]
<1>1. /\ a \o b \in Seq(Lines) /\ Len(a \o b) = Len(a) + Len(b) /\ Len(a) \in Nat /\ Len(b) \in Nat
      /\ \A i \in 1 .. Len(a) + Len(b) : (a \o b)[i] = IF i <= Len(a) THEN a[i] ELSE b[i - Len(a)]
  BY ConcatProperties
<1>2. n + Len(a) \in Nat  BY <1>1
<1>3. /\ P(a, n) \in Seq(Seq(WirePieces)) /\ P(b, n + Len(a)) \in Seq(Seq(WirePieces))
      /\ P(a \o b, n) \in Seq(Seq(WirePieces))
  BY <1>1, <1>2, PieceLinesType
<1>4. Len(P(a, n)) = Len(a) /\ Len(P(b, n + Len(a))) = Len(b) /\ Len(P(a \o b, n)) = Len(a) + Len(b)
  BY <1>1
<1> DEFINE x == P(a, n)
           y == P(b, n + Len(a))
           z == P(a \o b, n)
<1>5. /\ x \o y \in Seq(Seq(WirePieces)) /\ Len(x \o y) = Len(a) + Len(b)
      /\ \A i \in 1 .. Len(a) + Len(b) : (x \o y)[i] = IF i <= Len(a) THEN x[i] ELSE y[i - Len(a)]
  <2> HIDE DEF x, y
  <2>1. /\ x \o y \in Seq(Seq(WirePieces)) /\ Len(x \o y) = Len(x) + Len(y)
        /\ \A i \in 1 .. Len(x) + Len(y) : (x \o y)[i] = IF i <= Len(x) THEN x[i] ELSE y[i - Len(x)]
    BY <1>3, ConcatProperties DEF x, y
  <2> QED  BY <1>4, <2>1 DEF x, y
<1>6. ASSUME NEW i \in 1 .. Len(a) + Len(b) PROVE (x \o y)[i] = z[i]
  <2>1. z[i] = LinePieces((a \o b)[i], n + i)  BY <1>1
  <2>2. CASE i <= Len(a)
    <3>1. i \in 1 .. Len(a)  BY <1>1, <2>2
    <3>2. x[i] = LinePieces(a[i], n + i)  BY <3>1
    <3> QED  BY <1>1, <1>5, <2>1, <2>2, <3>2
  <2>3. CASE ~(i <= Len(a))
    <3>1. i - Len(a) \in 1 .. Len(b) /\ (n + Len(a)) + (i - Len(a)) = n + i  BY <1>1, <2>3
    <3>2. y[i - Len(a)] = LinePieces(b[i - Len(a)], n + i)  BY <3>1
    <3>3. (x \o y)[i] = y[i - Len(a)] /\ (a \o b)[i] = b[i - Len(a)]  BY <1>1, <1>5, <2>3
    <3> QED  BY <2>1, <3>2, <3>3
  <2> QED  BY <2>2, <2>3
<1>7. x \o y = z
  <2>1. z \in Seq(Seq(WirePieces)) /\ Len(z) = Len(a) + Len(b)  BY <1>3, <1>4
  <2> HIDE DEF x, y, z
  <2> QED  BY <1>5, <1>6, <2>1, SeqEqual
<1>8. FlattenSeq(x \o y) = FlattenSeq(x) \o FlattenSeq(y)
  <2>1. x \in Seq(Seq(WirePieces)) /\ y \in Seq(Seq(WirePieces))  BY <1>3
  <2> HIDE DEF x, y
  <2> QED  BY <2>1, FlattenConcat
<1>9. FlattenSeq(z) = FlattenSeq(x) \o FlattenSeq(y)
  <2> HIDE DEF x, y, z
  <2> QED  BY <1>7, <1>8
<1> QED  BY <1>9 DEF Pieces

LEMMA PiecesOne ==
  ASSUME NEW l \in Lines, NEW n \in Nat
  PROVE  Pieces(<<l>>, n) = LinePieces(l, n + 1)
<1>1. [i \in 1..Len(<<l>>) |-> LinePieces(<<l>>[i], n + i)] = <<LinePieces(l, n + 1)>>
  <2>1. Len(<<l>>) = 1 /\ <<l>>[1] = l  OBVIOUS
  <2> QED  BY <2>1
<1>2. LinePieces(l, n + 1) \in Seq(WirePieces)
  <2>1. n + 1 \in Nat  OBVIOUS
  <2> QED  BY <2>1, LinePiecesType
<1> QED  BY <1>1, <1>2, FlattenOne DEF Pieces

LEMMA PiecesNone == \A n : Pieces(<<>>, n) = <<>>
<1> TAKE n
<1>1. [i \in 1..Len(<<>>) |-> LinePieces(<<>>[i], n + i)] = <<>>
  <2>1. 1 .. Len(<<>>) = {}  BY EmptySeq
  <2> QED  BY <2>1
<1> QED  BY <1>1, FlattenEmpty DEF Pieces

(* A line ends with the only line end it has.                              *)
LEMMA LinePiecesFacts ==
  ASSUME NEW l, NEW n \in Nat
  PROVE  /\ LinePieces(l, n) # <<>>
         /\ LinePieces(l, n)[Len(LinePieces(l, n))] = NL
         /\ \A i \in 1 .. Len(LinePieces(l, n)) - 1 : LinePieces(l, n)[i] # NL
         /\ l.event = "blank" => LinePieces(l, n) = <<NL>> /\ Len(LinePieces(l, n)) = 1
         /\ l.event # "blank" => /\ Len(LinePieces(l, n)) = 3
                                 /\ LinePieces(l, n)[1] = Halves(n)[1]
                                 /\ LinePieces(l, n)[2] = Halves(n)[2]
<1>1. NL \in WirePieces /\ Halves(n) \in Seq(WirePieces) /\ <<NL>> \in Seq(WirePieces)
  BY LinePiecesType
<1>2. CASE l.event = "blank"
  <2>1. LinePieces(l, n) = <<NL>>
    <3>1. <<>> \o <<NL>> = <<NL>>  BY <1>1, ConcatEmptySeq
    <3> QED  BY <1>2, <3>1 DEF LinePieces
  <2>2. Len(<<NL>>) = 1 /\ <<NL>>[1] = NL /\ <<NL>> # <<>>  OBVIOUS
  <2> QED  BY <1>2, <2>1, <2>2
<1>3. CASE l.event # "blank"
  <2> DEFINE h == Halves(n)
  <2>1. /\ h \in Seq(WirePieces) /\ Len(h) = 2 /\ h[1] = [line |-> n, half |-> 1]
        /\ h[2] = [line |-> n, half |-> 2]
    BY <1>1 DEF Halves
  <2>2. LinePieces(l, n) = h \o <<NL>>  BY <1>3 DEF LinePieces
  <2>3. h[1] # NL /\ h[2] # NL  BY <2>1 DEF NL
  <2> HIDE DEF h
  <2>4. Len(<<NL>>) = 1 /\ <<NL>>[1] = NL  OBVIOUS
  <2>5. /\ Len(h \o <<NL>>) = 3 /\ (h \o <<NL>>)[1] = h[1] /\ (h \o <<NL>>)[2] = h[2]
        /\ (h \o <<NL>>)[3] = NL
    <3>1. /\ Len(h \o <<NL>>) = Len(h) + Len(<<NL>>)
          /\ \A i \in 1 .. Len(h) + Len(<<NL>>) :
                (h \o <<NL>>)[i] = IF i <= Len(h) THEN h[i] ELSE <<NL>>[i - Len(h)]
      BY <1>1, <2>1, ConcatProperties
    <3> QED  BY <2>1, <2>4, <3>1
  <2>6. \A i \in 1 .. 3 - 1 : i = 1 \/ i = 2  OBVIOUS
  <2>7. h \o <<NL>> # <<>>  BY <2>5, EmptySeq
  <2> QED  BY <1>3, <2>2, <2>3, <2>5, <2>6, <2>7 DEF h
<1> QED  BY <1>2, <1>3

(***************************************************************************)
(* What has been read of what an agent wrote.                              *)
(***************************************************************************)
Events == [l \in Lines |-> EventOf(l)]

LEMMA EventsType == Events \in [Lines -> Seq(Lines)]
<1>1. \A l \in Lines : EventOf(l) \in Seq(Lines)  BY DEF EventOf
<1> QED  BY <1>1 DEF Events

LEMMA SentIsSift ==
  ASSUME TypeInv
  PROVE  SentEvents = Sift(sent, Events)
<1>1. sent \in Seq(Lines)  BY DEF TypeInv, StreamType
<1>2. \A i \in 1 .. Len(sent) : Events[sent[i]] = EventOf(sent[i])
  <2> TAKE i \in 1 .. Len(sent)
  <2>1. sent[i] \in Lines  BY <1>1, ElementOfSeq
  <2> QED  BY <2>1 DEF Events
<1>3. [i \in 1 .. Len(sent) |-> Events[sent[i]]] = [i \in 1 .. Len(sent) |-> EventOf(sent[i])]  BY <1>2
<1> QED  BY <1>3 DEF SentEvents, FlatMapped, Mapped, Sift

(* The pieces of the lines of s after the first k.                         *)
Left(s, k) == Pieces(SubSeq(s, k + 1, Len(s)), k)

LEMMA LeftType ==
  ASSUME NEW s \in Seq(Lines), NEW k \in 0 .. Len(s)
  PROVE  Left(s, k) \in Seq(WirePieces)
<1>1. SubSeq(s, k + 1, Len(s)) \in Seq(Lines) /\ k \in Nat  BY CutSeq
<1> QED  BY <1>1, PieceLinesType DEF Left

LEMMA LeftNone ==
  ASSUME NEW s \in Seq(Lines)
  PROVE  Left(s, Len(s)) = <<>> /\ SubSeq(s, 1, Len(s)) = s
<1>1. Len(s) \in 0 .. Len(s) /\ Len(s) \in Nat  OBVIOUS
<1> DEFINE a == SubSeq(s, 1, Len(s))
           b == SubSeq(s, Len(s) + 1, Len(s))
<1>2. a \in Seq(Lines) /\ b \in Seq(Lines) /\ Len(b) = Len(s) - Len(s) /\ a \o b = s  BY <1>1, CutSeq
<1>d. Left(s, Len(s)) = Pieces(b, Len(s))  BY DEF Left
<1> HIDE DEF a, b
<1>3. b = <<>>  BY <1>1, <1>2, EmptySeq
<1>4. a \o <<>> = a  BY <1>2, ConcatEmptySeq
<1>5. a = s  BY <1>2, <1>3, <1>4
<1>6. Left(s, Len(s)) = <<>>  BY <1>d, <1>3, PiecesNone
<1> QED  BY <1>5, <1>6 DEF a

(* The next line of s.                                                     *)
LEMMA NextLine ==
  ASSUME NEW s \in Seq(Lines), NEW k \in 0 .. Len(s), k # Len(s)
  PROVE  /\ k + 1 \in 0 .. Len(s) /\ k + 1 \in 1 .. Len(s) /\ s[k + 1] \in Lines
         /\ Left(s, k) = LinePieces(s[k + 1], k + 1) \o Left(s, k + 1)
         /\ Sift(SubSeq(s, 1, k + 1), Events) = Sift(SubSeq(s, 1, k), Events) \o Events[s[k + 1]]
<1>1. /\ Len(s) \in Nat /\ k \in Nat /\ k + 1 \in 0 .. Len(s) /\ k + 1 \in 1 .. Len(s)
      /\ k + 1 \in Nat /\ s[k + 1] \in Lines
  <2>1. Len(s) \in Nat  OBVIOUS
  <2>2. k \in Nat /\ k + 1 \in 0 .. Len(s) /\ k + 1 \in 1 .. Len(s) /\ k + 1 \in Nat  BY <2>1
  <2> QED  BY <2>1, <2>2, ElementOfSeq
<1> DEFINE a == SubSeq(s, 1, k)
           b == SubSeq(s, k + 1, Len(s))
           c == SubSeq(s, 1, k + 1)
           d == SubSeq(s, k + 1 + 1, Len(s))
           l == s[k + 1]
<1>2. /\ a \in Seq(Lines) /\ Len(a) = k /\ b \in Seq(Lines) /\ Len(b) = Len(s) - k
      /\ \A i \in 1 .. k : a[i] = s[i]
      /\ \A i \in 1 .. Len(s) - k : b[i] = s[k + i]
  BY CutSeq
<1>3. /\ c \in Seq(Lines) /\ Len(c) = k + 1 /\ d \in Seq(Lines) /\ Len(d) = Len(s) - (k + 1)
      /\ \A i \in 1 .. k + 1 : c[i] = s[i]
      /\ \A i \in 1 .. Len(s) - (k + 1) : d[i] = s[(k + 1) + i]
  BY <1>1, CutSeq
<1>d. Left(s, k) = Pieces(b, k) /\ Left(s, k + 1) = Pieces(d, k + 1)  BY DEF Left
<1>l. l \in Lines /\ <<l>> \in Seq(Lines) /\ Len(<<l>>) = 1 /\ <<l>>[1] = l  BY <1>1
<1> HIDE DEF a, b, c, d, l
<1>4. c = a \o <<l>>
  <2>1. /\ a \o <<l>> \in Seq(Lines) /\ Len(a \o <<l>>) = Len(a) + Len(<<l>>)
        /\ \A i \in 1 .. Len(a) + Len(<<l>>) :
              (a \o <<l>>)[i] = IF i <= Len(a) THEN a[i] ELSE <<l>>[i - Len(a)]
    BY <1>2, <1>l, ConcatProperties
  <2>2. Len(a \o <<l>>) = k + 1  BY <1>1, <1>2, <1>l, <2>1
  <2>3. \A i \in 1 .. k + 1 : c[i] = (a \o <<l>>)[i]
    <3> TAKE i \in 1 .. k + 1
    <3>1. CASE i \in 1 .. k
      <4>1. i \in 1 .. Len(a) + Len(<<l>>) /\ i <= Len(a)  BY <1>1, <1>2, <1>l, <3>1
      <4> QED  BY <1>2, <1>3, <2>1, <3>1, <4>1
    <3>2. CASE i = k + 1
      <4>1. i \in 1 .. Len(a) + Len(<<l>>) /\ ~(i <= Len(a)) /\ i - Len(a) = 1  BY <1>1, <1>2, <1>l, <3>2
      <4>2. (a \o <<l>>)[i] = <<l>>[1]  BY <2>1, <4>1
      <4> QED  BY <1>3, <1>l, <3>2, <4>2 DEF l
    <3>3. i \in 1 .. k \/ i = k + 1  BY <1>1
    <3> QED  BY <3>1, <3>2, <3>3
  <2> QED  BY <1>3, <2>1, <2>2, <2>3, SeqEqual
<1>5. b = <<l>> \o d
  <2>1. /\ <<l>> \o d \in Seq(Lines) /\ Len(<<l>> \o d) = Len(<<l>>) + Len(d)
        /\ \A i \in 1 .. Len(<<l>>) + Len(d) :
              (<<l>> \o d)[i] = IF i <= Len(<<l>>) THEN <<l>>[i] ELSE d[i - Len(<<l>>)]
    BY <1>3, <1>l, ConcatProperties
  <2>2. Len(<<l>> \o d) = Len(s) - k  BY <1>1, <1>3, <1>l, <2>1
  <2>3. \A i \in 1 .. Len(s) - k : b[i] = (<<l>> \o d)[i]
    <3> TAKE i \in 1 .. Len(s) - k
    <3>0. i \in 1 .. Len(<<l>>) + Len(d)  BY <1>1, <1>3, <1>l
    <3>1. CASE i = 1
      <4>1. i <= Len(<<l>>) /\ b[i] = s[k + 1]  BY <1>2, <1>l, <3>1
      <4> QED  BY <1>l, <2>1, <3>0, <3>1, <4>1 DEF l
    <3>2. CASE i # 1
      <4>1. ~(i <= Len(<<l>>)) /\ i - Len(<<l>>) = i - 1 /\ i - 1 \in 1 .. Len(s) - (k + 1)
            /\ (k + 1) + (i - 1) = k + i
        BY <1>1, <1>l, <3>2
      <4>2. d[i - 1] = s[k + i]  BY <1>3, <4>1
      <4> QED  BY <1>2, <2>1, <3>0, <4>1, <4>2
    <3> QED  BY <3>1, <3>2
  <2> QED  BY <1>2, <2>1, <2>2, <2>3, SeqEqual
<1>6. Pieces(b, k) = LinePieces(l, k + 1) \o Pieces(d, k + 1)
  <2>1. Pieces(<<l>> \o d, k) = Pieces(<<l>>, k) \o Pieces(d, k + Len(<<l>>))
    BY <1>1, <1>3, <1>l, PiecesConcat
  <2>2. Pieces(<<l>>, k) = LinePieces(l, k + 1)  BY <1>1, <1>l, PiecesOne
  <2> QED  BY <1>5, <1>l, <2>1, <2>2
<1>7. Sift(c, Events) = Sift(a, Events) \o Events[l]
  <2>1. Sift(a \o <<l>>, Events) = Sift(a, Events) \o Sift(<<l>>, Events)
    BY <1>2, <1>l, SiftConcat, EventsType
  <2>2. Sift(<<l>>, Events) = Events[l]  BY <1>l, SiftOne, EventsType
  <2> QED  BY <1>4, <2>1, <2>2
<1> QED  BY <1>1, <1>d, <1>6, <1>7 DEF a, c, l

(* Lines that are written are added to what is left.                       *)
LEMMA MoreLines ==
  ASSUME NEW s \in Seq(Lines), NEW ls \in Seq(Lines), NEW k \in 0 .. Len(s)
  PROVE  /\ SubSeq(s \o ls, 1, k) = SubSeq(s, 1, k) /\ k \in 0 .. Len(s \o ls)
         /\ Left(s \o ls, k) = Left(s, k) \o Pieces(ls, Len(s))
<1>1. /\ s \o ls \in Seq(Lines) /\ Len(s \o ls) = Len(s) + Len(ls) /\ Len(s) \in Nat /\ Len(ls) \in Nat
      /\ \A i \in 1 .. Len(s) + Len(ls) : (s \o ls)[i] = IF i <= Len(s) THEN s[i] ELSE ls[i - Len(s)]
  BY ConcatProperties
<1> DEFINE t == s \o ls
<1>k. k \in Nat /\ k \in 0 .. Len(t)  BY <1>1
<1> DEFINE a == SubSeq(s, 1, k)
           b == SubSeq(s, k + 1, Len(s))
           c == SubSeq(t, 1, k)
           d == SubSeq(t, k + 1, Len(t))
<1>2. /\ a \in Seq(Lines) /\ Len(a) = k /\ b \in Seq(Lines) /\ Len(b) = Len(s) - k
      /\ \A i \in 1 .. k : a[i] = s[i]
      /\ \A i \in 1 .. Len(s) - k : b[i] = s[k + i]
  BY CutSeq
<1>t. t \in Seq(Lines) /\ Len(t) = Len(s) + Len(ls)
      /\ \A i \in 1 .. Len(s) + Len(ls) : t[i] = IF i <= Len(s) THEN s[i] ELSE ls[i - Len(s)]
  BY <1>1
<1>d. Left(s, k) = Pieces(b, k) /\ Left(t, k) = Pieces(d, k)  BY DEF Left
<1>3. /\ c \in Seq(Lines) /\ Len(c) = k /\ d \in Seq(Lines) /\ Len(d) = Len(t) - k
      /\ \A i \in 1 .. k : c[i] = t[i]
      /\ \A i \in 1 .. Len(t) - k : d[i] = t[k + i]
  <2> HIDE DEF t
  <2> QED  BY <1>k, <1>t, CutSeq
<1> HIDE DEF a, b, c, d, t
<1>4. c = a
  <2>1. \A i \in 1 .. k : c[i] = a[i]
    <3> TAKE i \in 1 .. k
    <3>1. i \in 1 .. Len(s) + Len(ls) /\ i <= Len(s)  BY <1>1, <1>k
    <3> QED  BY <1>2, <1>3, <1>t, <3>1
  <2> QED  BY <1>2, <1>3, <2>1, SeqEqual
<1>5. d = b \o ls
  <2>1. /\ b \o ls \in Seq(Lines) /\ Len(b \o ls) = Len(b) + Len(ls)
        /\ \A i \in 1 .. Len(b) + Len(ls) : (b \o ls)[i] = IF i <= Len(b) THEN b[i] ELSE ls[i - Len(b)]
    BY <1>2, ConcatProperties
  <2>2. Len(b \o ls) = Len(d)  BY <1>1, <1>2, <1>3, <1>t, <1>k, <2>1
  <2>3. \A i \in 1 .. Len(d) : d[i] = (b \o ls)[i]
    <3> TAKE i \in 1 .. Len(d)
    <3>0. /\ i \in 1 .. Len(b) + Len(ls) /\ k + i \in 1 .. Len(s) + Len(ls)
          /\ i \in 1 .. Len(t) - k
      BY <1>1, <1>2, <1>3, <1>t, <1>k
    <3>1. d[i] = t[k + i]  BY <1>3, <3>0
    <3>2. CASE i <= Len(b)
      <4>1. k + i <= Len(s) /\ i \in 1 .. Len(s) - k  BY <1>1, <1>2, <1>k, <3>2
      <4> QED  BY <1>2, <1>t, <2>1, <3>0, <3>1, <3>2, <4>1
    <3>3. CASE ~(i <= Len(b))
      <4>1. ~(k + i <= Len(s)) /\ (k + i) - Len(s) = i - Len(b)  BY <1>1, <1>2, <1>k, <3>3
      <4> QED  BY <1>t, <2>1, <3>0, <3>1, <3>3, <4>1
    <3> QED  BY <3>2, <3>3
  <2> QED  BY <1>3, <2>1, <2>2, <2>3, SeqEqual
<1>6. Pieces(b \o ls, k) = Pieces(b, k) \o Pieces(ls, Len(s))
  <2>1. Pieces(b \o ls, k) = Pieces(b, k) \o Pieces(ls, k + Len(b))  BY <1>2, <1>k, PiecesConcat
  <2>2. k + Len(b) = Len(s)  BY <1>1, <1>2, <1>k
  <2> QED  BY <2>1, <2>2
<1> QED  BY <1>k, <1>d, <1>4, <1>5, <1>6 DEF a, c, t

Streaming == make \in {"template", "other"}

(* The first k lines have been handled.                                    *)
Taken(k) == seen = Sift(SubSeq(sent, 1, k), Events)

(* The others are in the buffer and on the wire, but for the last line end *)
(* an agent may leave out.                                                 *)
Under(k, tail) ==
    /\ (buffer \o wire) \o tail = Left(sent, k)
    /\ tail # <<>> => ended /\ sent # <<>> /\ sent[Len(sent)].event = "final"

ReadTo(k) ==
    /\ Taken(k)
    /\ pc \notin {"type", "done", "failed"} => Under(k, <<>>) \/ Under(k, <<NL>>)
    /\ pc \in {"type", "done"} => k = Len(sent) /\ ended

WireInv ==
    /\ Streaming => \E k \in 0 .. Len(sent) : ReadTo(k)
    /\ pc \in {"fetch", "read"} => \A i \in 1 .. Len(buffer) : buffer[i] # NL
    /\ pc \in {"exec", "body"} => ~Streaming

(* The cases of Under, as one.                                             *)
LEMMA UnderPick ==
  ASSUME NEW k, Under(k, <<>>) \/ Under(k, <<NL>>)
  PROVE  \E tail \in {<<>>, <<NL>>} : Under(k, tail)
OBVIOUS

LEMMA NothingSent ==
  /\ Sift(SubSeq(<<>>, 1, 0), Events) = <<>> /\ (<<>> \o <<>>) \o <<>> = Left(<<>>, 0)
  /\ 0 \in 0 .. Len(<<>>) /\ \A i \in 1 .. Len(<<>>) : FALSE
<1>1. <<>> \in Seq(Lines) /\ <<>> \in Seq(WirePieces) /\ Len(<<>>) = 0  BY EmptySeq
<1>2. Left(<<>>, 0) = <<>> /\ SubSeq(<<>>, 1, 0) = <<>>  BY <1>1, LeftNone
<1>3. (<<>> \o <<>>) \o <<>> = <<>>  BY <1>1, ConcatEmptySeq
<1>4. Sift(<<>>, Events) = <<>>  BY SiftEmpty
<1>5. 0 \in 0 .. Len(<<>>) /\ 1 .. Len(<<>>) = {}  BY <1>1
<1> QED  BY <1>2, <1>3, <1>4, <1>5

(* Lines that are written in full.                                         *)
LEMMA WriteReads ==
  ASSUME TypeInv, NEW ls \in Seq(Lines), Writes(ls), ~ended, NEW k \in 0 .. Len(sent),
         Taken(k), Under(k, <<>>), buffer' = buffer, seen' = seen
  PROVE  Taken(k)' /\ Under(k, <<>>)' /\ k \in 0 .. Len(sent')
<1>1. sent \in Seq(Lines) /\ wire \in Seq(WirePieces) /\ buffer \in Seq(WirePieces) /\ Len(sent) \in Nat
  BY DEF TypeInv, StreamType
<1> DEFINE p == Pieces(ls, Len(sent))
<1>2. p \in Seq(WirePieces)  BY <1>1, PieceLinesType
<1>3. sent' = sent \o ls /\ wire' = wire \o p  BY DEF Writes
<1> HIDE DEF p
<1>4. /\ SubSeq(sent', 1, k) = SubSeq(sent, 1, k) /\ k \in 0 .. Len(sent')
      /\ Left(sent', k) = Left(sent, k) \o p
  BY <1>1, <1>3, MoreLines DEF p
<1>5. (buffer' \o wire') \o <<>> = Left(sent', k)
  <2>1. buffer \o wire \in Seq(WirePieces) /\ wire' \in Seq(WirePieces)  BY <1>1, <1>2, <1>3, ConcatProperties
  <2>2. (buffer \o wire) \o <<>> = buffer \o wire  BY <2>1, ConcatEmptySeq
  <2>3. buffer \o wire = Left(sent, k)  BY <2>2 DEF Under
  <2>a. Assoc(buffer, wire, p)  BY <1>1, <1>2, Associates
  <2>4. (buffer \o wire) \o p = buffer \o (wire \o p)  BY <2>a DEF Assoc
  <2>5. buffer' \o wire' = Left(sent', k)  BY <1>3, <1>4, <2>3, <2>4
  <2>6. buffer' \o wire' \in Seq(WirePieces)  BY <1>1, <2>1, ConcatProperties
  <2>7. (buffer' \o wire') \o <<>> = buffer' \o wire'  BY <2>6, ConcatEmptySeq
  <2> QED  BY <2>5, <2>7
<1>6. Under(k, <<>>)'  BY <1>5 DEF Under
<1>7. Taken(k)'  BY <1>4 DEF Taken
<1> QED  BY <1>4, <1>6, <1>7

(* A last line without its line end.                                       *)
LEMMA EndReads ==
  ASSUME TypeInv, NEW response \in Answers, ~ended, ended' = TRUE, NEW k \in 0 .. Len(sent),
         sent' = Append(sent, Final(response)), wire' = wire \o Halves(Len(sent) + 1),
         Taken(k), Under(k, <<>>), buffer' = buffer, seen' = seen
  PROVE  Taken(k)' /\ Under(k, <<NL>>)' /\ k \in 0 .. Len(sent')
<1>1. sent \in Seq(Lines) /\ wire \in Seq(WirePieces) /\ buffer \in Seq(WirePieces) /\ Len(sent) \in Nat
  BY DEF TypeInv, StreamType
<1> DEFINE l  == Final(response)
           ls == <<l>>
           n  == Len(sent) + 1
           h  == Halves(n)
           nl == <<NL>>
<1>2. l \in Lines /\ ls \in Seq(Lines) /\ l.event = "final"  BY LineMade DEF Final
<1>n. n \in Nat  BY <1>1
<1>3. h \in Seq(WirePieces) /\ nl \in Seq(WirePieces)
  <2>1. NL \in WirePieces  BY DEF NL, WirePieces
  <2>2. h \in Seq(WirePieces)
    <3> HIDE DEF n
    <3> QED  BY <1>n, LinePiecesType
  <2> QED  BY <2>1, <2>2
<1>4. Pieces(ls, Len(sent)) = h \o nl
  <2>1. Pieces(ls, Len(sent)) = LinePieces(l, n)
    <3> HIDE DEF l
    <3> QED  BY <1>1, <1>2, PiecesOne
  <2>2. LinePieces(l, n) = h \o nl  BY <1>2 DEF LinePieces
  <2> QED  BY <2>1, <2>2
<1>5. sent' = sent \o ls
  <2>1. sent' = Append(sent, l)  OBVIOUS
  <2> HIDE DEF l
  <2>2. Append(sent, l) = sent \o <<l>>  BY <1>1, <1>2, AppendIsConcat
  <2> QED  BY <2>1, <2>2
<1>6. wire' = wire \o h  OBVIOUS
<1>s. Len(ls) = 1 /\ ls[1] = l  OBVIOUS
<1> HIDE DEF ls, h, nl, n
<1>7. /\ SubSeq(sent', 1, k) = SubSeq(sent, 1, k) /\ k \in 0 .. Len(sent')
      /\ Left(sent', k) = Left(sent, k) \o (h \o nl)
  BY <1>1, <1>2, <1>4, <1>5, MoreLines
<1>8. (buffer' \o wire') \o nl = Left(sent', k)
  <2>0. /\ buffer \o wire \in Seq(WirePieces) /\ wire' \in Seq(WirePieces)
    BY <1>1, <1>3, <1>6, ConcatProperties
  <2>2. (buffer \o wire) \o <<>> = buffer \o wire  BY <2>0, ConcatEmptySeq
  <2>3. buffer \o wire = Left(sent, k)  BY <2>2 DEF Under
  <2>a. Assoc(buffer, wire, h)  BY <1>1, <1>3, Associates
  <2>4. (buffer \o wire) \o h = buffer \o (wire \o h)  BY <2>a DEF Assoc
  <2>b. Assoc(buffer \o wire, h, nl)  BY <1>3, <2>0, Associates
  <2>5. ((buffer \o wire) \o h) \o nl = (buffer \o wire) \o (h \o nl)  BY <2>b DEF Assoc
  <2> QED  BY <1>6, <1>7, <2>3, <2>4, <2>5
<1>9. sent' # <<>> /\ sent'[Len(sent')].event = "final"
  <2>1. Len(sent') = Len(sent) + 1 /\ sent'[Len(sent) + 1] = Final(response)
    BY <1>1, <1>2, AppendProperties DEF l
  <2> QED  BY <1>1, <1>2, <2>1, EmptySeq DEF l
<1>10. Under(k, <<NL>>)'  BY <1>8, <1>9 DEF Under, nl
<1>11. Taken(k)'  BY <1>7 DEF Taken
<1> QED  BY <1>7, <1>10, <1>11

(* A chunk.                                                                *)
LEMMA ChunkReads ==
  ASSUME TypeInv, ReadChunk, NEW k \in 0 .. Len(sent), NEW tail \in {<<>>, <<NL>>},
         Taken(k), Under(k, tail)
  PROVE  Taken(k)' /\ Under(k, tail)' /\ k \in 0 .. Len(sent') /\ pc' = "lines"
<1>1. PICK n \in 1..Len(wire) :
         /\ buffer' = Buffered(SubSeq(wire, 1, n))
         /\ wire' = SubSeq(wire, n + 1, Len(wire))
  BY DEF ReadChunk
<1>2. /\ pc' = "lines" /\ UNCHANGED <<sent, ended, seen>>  BY DEF ReadChunk, replyVars
<1>3. wire \in Seq(WirePieces) /\ buffer \in Seq(WirePieces) /\ Len(wire) \in Nat
  BY DEF TypeInv, StreamType
<1> DEFINE a == SubSeq(wire, 1, n)
           b == SubSeq(wire, n + 1, Len(wire))
<1>n. n \in 0 .. Len(wire)  BY <1>3
<1>4. a \in Seq(WirePieces) /\ b \in Seq(WirePieces) /\ a \o b = wire  BY <1>3, <1>n, CutSeq
<1>5. buffer' = buffer \o a /\ wire' = b  BY <1>1 DEF Buffered
<1> HIDE DEF a, b
<1>6. buffer' \o wire' = buffer \o wire
  <2>a. Assoc(buffer, a, b)  BY <1>3, <1>4, Associates
  <2>1. (buffer \o a) \o b = buffer \o (a \o b)  BY <2>a DEF Assoc
  <2> QED  BY <1>4, <1>5, <2>1
<1>7. Under(k, tail)'  BY <1>2, <1>6 DEF Under
<1>8. Taken(k)'  BY <1>2 DEF Taken
<1> QED  BY <1>2, <1>7, <1>8

(* The first line in what has been read is the next the agent wrote.       *)
LEMMA FirstLine ==
  ASSUME TypeInv, NEW k \in 0 .. Len(sent), NEW b \in Seq(WirePieces), NEW w \in Seq(WirePieces),
         b \o w = Left(sent, k), NEW n \in 1 .. Len(b), b[n] = NL,
         \A j \in 1 .. Len(b) : b[j] = NL => n <= j
  PROVE  /\ k # Len(sent)
         /\ ParseLine(SubSeq(b, 1, n - 1)) = sent[k + 1]
         /\ SubSeq(b, n + 1, Len(b)) \o w = Left(sent, k + 1)
<1>1. sent \in Seq(Lines) /\ Len(sent) \in Nat /\ Len(b) \in Nat /\ Len(w) \in Nat /\ k \in Nat
  BY DEF TypeInv, StreamType
<1>2. k # Len(sent)
  <2>1. SUFFICES ASSUME k = Len(sent) PROVE FALSE  OBVIOUS
  <2>2. b \o w = <<>>  BY <1>1, <2>1, LeftNone
  <2>3. Len(b \o w) = Len(b) + Len(w) /\ Len(<<>>) = 0  BY ConcatProperties, EmptySeq
  <2> QED  BY <1>1, <2>2, <2>3
<1> DEFINE l == sent[k + 1]
           m == k + 1
           p == LinePieces(l, m)
           r == Left(sent, m)
<1>3. m \in Nat /\ m \in 1 .. Len(sent) /\ l \in Lines /\ Left(sent, k) = p \o r /\ r \in Seq(WirePieces)
  <2>1. /\ m \in 0 .. Len(sent) /\ m \in 1 .. Len(sent) /\ l \in Lines
        /\ Left(sent, k) = p \o r
    BY <1>1, <1>2, NextLine
  <2>2. m \in Nat  BY <1>1
  <2> HIDE DEF m
  <2>3. r \in Seq(WirePieces)  BY <1>1, <2>1, LeftType
  <2> QED  BY <2>1, <2>2, <2>3
<1>4. p \in Seq(WirePieces) /\ Halves(m) \in Seq(WirePieces)
  <2> HIDE DEF m, l
  <2> QED  BY <1>3, LinePiecesType
<1>5. /\ p # <<>> /\ p[Len(p)] = NL /\ \A i \in 1 .. Len(p) - 1 : p[i] # NL
      /\ l.event = "blank" => Len(p) = 1
      /\ l.event # "blank" => /\ Len(p) = 3 /\ p[1] = Halves(m)[1] /\ p[2] = Halves(m)[2]
  <2> HIDE DEF m, l
  <2> QED  BY <1>3, LinePiecesFacts
<1> HIDE DEF p, r
<1>6. Splits(b, w, p, r, NL, n)  BY <1>3, <1>5 DEF Splits
<1>7. /\ n = Len(p) /\ \A i \in 1 .. n - 1 : SubSeq(b, 1, n - 1)[i] = p[i]
      /\ SubSeq(b, n + 1, Len(b)) \o w = r
  BY <1>3, <1>4, <1>6, SplitFirst
<1> DEFINE q == SubSeq(b, 1, n - 1)
<1>8. q \in Seq(WirePieces) /\ Len(q) = n - 1
  <2>1. n - 1 \in 0 .. Len(b)  BY <1>1
  <2> QED  BY <2>1, CutSeq
<1>9. \A i \in 1 .. n - 1 : q[i] = p[i]  BY <1>7
<1> HIDE DEF q
<1>10. ParseLine(q) = l
  <2>1. CASE l.event = "blank"
    <3>1. Len(q) = 0  BY <1>5, <1>7, <1>8, <2>1
    <3>2. q = <<>>  BY <1>8, <3>1, EmptySeq
    <3>3. l = Plain("blank")  BY <1>3, <2>1, LineFacts
    <3> QED  BY <3>2, <3>3 DEF ParseLine
  <2>2. CASE l.event # "blank"
    <3>1. Len(q) = 2 /\ n = 3  BY <1>5, <1>7, <1>8, <2>2
    <3>2. q[1] = Halves(m)[1] /\ q[2] = Halves(m)[2]
      <4>1. 1 \in 1 .. n - 1 /\ 2 \in 1 .. n - 1  BY <3>1
      <4> QED  BY <1>5, <1>9, <2>2, <4>1
    <3>3. Len(Halves(m)) = 2 /\ Halves(m)[1].line = m  BY DEF Halves
    <3>4. q = Halves(m)
      <4>1. \A i \in 1 .. 2 : q[i] = Halves(m)[i]  BY <3>2
      <4> QED  BY <1>4, <1>8, <3>1, <3>3, <4>1, SeqEqual
    <3>5. q # <<>>
      <4>1. Len(<<>>) = 0 /\ 2 # 0  BY EmptySeq
      <4> QED  BY <3>1, <4>1, Zenon
    <3>6. q[1].line = m  BY <3>2, <3>3
    <3> QED  BY <1>3, <3>4, <3>5, <3>6 DEF ParseLine
  <2> QED  BY <2>1, <2>2
<1> QED  BY <1>2, <1>7, <1>10 DEF q, r

LEMMA LineTaken ==
  ASSUME TypeInv, NEW k \in 0 .. Len(sent), NEW tail \in {<<>>, <<NL>>}, Under(k, tail),
         NEW nl \in 1 .. Len(buffer), FirstEnd(nl)
  PROVE  /\ k # Len(sent) /\ Line(nl) = sent[k + 1]
         /\ (SubSeq(buffer, nl + 1, Len(buffer)) \o wire) \o tail = Left(sent, k + 1)
<1>1. buffer \in Seq(WirePieces) /\ wire \in Seq(WirePieces) /\ Len(buffer) \in Nat
  BY DEF TypeInv, StreamType
<1>2. tail \in Seq(WirePieces)
  <2>1. <<>> \in Seq(WirePieces)  BY EmptySeq
  <2>2. <<NL>> \in Seq(WirePieces)
    <3>1. NL \in WirePieces  BY DEF NL, WirePieces
    <3> QED  BY <3>1
  <2> QED  BY <2>1, <2>2
<1> DEFINE b == buffer
           w == wire \o tail
           t == SubSeq(buffer, nl + 1, Len(buffer))
<1>3. w \in Seq(WirePieces) /\ t \in Seq(WirePieces)
  <2>1. nl \in 0 .. Len(buffer)  BY <1>1
  <2> QED  BY <1>1, <1>2, <2>1, ConcatProperties, CutSeq
<1>4. b \o w = Left(sent, k)
  <2>a. Assoc(buffer, wire, tail)  BY <1>1, <1>2, Associates
  <2>1. (buffer \o wire) \o tail = b \o w  BY <2>a DEF Assoc
  <2> QED  BY <2>1 DEF Under
<1>5. b[nl] = NL /\ \A j \in 1 .. Len(b) : b[j] = NL => nl <= j  BY DEF FirstEnd, LineEnds
<1>6. (t \o wire) \o tail = t \o w
  <2> HIDE DEF t
  <2>a. Assoc(t, wire, tail)  BY <1>1, <1>2, <1>3, Associates
  <2> QED  BY <2>a DEF Assoc
<1>7. b \in Seq(WirePieces) /\ nl \in 1 .. Len(b)  BY <1>1
<1> HIDE DEF b, w
<1>8. /\ k # Len(sent) /\ ParseLine(SubSeq(b, 1, nl - 1)) = sent[k + 1]
      /\ SubSeq(b, nl + 1, Len(b)) \o w = Left(sent, k + 1)
  BY <1>3, <1>4, <1>5, <1>7, FirstLine
<1> QED  BY <1>6, <1>8 DEF b, Line

(* At the end: what is left is nothing, or the last line.                  *)
LEMMA LastTaken ==
  ASSUME TypeInv, NEW k \in 0 .. Len(sent), NEW tail \in {<<>>, <<NL>>}, Under(k, tail),
         wire = <<>>, \A i \in 1 .. Len(buffer) : buffer[i] # NL
  PROVE  \/ k = Len(sent) /\ ParseLine(buffer) = Plain("blank")
         \/ /\ k # Len(sent) /\ k + 1 = Len(sent) /\ ParseLine(buffer) = sent[k + 1]
            /\ sent[k + 1].event = "final" /\ ended
<1>1. /\ buffer \in Seq(WirePieces) /\ Len(buffer) \in Nat /\ sent \in Seq(Lines) /\ Len(sent) \in Nat
      /\ k \in Nat /\ <<>> \in Seq(WirePieces)
  BY EmptySeq DEF TypeInv, StreamType
<1>2. buffer \o wire = buffer  BY <1>1, ConcatEmptySeq
<1>3. ASSUME k # Len(sent), NEW b \in Seq(WirePieces), b \o <<>> = Left(sent, k),
             \A j \in 1 .. Len(b) : j # Len(b) => b[j] # NL
      PROVE  /\ b # <<>> /\ b[Len(b)] = NL /\ k + 1 = Len(sent)
             /\ ParseLine(SubSeq(b, 1, Len(b) - 1)) = sent[k + 1]
  <2> DEFINE l == sent[k + 1]
             m == k + 1
             p == LinePieces(l, m)
             r == Left(sent, m)
  <2>1. /\ m \in Nat /\ m \in 1 .. Len(sent) /\ m \in 0 .. Len(sent) /\ l \in Lines
        /\ Left(sent, k) = p \o r /\ r \in Seq(WirePieces)
    <3>1. /\ m \in 0 .. Len(sent) /\ m \in 1 .. Len(sent) /\ l \in Lines
          /\ Left(sent, k) = p \o r
      BY <1>1, <1>3, NextLine
    <3>2. m \in Nat  BY <1>1
    <3> HIDE DEF m
    <3>3. r \in Seq(WirePieces)  BY <1>1, <3>1, LeftType
    <3> QED  BY <3>1, <3>2, <3>3
  <2>2. p \in Seq(WirePieces) /\ p # <<>> /\ p[Len(p)] = NL
    <3> HIDE DEF m, l
    <3> QED  BY <2>1, LinePiecesType, LinePiecesFacts
  <2> HIDE DEF p, r
  <2>3. b = p \o r  BY <1>3, <2>1, ConcatEmptySeq
  <2>4. /\ Len(p) \in Nat /\ Len(p) # 0 /\ Len(r) \in Nat /\ Len(b) = Len(p) + Len(r)
        /\ \A i \in 1 .. Len(p) + Len(r) : b[i] = IF i <= Len(p) THEN p[i] ELSE r[i - Len(p)]
    BY <2>1, <2>2, <2>3, EmptySeq, ConcatProperties
  <2>5. Len(p) \in 1 .. Len(b) /\ Len(p) \in 1 .. Len(p) + Len(r) /\ Len(p) <= Len(p)  BY <2>4
  <2>6. b[Len(p)] = NL  BY <2>2, <2>4, <2>5
  <2>7. Len(p) = Len(b)  BY <1>3, <2>5, <2>6
  <2>8. Len(r) = 0  BY <2>4, <2>7
  <2>9. m = Len(sent)
    <3>1. SUFFICES ASSUME m # Len(sent) PROVE FALSE  OBVIOUS
    <3> DEFINE x == LinePieces(sent[m + 1], m + 1)
               y == Left(sent, m + 1)
    <3>2. m + 1 \in Nat /\ m + 1 \in 0 .. Len(sent) /\ r = x \o y /\ sent[m + 1] \in Lines /\ y \in Seq(WirePieces)
      <4>r. r = Left(sent, m)  BY DEF r
      <4> HIDE DEF m
      <4>1. m + 1 \in 0 .. Len(sent) /\ r = x \o y /\ sent[m + 1] \in Lines
        BY <1>1, <2>1, <3>1, <4>r, NextLine
      <4>2. m + 1 \in Nat  BY <2>1
      <4> DEFINE mm == m + 1
      <4>3. mm \in 0 .. Len(sent)  BY <4>1
      <4> HIDE DEF mm
      <4>4. Left(sent, mm) \in Seq(WirePieces)  BY <1>1, <4>3, LeftType
      <4>5. y = Left(sent, mm)  BY DEF mm
      <4> QED  BY <4>1, <4>2, <4>4, <4>5
    <3>3. x \in Seq(WirePieces) /\ x # <<>>
      <4> DEFINE n == m + 1
                 ll == sent[m + 1]
      <4> HIDE DEF m, n, ll
      <4>1. n \in Nat  BY <3>2 DEF n
      <4>2. LinePieces(ll, n) \in Seq(WirePieces) /\ LinePieces(ll, n) # <<>>
        BY <4>1, LinePiecesType, LinePiecesFacts
      <4> QED  BY <4>2 DEF n, ll
    <3> HIDE DEF x, y
    <3>4. Len(x \o y) = Len(x) + Len(y) /\ Len(x) \in Nat /\ Len(y) \in Nat /\ Len(x) # 0
      BY <3>2, <3>3, EmptySeq, ConcatProperties
    <3> QED  BY <2>8, <3>2, <3>4
  <2> DEFINE n == Len(b)
  <2>10. n \in 1 .. Len(b) /\ b[n] = NL /\ \A j \in 1 .. Len(b) : b[j] = NL => n <= j
    <3>1. n \in 1 .. Len(b) /\ n \in Nat  BY <2>4
    <3>2. \A j \in 1 .. Len(b) : b[j] = NL => n <= j
      <4> TAKE j \in 1 .. Len(b)
      <4>1. b[j] = NL => j = n  BY <1>3
      <4> QED  BY <3>1, <4>1
    <3> QED  BY <2>6, <2>7, <3>1, <3>2
  <2> HIDE DEF n
  <2>11. ParseLine(SubSeq(b, 1, n - 1)) = sent[k + 1]  BY <1>1, <1>3, <2>10, FirstLine
  <2>12. b # <<>>  BY <2>4, EmptySeq
  <2> QED  BY <2>6, <2>7, <2>9, <2>11, <2>12 DEF n
<1>4. CASE tail = <<>>
  <2>1. buffer \o <<>> = Left(sent, k)  BY <1>2, <1>4 DEF Under
  <2>2. k = Len(sent)
    <3>1. SUFFICES ASSUME k # Len(sent) PROVE FALSE  OBVIOUS
    <3>2. buffer # <<>> /\ buffer[Len(buffer)] = NL  BY <1>1, <1>3, <2>1, <3>1
    <3>3. Len(buffer) \in 1 .. Len(buffer)  BY <1>1, <3>2, EmptySeq
    <3> QED  BY <3>2, <3>3
  <2>3. buffer = <<>>
    <3>1. Left(sent, k) = <<>>  BY <1>1, <2>2, LeftNone
    <3>2. buffer \o <<>> = buffer  BY <1>1, ConcatEmptySeq
    <3> QED  BY <2>1, <3>1, <3>2
  <2> QED  BY <2>2, <2>3 DEF ParseLine
<1>5. CASE tail = <<NL>>
  <2> DEFINE b == buffer \o <<NL>>
  <2>1. <<NL>> \in Seq(WirePieces) /\ Len(<<NL>>) = 1 /\ <<NL>>[1] = NL /\ <<NL>> # <<>>
    <3>1. NL \in WirePieces  BY DEF NL, WirePieces
    <3> QED  BY <3>1
  <2>2. /\ b \in Seq(WirePieces) /\ Len(b) = Len(buffer) + Len(<<NL>>)
        /\ \A i \in 1 .. Len(buffer) + Len(<<NL>>) :
              b[i] = IF i <= Len(buffer) THEN buffer[i] ELSE <<NL>>[i - Len(buffer)]
    BY <1>1, <2>1, ConcatProperties
  <2>3. b = Left(sent, k) /\ ended /\ sent[Len(sent)].event = "final"
    BY <1>2, <1>5, <2>1 DEF Under
  <2> HIDE DEF b
  <2>4. b \o <<>> = Left(sent, k)  BY <2>2, <2>3, ConcatEmptySeq
  <2>5. \A j \in 1 .. Len(b) : j # Len(b) => b[j] = buffer[j] /\ j \in 1 .. Len(buffer)
    <3> TAKE j \in 1 .. Len(b)
    <3> HAVE j # Len(b)
    <3>1. j \in 1 .. Len(buffer) + Len(<<NL>>) /\ j <= Len(buffer) /\ j \in 1 .. Len(buffer)
      BY <1>1, <2>1, <2>2
    <3> QED  BY <2>2, <3>1
  <2>6. k # Len(sent)
    <3>1. SUFFICES ASSUME k = Len(sent) PROVE FALSE  OBVIOUS
    <3>2. b = <<>>  BY <1>1, <2>3, <3>1, LeftNone
    <3>3. Len(b) # 0  BY <1>1, <2>1, <2>2
    <3> QED  BY <3>2, <3>3, EmptySeq
  <2>7. k + 1 = Len(sent) /\ ParseLine(SubSeq(b, 1, Len(b) - 1)) = sent[k + 1]
    BY <1>3, <2>2, <2>4, <2>5, <2>6
  <2>8. SubSeq(b, 1, Len(b) - 1) = buffer
    <3> DEFINE n == Len(buffer)
               h == SubSeq(b, 1, n)
    <3>1. Len(b) - 1 = n /\ n \in 0 .. Len(b)  BY <1>1, <2>1, <2>2
    <3>2. h \in Seq(WirePieces) /\ Len(h) = n /\ \A i \in 1 .. n : h[i] = b[i]  BY <2>2, <3>1, CutSeq
    <3>3. \A i \in 1 .. n : h[i] = buffer[i]
      <4> TAKE i \in 1 .. n
      <4>1. i \in 1 .. Len(b) /\ i # Len(b)  BY <1>1, <2>1, <2>2
      <4> QED  BY <2>5, <3>2, <4>1
    <3> HIDE DEF h
    <3>4. h = buffer  BY <1>1, <3>2, <3>3, SeqEqual
    <3> QED  BY <3>1, <3>4 DEF h
  <2> QED  BY <2>3, <2>6, <2>7, <2>8
<1> QED  BY <1>4, <1>5

(* What an agent does to its stream.                                       *)
LEMMA AgentLines ==
  ASSUME TypeInv, Agent
  PROVE  /\ UNCHANGED <<callVars, turnVars, pc, buffer, hostVars, child, replyVars, result>>
         /\ ~ended /\ pc \in {"read", "lines"}
         /\ \/ \E ls \in Seq(Lines) : Writes(ls)
            \/ ended' = TRUE /\ UNCHANGED <<sent, wire>>
            \/ /\ ended' = TRUE
               /\ \E response \in Answers : /\ sent' = Append(sent, Final(response))
                                            /\ wire' = wire \o Halves(Len(sent) + 1)
<1>1. /\ UNCHANGED <<callVars, turnVars, pc, buffer, hostVars, child, replyVars, result>>
      /\ ~ended /\ pc \in {"read", "lines"}
  BY DEF Agent, HandlerEmits, HandlerReturns, HandlerThrows, OtherWrites, OtherEnds, StaysWithAgent, Open
<1>o. OwnIds \subseteq Ids /\ Scraps \subseteq Seq(Words) /\ Responses \subseteq Answers
  BY AgentAssumption DEF Ids
<1>s. \A l \in Lines : <<l>> \in Seq(Lines)  OBVIOUS
<1>2. CASE HandlerEmits
  <2>1. PICK id \in OwnIds, words \in Scraps :
           Writes(<<Token(id, words, "live")>>) \/ Writes(<<Replace(id, words)>>)
    BY <1>2 DEF HandlerEmits
  <2>2. Token(id, words, "live") \in Lines /\ Replace(id, words) \in Lines  BY <1>o, LineMade
  <2> DEFINE t == Token(id, words, "live")
             r == Replace(id, words)
  <2>3. <<t>> \in Seq(Lines) /\ <<r>> \in Seq(Lines)
    <3> HIDE DEF t, r
    <3> QED  BY <1>s, <2>2 DEF t, r
  <2>4. \E ls \in Seq(Lines) : Writes(ls)  BY <2>1, <2>3, Zenon
  <2> QED  BY <1>1, <2>4
<1>3. CASE HandlerReturns
  <2>1. PICK r \in HandlerResponses : Writes(Reconcile(r.messages) \o <<Final(Sending(r))>>)
    BY <1>3 DEF HandlerReturns, Sending
  <2>2. r \in Answers  BY <1>o DEF HandlerResponses
  <2>3. Reconcile(r.messages) \o <<Final(Sending(r))>> \in Seq(Lines)  BY <2>2, SendingType
  <2>4. \E ls \in Seq(Lines) : Writes(ls)  BY <2>1, <2>3, Zenon
  <2> QED  BY <1>1, <2>4
<1>4. CASE HandlerThrows
  <2>1. Plain("error") \in Lines /\ Writes(<<Plain("error")>>)  BY <1>4, LineMade DEF HandlerThrows
  <2>2. <<Plain("error")>> \in Seq(Lines)  BY <1>s, <2>1
  <2>4. \E ls \in Seq(Lines) : Writes(ls)  BY <2>1, <2>2, Zenon
  <2> QED  BY <1>1, <2>4
<1>5. CASE OtherWrites
  <2>1. PICK l \in OtherLines : Writes(<<l>>)  BY <1>5 DEF OtherWrites
  <2>2. <<l>> \in Seq(Lines)  BY <1>s, OtherLinesType
  <2>4. \E ls \in Seq(Lines) : Writes(ls)  BY <2>1, <2>2, Zenon
  <2> QED  BY <1>1, <2>4
<1>6. CASE OtherEnds
  <2>1. /\ ended' = TRUE
        /\ \/ UNCHANGED <<sent, wire>>
           \/ \E response \in Responses :
                 /\ sent' = Append(sent, Final(response))
                 /\ wire' = wire \o Halves(Len(sent) + 1)
    BY <1>6 DEF OtherEnds
  <2> QED  BY <1>1, <1>o, <2>1
<1> QED  BY <1>2, <1>3, <1>4, <1>5, <1>6 DEF Agent

LEMMA AgentReads ==
  ASSUME TypeInv, Agent, NEW k \in 0 .. Len(sent), ReadTo(k)
  PROVE  \E j \in 0 .. Len(sent') : ReadTo(j)'
<1>1. /\ UNCHANGED <<pc, buffer, seen>> /\ ~ended /\ pc \in {"read", "lines"}
  BY AgentLines DEF replyVars
<1>2. Taken(k) /\ Under(k, <<>>)
  <2>1. <<NL>> # <<>>
    <3>1. Len(<<NL>>) = 1 /\ Len(<<>>) = 0  BY EmptySeq
    <3> QED  BY <3>1
  <2> QED  BY <1>1, <2>1 DEF ReadTo, Under
<1>3. CASE \E ls \in Seq(Lines) : Writes(ls)
  <2>1. PICK ls \in Seq(Lines) : Writes(ls)  BY <1>3
  <2>2. Taken(k)' /\ Under(k, <<>>)' /\ k \in 0 .. Len(sent')  BY <1>1, <1>2, <2>1, WriteReads
  <2>3. ReadTo(k)'  BY <1>1, <2>2 DEF ReadTo
  <2> QED  BY <2>2, <2>3
<1>4. CASE ended' = TRUE /\ UNCHANGED <<sent, wire>>
  <2>1. Taken(k)' /\ Under(k, <<>>)'  BY <1>1, <1>2, <1>4 DEF Taken, Under
  <2>2. ReadTo(k)'  BY <1>1, <2>1 DEF ReadTo
  <2> QED  BY <1>4, <2>2
<1>5. ASSUME NEW response \in Answers, ended' = TRUE, sent' = Append(sent, Final(response)),
             wire' = wire \o Halves(Len(sent) + 1)
      PROVE  \E j \in 0 .. Len(sent') : ReadTo(j)'
  <2>1. Taken(k)' /\ Under(k, <<NL>>)' /\ k \in 0 .. Len(sent')  BY <1>1, <1>2, <1>5, EndReads
  <2>2. ReadTo(k)'  BY <1>1, <2>1 DEF ReadTo
  <2> QED  BY <2>1, <2>2
<1> QED  BY <1>3, <1>4, <1>5, AgentLines

(* A line is handled.                                                      *)
LEMMA HandleReads ==
  ASSUME TypeInv, HandleStep, NEW k \in 0 .. Len(sent), ReadTo(k)
  PROVE  \E j \in 0 .. Len(sent') : ReadTo(j)'
<1>1. PICK nl \in 1 .. Len(buffer) :
         /\ FirstEnd(nl)
         /\ buffer' = SubSeq(buffer, nl + 1, Len(buffer))
         /\ \/ Line(nl).event = "blank" /\ UNCHANGED replyVars
            \/ Line(nl).event # "blank" /\ HandleEvent(Line(nl))
  BY DEF HandleStep
<1>2. pc = "lines" /\ pc' = pc /\ UNCHANGED <<sent, wire, ended>>  BY DEF HandleStep, agentVars
<1>3. PICK tail \in {<<>>, <<NL>>} : Under(k, tail)  BY <1>2, UnderPick DEF ReadTo
<1>4. /\ k # Len(sent) /\ Line(nl) = sent[k + 1]
      /\ (SubSeq(buffer, nl + 1, Len(buffer)) \o wire) \o tail = Left(sent, k + 1)
  BY <1>1, <1>3, LineTaken
<1>5. sent \in Seq(Lines) /\ seen \in Seq(Lines)  BY DEF TypeInv, StreamType, OutcomeType
<1> DEFINE a == Sift(SubSeq(sent, 1, k), Events)
           l == sent[k + 1]
<1>6. k + 1 \in 0 .. Len(sent) /\ l \in Lines /\ Sift(SubSeq(sent, 1, k + 1), Events) = a \o Events[l]
  BY <1>4, <1>5, NextLine
<1>7. seen = a  BY DEF ReadTo, Taken
<1>8. seen' = a \o Events[l]
  <2>1. Line(nl) = l /\ Events[l] = EventOf(l)  BY <1>4, <1>6 DEF Events
  <2> HIDE DEF a, l
  <2>2. CASE l.event = "blank"
    <3>1. seen' = seen /\ Events[l] = <<>>  BY <1>1, <2>1, <2>2 DEF replyVars, EventOf
    <3>2. seen \o <<>> = seen  BY <1>5, ConcatEmptySeq
    <3> QED  BY <1>7, <3>1, <3>2
  <2>3. CASE l.event # "blank"
    <3>1. seen' = Append(seen, l) /\ Events[l] = <<l>>  BY <1>1, <2>1, <2>3 DEF HandleEvent, EventOf
    <3>2. Append(seen, l) = seen \o <<l>>  BY <1>5, <1>6, AppendIsConcat
    <3> QED  BY <1>7, <3>1, <3>2
  <2> QED  BY <2>2, <2>3
<1> HIDE DEF a, l
<1> DEFINE m == k + 1
<1>9. Taken(m)'  BY <1>2, <1>6, <1>8 DEF Taken
<1>10. Under(m, tail)'
  <2>1. (buffer' \o wire') \o tail = Left(sent', m)  BY <1>1, <1>2, <1>4
  <2> QED  BY <1>2, <1>3, <2>1 DEF Under
<1>11. m \in 0 .. Len(sent')  BY <1>2, <1>6
<1> HIDE DEF m
<1>12. ReadTo(m)'  BY <1>2, <1>9, <1>10 DEF ReadTo
<1> QED  BY <1>11, <1>12

(* The stream has been read to its end.                                    *)
LEMMA AcceptReads ==
  ASSUME TypeInv, WireInv, AcceptStep, NEW k \in 0 .. Len(sent), ReadTo(k)
  PROVE  \E j \in 0 .. Len(sent') : ReadTo(j)'
<1> DEFINE tail == ParseLine(buffer)
<1>1. /\ pc = "read" /\ wire = <<>> /\ ended /\ UNCHANGED <<sent, ended>> /\ pc' = "type"
      /\ seen' = IF tail.event = "blank" THEN seen ELSE Append(seen, tail)
  BY DEF AcceptStep, Accept, agentVars
<1>2. \A i \in 1 .. Len(buffer) : buffer[i] # NL  BY <1>1 DEF WireInv
<1>3. PICK end \in {<<>>, <<NL>>} : Under(k, end)  BY <1>1, UnderPick DEF ReadTo
<1>4. \/ k = Len(sent) /\ tail = Plain("blank")
      \/ /\ k # Len(sent) /\ k + 1 = Len(sent) /\ tail = sent[k + 1]
         /\ sent[k + 1].event = "final" /\ ended
  BY <1>1, <1>2, <1>3, LastTaken
<1>5. sent \in Seq(Lines) /\ seen \in Seq(Lines) /\ Len(sent) \in Nat
  BY DEF TypeInv, StreamType, OutcomeType
<1>6. seen = Sift(SubSeq(sent, 1, k), Events)  BY DEF ReadTo, Taken
<1> HIDE DEF tail
<1>7. seen' = Sift(SubSeq(sent, 1, Len(sent)), Events)
  <2>1. CASE k = Len(sent) /\ tail = Plain("blank")
    <3>1. tail.event = "blank"  BY <2>1 DEF Plain
    <3> QED  BY <1>1, <1>6, <2>1, <3>1
  <2>2. CASE /\ k # Len(sent) /\ k + 1 = Len(sent) /\ tail = sent[k + 1]
             /\ sent[k + 1].event = "final"
    <3> DEFINE a == Sift(SubSeq(sent, 1, k), Events)
               l == sent[k + 1]
    <3>1. l \in Lines /\ Sift(SubSeq(sent, 1, k + 1), Events) = a \o Events[l]
      BY <1>5, <2>2, NextLine
    <3>2. Events[l] = EventOf(l)  BY <3>1 DEF Events
    <3>3. l.event = "final" /\ tail = l  BY <2>2
    <3>4. seen = a  BY <1>6
    <3> HIDE DEF a, l
    <3>5. seen' = Append(seen, l) /\ Events[l] = <<l>>  BY <1>1, <3>2, <3>3 DEF EventOf
    <3>6. Append(seen, l) = seen \o <<l>>  BY <1>5, <3>1, AppendIsConcat
    <3>7. seen' = Sift(SubSeq(sent, 1, k + 1), Events)  BY <3>1, <3>4, <3>5, <3>6
    <3> QED  BY <2>2, <3>7
  <2> QED  BY <1>4, <2>1, <2>2
<1>8. PICK n \in Nat : n = Len(sent)  BY <1>5
<1>9. n \in 0 .. Len(sent') /\ n = Len(sent')  BY <1>1, <1>8
<1>10. Taken(n)'  BY <1>1, <1>7, <1>8 DEF Taken
<1>11. ReadTo(n)'  BY <1>1, <1>9, <1>10 DEF ReadTo
<1> QED  BY <1>9, <1>11

(* What was handled is what was written, up to a line, through every step. *)
LEMMA WireHolds ==
  ASSUME TypeInv, WireInv, [Next]_vars
  PROVE  WireInv'
<1>1. make' = make  BY CallStays DEF make
<1>2. Streaming' <=> Streaming  BY <1>1 DEF Streaming
<1>3. ASSUME UNCHANGED <<agentVars, buffer, replyVars>>,
             pc' \in {"type", "done"} => pc \in {"type", "done"},
             pc \in {"type", "done", "failed"} => pc' \in {"type", "done", "failed"},
             pc' \in {"fetch", "read"} => pc \in {"fetch", "read"} \/ LineEnds = {},
             pc' \in {"exec", "body"} => pc \in {"exec", "body"} \/ ~Streaming
      PROVE  WireInv'
  <2>1. UNCHANGED <<sent, wire, ended, buffer, seen>>  BY <1>3 DEF agentVars, replyVars
  <2>2. ASSUME NEW k, ReadTo(k) PROVE ReadTo(k)'
    <3>1. Taken(k)' <=> Taken(k)  BY <2>1 DEF Taken
    <3>2. \A tail : Under(k, tail)' <=> Under(k, tail)  BY <2>1 DEF Under
    <3> QED  BY <1>3, <2>1, <2>2, <3>1, <3>2 DEF ReadTo
  <2>3. Streaming' => \E k \in 0 .. Len(sent') : ReadTo(k)'
    <3>1. SUFFICES ASSUME Streaming PROVE \E k \in 0 .. Len(sent') : ReadTo(k)'  BY <1>2
    <3>2. PICK k \in 0 .. Len(sent) : ReadTo(k)  BY <3>1 DEF WireInv
    <3> QED  BY <2>1, <2>2, <3>2
  <2>4. pc' \in {"fetch", "read"} => \A i \in 1 .. Len(buffer') : buffer'[i] # NL
    BY <1>3, <2>1 DEF WireInv, LineEnds
  <2>5. pc' \in {"exec", "body"} => ~Streaming'  BY <1>2, <1>3 DEF WireInv
  <2> QED  BY <2>3, <2>4, <2>5 DEF WireInv
<1>4. ASSUME \A k \in 0 .. Len(sent) : ReadTo(k) => \E j \in 0 .. Len(sent') : ReadTo(j)',
             pc' \in {"fetch", "read"} => pc \in {"fetch", "read"} /\ buffer' = buffer,
             pc' \notin {"exec", "body"}
      PROVE  WireInv'
  <2>1. Streaming' => \E k \in 0 .. Len(sent') : ReadTo(k)'
    <3>1. SUFFICES ASSUME Streaming PROVE \E k \in 0 .. Len(sent') : ReadTo(k)'  BY <1>2
    <3>2. PICK k \in 0 .. Len(sent) : ReadTo(k)  BY <3>1 DEF WireInv
    <3> QED  BY <1>4, <3>2
  <2> QED  BY <1>4, <2>1 DEF WireInv
<1>5. CASE BeginCall
  <2>1. /\ sent' = <<>> /\ wire' = <<>> /\ buffer' = <<>> /\ seen' = <<>>
        /\ pc' = IF make = "cli" THEN "exec" ELSE "fetch"
    BY <1>5 DEF BeginCall, FreshCall
  <2>2. /\ Taken(0)' /\ Under(0, <<>>)' /\ 0 \in 0 .. Len(sent')
        /\ \A i \in 1 .. Len(buffer') : buffer'[i] # NL
    BY <2>1, NothingSent DEF Taken, Under
  <2>3. ReadTo(0)'  BY <2>1, <2>2 DEF ReadTo
  <2>4. pc' \in {"exec", "body"} => ~Streaming'  BY <1>2, <2>1 DEF Streaming
  <2> QED  BY <2>2, <2>3, <2>4 DEF WireInv
<1>6. CASE ChildStep  BY <1>3, <1>6 DEF ChildStep
<1>7. CASE FailStep
  <2>1. /\ UNCHANGED <<sent, ended, seen>> /\ pc \notin {"type", "done"} /\ pc' = "failed"
    BY <1>7 DEF FailStep, agentVars, replyVars
  <2>2. ASSUME NEW k \in 0 .. Len(sent), ReadTo(k) PROVE \E j \in 0 .. Len(sent') : ReadTo(j)'
    <3>1. Taken(k)'  BY <2>1, <2>2 DEF ReadTo, Taken
    <3>2. ReadTo(k)'  BY <2>1, <3>1 DEF ReadTo
    <3> QED  BY <2>1, <3>2
  <2> QED  BY <1>4, <2>1, <2>2
<1>8. CASE WholeStep
  <2>1. pc \in {"exec", "body"} /\ pc' \in {"type", "done"}  BY <1>8 DEF WholeStep, AcceptWhole, Accept
  <2>2. ~Streaming'  BY <1>2, <2>1 DEF WireInv
  <2> QED  BY <2>1, <2>2 DEF WireInv
<1>9. CASE HostStep  BY <1>3, <1>9 DEF HostStep
<1>10. CASE OpenStep
  <2>1. /\ pc = "fetch" /\ pc' = IF make = "json" THEN "body" ELSE "read"
        /\ UNCHANGED <<agentVars, buffer, replyVars>>
    BY <1>10 DEF OpenStep
  <2>2. make = "json" => ~Streaming  BY DEF Streaming
  <2> QED  BY <1>3, <2>1, <2>2
<1>11. CASE Agent
  <2>1. UNCHANGED <<pc, buffer>> /\ pc \in {"read", "lines"}  BY <1>11, AgentLines
  <2> QED  BY <1>4, <1>11, <2>1, AgentReads
<1>12. CASE ReadChunk
  <2>1. pc = "read" /\ pc' = "lines"  BY <1>12 DEF ReadChunk
  <2>2. ASSUME NEW k \in 0 .. Len(sent), ReadTo(k) PROVE \E j \in 0 .. Len(sent') : ReadTo(j)'
    <3>1. PICK tail \in {<<>>, <<NL>>} : Under(k, tail)  BY <2>1, <2>2, UnderPick DEF ReadTo
    <3>2. Taken(k)  BY <2>2 DEF ReadTo
    <3>3. Taken(k)' /\ Under(k, tail)' /\ k \in 0 .. Len(sent')  BY <1>12, <3>1, <3>2, ChunkReads
    <3>4. ReadTo(k)'  BY <2>1, <3>1, <3>3 DEF ReadTo
    <3> QED  BY <3>3, <3>4
  <2> QED  BY <1>4, <2>1, <2>2
<1>13. CASE HandleStep
  <2>1. pc' = "lines"  BY <1>13 DEF HandleStep
  <2> QED  BY <1>4, <1>13, <2>1, HandleReads
<1>14. CASE NoMoreLines
  <2>1. /\ pc = "lines" /\ pc' = "read" /\ LineEnds = {} /\ UNCHANGED <<agentVars, buffer, replyVars>>
    BY <1>14 DEF NoMoreLines
  <2> QED  BY <1>3, <2>1
<1>15. CASE AcceptStep
  <2>1. pc' = "type"  BY <1>15 DEF AcceptStep, Accept
  <2> QED  BY <1>4, <1>15, <2>1, AcceptReads
<1>16. CASE TypeReply
  <2>1. pc = "type" /\ pc' = "done" /\ UNCHANGED <<sent, ended, seen>>  BY <1>16 DEF TypeReply, agentVars
  <2>2. ASSUME NEW k \in 0 .. Len(sent), ReadTo(k) PROVE \E j \in 0 .. Len(sent') : ReadTo(j)'
    <3>1. Taken(k)'  BY <2>1, <2>2 DEF ReadTo, Taken
    <3>2. ReadTo(k)'  BY <2>1, <2>2, <3>1 DEF ReadTo
    <3> QED  BY <2>1, <3>2
  <2> QED  BY <1>4, <2>1, <2>2
<1>17. CASE UNCHANGED vars  BY <1>3, <1>17 DEF vars
<1> QED
  BY <1>5, <1>6, <1>7, <1>8, <1>9, <1>10, <1>11, <1>12, <1>13, <1>14, <1>15, <1>16, <1>17, StepCases

(* The answer is the last `final` that was handled.                        *)
FinalInv ==
    /\ answer = None => \A i \in 1 .. Len(seen) : seen[i].event # "final"
    /\ answer # None => \E i \in 1 .. Len(seen) :
                           /\ seen[i] = Final(answer)
                           /\ \A j \in (i + 1) .. Len(seen) : seen[j].event # "final"

LEMMA FinalAppends ==
  ASSUME TypeInv, FinalInv, NEW event \in Lines, seen' = Append(seen, event),
         answer' = IF event.event = "final" THEN event.data ELSE answer
  PROVE  FinalInv'
<1>1. seen \in Seq(Lines) /\ Len(seen) \in Nat  BY DEF TypeInv, OutcomeType
<1>2. /\ Len(seen') = Len(seen) + 1 /\ seen'[Len(seen) + 1] = event
      /\ \A i \in 1 .. Len(seen) : seen'[i] = seen[i]
  BY <1>1, AppendProperties
<1> DEFINE n == Len(seen)
           m == Len(seen')
<1>3. n \in Nat /\ m = n + 1 /\ seen'[n + 1] = event /\ \A i \in 1 .. n : seen'[i] = seen[i]
  BY <1>1, <1>2
<1>4. CASE event.event = "final"
  <2>1. event.data \in Answers /\ event = Final(event.data)  BY <1>4, LineFacts
  <2>2. answer' # None /\ seen'[n + 1] = Final(answer')  BY <1>3, <1>4, <2>1, AgentAssumption
  <2>3. n + 1 \in 1 .. m /\ (n + 1) + 1 .. m = {}
    <3> HIDE DEF n, m
    <3> QED  BY <1>3
  <2>4. \E i \in 1 .. Len(seen') :
           /\ seen'[i] = Final(answer')
           /\ \A j \in (i + 1) .. Len(seen') : seen'[j].event # "final"
    <3> WITNESS n + 1 \in 1 .. Len(seen')
    <3> QED  BY <2>2, <2>3
  <2> QED  BY <2>2, <2>4 DEF FinalInv
<1>5. CASE event.event # "final"
  <2>0. answer' = answer  BY <1>5
  <2>1. ASSUME NEW i \in 1 .. m, seen'[i].event = "final" PROVE i \in 1 .. n /\ seen[i] = seen'[i]
    <3>1. i # n + 1  BY <1>3, <1>5, <2>1
    <3>2. i \in 1 .. n
      <4> HIDE DEF n, m
      <4> QED  BY <1>3, <3>1
    <3> QED  BY <1>3, <3>2
  <2>2. CASE answer = None
    <3>1. \A i \in 1 .. m : seen'[i].event # "final"
      <4> TAKE i \in 1 .. m
      <4>1. SUFFICES ASSUME seen'[i].event = "final" PROVE FALSE  OBVIOUS
      <4>2. i \in 1 .. n /\ seen[i].event = "final"  BY <2>1, <4>1
      <4> QED  BY <2>2, <4>2 DEF FinalInv
    <3> QED  BY <2>0, <2>2, <3>1 DEF FinalInv
  <2>3. CASE answer # None
    <3>1. PICK i \in 1 .. n : /\ seen[i] = Final(answer)
                              /\ \A j \in (i + 1) .. n : seen[j].event # "final"
      BY <2>3 DEF FinalInv
    <3>2. i \in 1 .. m /\ \A j \in i + 1 .. m : j \in 1 .. m /\ (j \in 1 .. n => j \in i + 1 .. n)
      <4> HIDE DEF n, m
      <4> QED  BY <1>3
    <3>3. seen'[i] = Final(answer')  BY <1>3, <2>0, <3>1
    <3>4. \A j \in (i + 1) .. m : seen'[j].event # "final"
      <4> TAKE j \in (i + 1) .. m
      <4>1. SUFFICES ASSUME seen'[j].event = "final" PROVE FALSE  OBVIOUS
      <4>2. j \in 1 .. n /\ seen[j].event = "final" /\ j \in i + 1 .. n  BY <2>1, <3>2, <4>1
      <4> QED  BY <3>1, <4>2
    <3> QED  BY <2>0, <2>3, <3>2, <3>3, <3>4 DEF FinalInv
  <2> QED  BY <2>2, <2>3
<1> QED  BY <1>4, <1>5

LEMMA FinalHolds ==
  ASSUME TypeInv, FinalInv, [Next]_vars
  PROVE  FinalInv'
<1>1. CASE UNCHANGED <<seen, answer>>  BY <1>1 DEF FinalInv
<1>2. CASE BeginCall
  <2>1. seen' = <<>> /\ answer' = None  BY <1>2 DEF BeginCall, FreshCall
  <2> QED  BY <2>1, NothingSent DEF FinalInv
<1>3. CASE WholeStep
  <2>1. PICK response \in Received :
           seen' = <<[event |-> "final", data |-> response]>> /\ answer' = response
    BY <1>3 DEF WholeStep, AcceptWhole, Accept
  <2>2. response # None  BY AgentAssumption, ReceivedAnswers
  <2>3. Len(seen') = 1 /\ seen'[1] = Final(response)  BY <2>1 DEF Final
  <2>4. 1 \in 1 .. 1 /\ (1 + 1) .. 1 = {}  OBVIOUS
  <2> QED  BY <2>1, <2>2, <2>3, <2>4 DEF FinalInv
<1>4. CASE HandleStep
  <2>1. PICK nl \in 1 .. Len(buffer) : UNCHANGED replyVars \/ HandleEvent(Line(nl))
    BY <1>4 DEF HandleStep
  <2>2. CASE HandleEvent(Line(nl))
    <3>1. Line(nl) \in Lines  BY ParseType DEF Line
    <3> QED  BY <2>2, <3>1, FinalAppends DEF HandleEvent
  <2> QED  BY <1>1, <2>1, <2>2 DEF replyVars
<1>5. CASE AcceptStep
  <2> DEFINE tail == ParseLine(buffer)
             last == IF tail.event = "final" THEN tail.data ELSE answer
  <2>1. /\ answer' = last /\ seen' = IF tail.event = "blank" THEN seen ELSE Append(seen, tail)
    BY <1>5 DEF AcceptStep, Accept
  <2>2. tail \in Lines  BY ParseType
  <2> HIDE DEF tail
  <2>3. CASE tail.event = "blank"  BY <1>1, <2>1, <2>3
  <2>4. CASE tail.event # "blank"
    <3>1. seen' = Append(seen, tail)  BY <2>1, <2>4
    <3> QED  BY <2>1, <2>2, <3>1, FinalAppends
  <2> QED  BY <2>3, <2>4
<1>6. CASE Agent
  BY <1>1, <1>6, AgentLines DEF replyVars
<1>7. CASE ChildStep \/ FailStep \/ HostStep \/ OpenStep \/ ReadChunk \/ NoMoreLines \/ TypeReply
  BY <1>1, <1>7 DEF ChildStep, FailStep, HostStep, OpenStep, ReadChunk, NoMoreLines, TypeReply, replyVars
<1>8. CASE UNCHANGED vars  BY <1>1, <1>8 DEF vars, replyVars
<1> QED  BY <1>2, <1>3, <1>4, <1>5, <1>6, <1>7, <1>8, StepCases

(* What an agent on the runner writes: text, then one `final` or `error`,  *)
(* as its handler returned or threw.                                       *)
Speaking == Tokens \union Replaces

Closed(ls, l) ==
    /\ sent = ls \o <<l>>
    /\ \/ fate = "returned" /\ l.event = "final"
       \/ fate = "threw" /\ l.event = "error"

TemplateInv ==
    make = "template" =>
        \/ ~ended /\ fate = "running" /\ sent \in Seq(Speaking)
        \/ ended /\ \E ls \in Seq(Speaking), l \in Lines : Closed(ls, l)

LEMMA SpeakingFacts ==
  /\ \A s \in Seq(Speaking) : s \in Seq(Lines)
  /\ \A l \in Speaking : l.event \in {"token", "replace"}
  /\ \A id \in Ids, words \in Seq(Words), source \in {"live", "final", "reconcile"} :
        Token(id, words, source) \in Speaking
  /\ \A id \in Ids, words \in Seq(Words) : Replace(id, words) \in Speaking
<1>1. \A s \in Seq(Speaking) : s \in Seq(Lines)  BY SeqMonotonic DEF Speaking, Lines
<1>2. \A l \in Speaking : l.event \in {"token", "replace"}  BY DEF Speaking, Tokens, Replaces
<1>3. \A id \in Ids, words \in Seq(Words), source \in {"live", "final", "reconcile"} :
         Token(id, words, source) \in Tokens  BY DEF Token, Tokens
<1>4. \A id \in Ids, words \in Seq(Words) : Replace(id, words) \in Replaces  BY DEF Replace, Replaces
<1> QED  BY <1>1, <1>2, <1>3, <1>4, Zenon DEF Speaking

LEMMA ReconcileSpeaks ==
  ASSUME TypeInv, NEW ms \in Seq(Replies)
  PROVE  Reconcile(ms) \in Seq(Speaking)
<1> DEFINE l    == LastReply(ms)
           text == ms[l].text
           sofar == streamed["r"]
           rest == SubSeq(text, Len(sofar) + 1, Len(text))
           src == IF sofar = <<>> THEN "final" ELSE "reconcile"
<1>1. "r" \in Ids /\ sofar \in Seq(Words)  BY AgentAssumption DEF Ids, TypeInv, StreamType, Texts
<1>2. CASE l = 0  BY <1>2, EmptySeq DEF Reconcile
<1>3. CASE l # 0
  <2>1. text \in Seq(Words)  BY <1>3, LastReplyFacts DEF Replies
  <2>2. rest \in Seq(Words)
    <3>1. Len(sofar) \in Nat /\ Len(text) \in Nat  BY <1>1, <2>1
    <3>2. \A i \in Len(sofar) + 1 .. Len(text) : text[i] \in Words  BY <2>1, <3>1, ElementOfSeq
    <3> QED  BY <3>1, <3>2, SubSeqProperties
  <2>3. Replace("r", text) \in Speaking /\ Token("r", rest, src) \in Speaking
    BY <1>1, <2>1, <2>2, SpeakingFacts
  <2>4. /\ <<Replace("r", text)>> \in Seq(Speaking) /\ <<Token("r", rest, src)>> \in Seq(Speaking)
        /\ <<>> \in Seq(Speaking)
    BY <2>3, EmptySeq
  <2>5. \/ Reconcile(ms) = <<>> \/ Reconcile(ms) = <<Replace("r", text)>>
        \/ Reconcile(ms) = <<Token("r", rest, src)>>
    BY Zenon DEF Reconcile
  <2> HIDE DEF rest, src, text
  <2> QED  BY <2>4, <2>5, Zenon
<1> QED  BY <1>2, <1>3

LEMMA TemplateHolds ==
  ASSUME TypeInv, TemplateInv, [Next]_vars
  PROVE  TemplateInv'
<1>m. make' = make  BY CallStays DEF make
<1>1. CASE UNCHANGED <<sent, ended, fate>>
  <2>1. \A ls, l : Closed(ls, l)' <=> Closed(ls, l)  BY <1>1 DEF Closed
  <2> QED  BY <1>1, <1>m, <2>1 DEF TemplateInv
<1>2. CASE BeginCall
  <2>1. sent' = <<>> /\ ended' = FALSE /\ fate' = "running"  BY <1>2 DEF BeginCall, FreshCall
  <2>2. <<>> \in Seq(Speaking)  BY EmptySeq
  <2> QED  BY <2>1, <2>2 DEF TemplateInv
<1>3. CASE Agent
  <2>1. SUFFICES ASSUME make = "template" PROVE TemplateInv'  BY <1>m DEF TemplateInv
  <2>2. ~ended /\ fate = "running" /\ sent \in Seq(Speaking)
    BY <1>3, <2>1, AgentLines DEF TemplateInv
  <2>o. OwnIds \subseteq Ids /\ Scraps \subseteq Seq(Words) /\ Responses \subseteq Answers
    BY AgentAssumption DEF Ids
  <2>3. CASE HandlerEmits
    <3>1. PICK id \in OwnIds, words \in Scraps :
             Writes(<<Token(id, words, "live")>>) \/ Writes(<<Replace(id, words)>>)
      BY <2>3 DEF HandlerEmits
    <3>2. Token(id, words, "live") \in Speaking /\ Replace(id, words) \in Speaking
      BY <2>o, SpeakingFacts
    <3>3. PICK l \in Speaking : Writes(<<l>>)  BY <3>1, <3>2
    <3>4. sent' = sent \o <<l>> /\ <<l>> \in Seq(Speaking)  BY <3>3 DEF Writes
    <3>5. sent' \in Seq(Speaking)  BY <2>2, <3>4, ConcatProperties
    <3>6. UNCHANGED <<ended, fate>>  BY <2>3 DEF HandlerEmits
    <3> QED  BY <2>2, <3>5, <3>6 DEF TemplateInv
  <2>4. CASE HandlerReturns
    <3>1. PICK r \in HandlerResponses : Writes(Reconcile(r.messages) \o <<Final(Sending(r))>>)
      BY <2>4 DEF HandlerReturns, Sending
    <3>2. r \in Answers  BY <2>o DEF HandlerResponses
    <3> DEFINE a  == Reconcile(r.messages)
               l  == Final(Sending(r))
               ls == sent \o a
    <3>3. a \in Seq(Speaking)  BY <3>2, ReconcileSpeaks DEF Answers
    <3>4. l \in Lines /\ l.event = "final"  BY <3>2, SendingType, LineMade DEF Final
    <3>5. sent' = sent \o (a \o <<l>>)  BY <3>1 DEF Writes
    <3> HIDE DEF a, l
    <3>6. ls \in Seq(Speaking)  BY <2>2, <3>3, ConcatProperties
    <3>7. sent' = ls \o <<l>>
      <4>1. sent \in Seq(Lines) /\ a \in Seq(Lines) /\ <<l>> \in Seq(Lines)
        BY <2>2, <3>3, <3>4, SpeakingFacts
      <4>2. Assoc(sent, a, <<l>>)  BY <4>1, Associates
      <4> QED  BY <3>5, <4>2 DEF Assoc
    <3>8. ended' = TRUE /\ fate' = "returned"  BY <2>4 DEF HandlerReturns
    <3>9. PICK s \in Seq(Speaking) : s = ls  BY <3>6
    <3>10. PICK k \in Lines : k = l  BY <3>4
    <3>11. Closed(s, k)'  BY <3>4, <3>7, <3>8, <3>9, <3>10 DEF Closed
    <3> QED  BY <3>8, <3>11 DEF TemplateInv
  <2>5. CASE HandlerThrows
    <3> DEFINE l == Plain("error")
    <3>1. l \in Lines /\ Writes(<<l>>) /\ l.event = "error"  BY <2>5, LineMade DEF HandlerThrows, Plain
    <3>2. sent' = sent \o <<l>>  BY <3>1 DEF Writes
    <3>3. ended' = TRUE /\ fate' = "threw"  BY <2>5 DEF HandlerThrows
    <3>4. PICK s \in Seq(Speaking) : s = sent  BY <2>2
    <3>5. Closed(s, l)'  BY <3>1, <3>2, <3>3, <3>4 DEF Closed
    <3> QED  BY <3>1, <3>3, <3>5 DEF TemplateInv
  <2>6. ~OtherWrites /\ ~OtherEnds  BY <2>1 DEF OtherWrites, OtherEnds
  <2> QED  BY <1>3, <2>3, <2>4, <2>5, <2>6 DEF Agent
<1>4. CASE ChildStep \/ FailStep \/ WholeStep \/ HostStep \/ OpenStep \/ ReadChunk \/ HandleStep
           \/ NoMoreLines \/ AcceptStep \/ TypeReply
  BY <1>1, <1>4 DEF ChildStep, FailStep, WholeStep, HostStep, OpenStep, ReadChunk, HandleStep,
     NoMoreLines, AcceptStep, TypeReply, agentVars
<1>5. CASE UNCHANGED vars  BY <1>1, <1>5 DEF vars, agentVars
<1> QED  BY <1>2, <1>3, <1>4, <1>5, StepCases

(* None of its lines is blank.                                             *)
LEMMA SpeakingSeen ==
  ASSUME NEW s \in Seq(Speaking)
  PROVE  Sift(s, Events) = s
<1>1. s \in Seq(Lines) /\ Len(s) \in Nat /\ \A i \in 1 .. Len(s) : s[i] \in Lines /\ s[i].event # "blank"
  <2>1. s \in Seq(Lines)  BY SpeakingFacts
  <2>2. \A i \in 1 .. Len(s) : s[i] \in Lines /\ s[i] \in Speaking  BY <2>1, ElementOfSeq
  <2>3. \A l \in Speaking : l.event # "blank"  BY SpeakingFacts
  <2> QED  BY <2>1, <2>2, <2>3
<1> DEFINE n  == Len(s)
           ss == [i \in 1 .. Len(s) |-> Events[s[i]]]
           f  == [i \in 0 .. n |-> SubSeq(s, 1, i)]
<1>2. ss \in Seq(Seq(Lines)) /\ Len(ss) = n  BY <1>1, SiftType, EventsType
<1>3. \A i \in 1 .. n : ss[i] = <<s[i]>>  BY <1>1 DEF Events, EventOf
<1>4. f \in [0 .. n -> Seq(Lines)]
  <2>1. \A i \in 0 .. n : SubSeq(s, 1, i) \in Seq(Lines)  BY <1>1, CutSeq
  <2> QED  BY <2>1
<1>5. f[0] = <<>>
  <2>1. 0 \in 0 .. n  BY <1>1
  <2>2. SubSeq(s, 1, 0) \in Seq(Lines) /\ Len(SubSeq(s, 1, 0)) = 0  BY <1>1, <2>1, CutSeq
  <2>3. SubSeq(s, 1, 0) = <<>>  BY <2>2, EmptySeq
  <2> QED  BY <2>1, <2>3
<1>6. ASSUME NEW i \in 1 .. n PROVE f[i] = f[i - 1] \o ss[i]
  <2>1. i \in 0 .. n /\ i - 1 \in 0 .. n /\ i - 1 \in Nat  BY <1>1
  <2> DEFINE a == SubSeq(s, 1, i - 1)
             b == SubSeq(s, 1, i)
             l == s[i]
  <2>2. a \in Seq(Lines) /\ Len(a) = i - 1 /\ \A j \in 1 .. i - 1 : a[j] = s[j]  BY <1>1, <2>1, CutSeq
  <2>3. b \in Seq(Lines) /\ Len(b) = i /\ \A j \in 1 .. i : b[j] = s[j]  BY <1>1, <2>1, CutSeq
  <2>4. l \in Lines /\ f[i] = b /\ f[i - 1] = a /\ ss[i] = <<l>>  BY <1>1, <1>3, <2>1
  <2>l. l = s[i]  OBVIOUS
  <2> HIDE DEF a, b, l, f, ss
  <2>5. a \o <<l>> = Append(a, l)  BY <2>2, <2>4, AppendIsConcat
  <2>6. /\ Append(a, l) \in Seq(Lines) /\ Len(Append(a, l)) = i
        /\ Append(a, l)[i] = l /\ \A j \in 1 .. i - 1 : Append(a, l)[j] = a[j]
    <3>1. /\ Append(a, l) \in Seq(Lines) /\ Len(Append(a, l)) = Len(a) + 1
          /\ Append(a, l)[Len(a) + 1] = l /\ \A j \in 1 .. Len(a) : Append(a, l)[j] = a[j]
      BY <2>2, <2>4, AppendProperties
    <3>2. Len(a) + 1 = i  BY <2>1, <2>2
    <3> QED  BY <2>2, <3>1, <3>2
  <2>7. \A j \in 1 .. i : b[j] = Append(a, l)[j]
    <3> TAKE j \in 1 .. i
    <3>1. j \in 1 .. i - 1 \/ j = i  BY <2>1
    <3>2. i \in 1 .. i  BY <1>1
    <3> QED  BY <2>2, <2>3, <2>6, <2>l, <3>1, <3>2
  <2>8. b = Append(a, l)  BY <2>3, <2>6, <2>7, SeqEqual
  <2> QED  BY <2>4, <2>5, <2>8
<1>7. Sums(f, ss, Lines)
  <2> HIDE DEF f, ss
  <2> QED  BY <1>2, <1>4, <1>5, <1>6 DEF Sums
<1>8. FlattenSeq(ss) = f[n]
  <2> HIDE DEF f, ss, n
  <2> QED  BY <1>2, <1>7, SumsFlatten
<1>9. f[n] = s
  <2>1. n \in 0 .. n  BY <1>1
  <2>2. SubSeq(s, 1, n) = s  BY <1>1, LeftNone
  <2> QED  BY <2>1, <2>2
<1> QED  BY <1>8, <1>9 DEF Sift

LEMMA TemplateLines ==
  ASSUME TypeInv, TemplateInv, make = "template"
  PROVE  /\ Sift(sent, Events) = sent
         /\ \A i \in 1 .. Len(sent) : \/ sent[i].event \in {"token", "replace"}
                                      \/ ended /\ i = Len(sent)
         /\ ended => /\ Len(sent) \in 1 .. Len(sent)
                     /\ \/ fate = "returned" /\ sent[Len(sent)].event = "final"
                        \/ fate = "threw" /\ sent[Len(sent)].event = "error"
<1>1. CASE ~ended /\ fate = "running" /\ sent \in Seq(Speaking)
  <2>1. \A i \in 1 .. Len(sent) : sent[i] \in Speaking  BY <1>1, ElementOfSeq
  <2> QED  BY <1>1, <2>1, SpeakingFacts, SpeakingSeen
<1>2. CASE ended /\ \E ls \in Seq(Speaking), l \in Lines : Closed(ls, l)
  <2>1. PICK ls \in Seq(Speaking), l \in Lines : Closed(ls, l)  BY <1>2
  <2>2. ls \in Seq(Lines) /\ <<l>> \in Seq(Lines) /\ Len(<<l>>) = 1 /\ <<l>>[1] = l /\ Len(ls) \in Nat
        /\ Sift(ls, Events) = ls
    BY SpeakingFacts, SpeakingSeen
  <2>3. sent = ls \o <<l>>  BY <2>1 DEF Closed
  <2>4. /\ Len(sent) = Len(ls) + 1
        /\ \A i \in 1 .. Len(ls) + 1 : sent[i] = IF i <= Len(ls) THEN ls[i] ELSE <<l>>[i - Len(ls)]
    BY <2>2, <2>3, ConcatProperties
  <2>5. sent[Len(sent)] = l /\ Len(sent) \in 1 .. Len(sent)
    <3>1. Len(ls) + 1 \in 1 .. Len(ls) + 1 /\ ~(Len(ls) + 1 <= Len(ls)) /\ (Len(ls) + 1) - Len(ls) = 1
      BY <2>2
    <3>2. sent[Len(ls) + 1] = <<l>>[1]  BY <2>4, <3>1
    <3> QED  BY <2>2, <2>4, <3>1, <3>2
  <2>6. ASSUME NEW i \in 1 .. Len(sent) PROVE sent[i].event \in {"token", "replace"} \/ i = Len(sent)
    <3>1. SUFFICES ASSUME i # Len(sent) PROVE sent[i].event \in {"token", "replace"}  OBVIOUS
    <3>2. i \in 1 .. Len(ls) /\ i <= Len(ls) /\ i \in 1 .. Len(ls) + 1  BY <2>2, <2>4, <3>1
    <3>3. sent[i] = ls[i] /\ ls[i] \in Speaking  BY <2>4, <3>2, ElementOfSeq
    <3> QED  BY <3>3, SpeakingFacts
  <2>7. /\ l.event # "blank"
        /\ \/ fate = "returned" /\ l.event = "final"
           \/ fate = "threw" /\ l.event = "error"
    BY <2>1 DEF Closed
  <2>8. Sift(sent, Events) = sent
    <3>1. Sift(ls \o <<l>>, Events) = Sift(ls, Events) \o Sift(<<l>>, Events)
      BY <2>2, SiftConcat, EventsType
    <3>2. Sift(<<l>>, Events) = Events[l]  BY SiftOne, EventsType
    <3>3. Events[l] = <<l>>  BY <2>7 DEF Events, EventOf
    <3> QED  BY <2>2, <2>3, <3>1, <3>2, <3>3
  <2> QED  BY <1>2, <2>5, <2>6, <2>7, <2>8
<1> QED  BY <1>1, <1>2 DEF TemplateInv

(* An agent on the runner fails to be read only if its handler threw.      *)
LEMMA TemplateFails ==
  ASSUME TypeInv, WireInv, FinalInv, TemplateInv, make = "template", TakeLine \/ ReadDone, pc' = "failed"
  PROVE  fate = "threw" /\ fate' = fate
<1>f. fate' = fate  BY DEF TakeLine, ReadDone, agentVars
<1>p. pc \in {"read", "lines"}  BY DEF TakeLine, ReadDone
<1>s. sent \in Seq(Lines) /\ seen \in Seq(Lines) /\ buffer \in Seq(WirePieces) /\ Len(buffer) \in Nat
  BY DEF TypeInv, StreamType, OutcomeType
<1>1. PICK k \in 0 .. Len(sent) : ReadTo(k)  BY DEF WireInv, Streaming
<1>2. PICK tail \in {<<>>, <<NL>>} : Under(k, tail)  BY <1>p, <1>1, UnderPick DEF ReadTo
<1>3. CASE TakeLine
  <2> DEFINE nl == CHOOSE i \in LineEnds : \A j \in LineEnds : i <= j
  <2>1. /\ LineEnds \in SUBSET Nat /\ LineEnds # {} /\ LineEnds \subseteq 1 .. Len(buffer)
    BY <1>s, <1>3 DEF TakeLine, LineEnds
  <2>2. FirstEnd(nl)
    <3>1. \E i \in LineEnds : \A j \in LineEnds : i <= j  BY <2>1, LeastElement
    <3> QED  BY <3>1, Zenon DEF FirstEnd
  <2>3. nl \in 1 .. Len(buffer)  BY <2>1, <2>2 DEF FirstEnd
  <2>4. Line(nl).event \in {"noJson", "incomplete", "error"}
    <3>1. pc # "failed"  BY <1>p
    <3> QED  BY <1>3, <3>1 DEF TakeLine, Line, HandleEvent
  <2> HIDE DEF nl
  <2>5. k # Len(sent) /\ Line(nl) = sent[k + 1]  BY <1>2, <2>2, <2>3, LineTaken
  <2>6. k + 1 \in 1 .. Len(sent)  BY <1>s, <2>5, NextLine
  <2> QED  BY <1>f, <2>4, <2>5, <2>6, TemplateLines
<1>4. CASE ReadDone
  <2> DEFINE line == ParseLine(buffer)
             last == IF line.event = "final" THEN line.data ELSE answer
  <2>1. pc = "read" /\ wire = <<>> /\ ended /\ (line.event \in {"noJson", "incomplete", "error"} \/ last = None)
    BY <1>4 DEF ReadDone, Accept
  <2>2. \A i \in 1 .. Len(buffer) : buffer[i] # NL  BY <2>1 DEF WireInv
  <2>3. \/ k = Len(sent) /\ line = Plain("blank")
        \/ k # Len(sent) /\ k + 1 = Len(sent) /\ line = sent[k + 1] /\ sent[k + 1].event = "final"
    BY <1>2, <2>1, <2>2, LastTaken
  <2>4. line \in Lines  BY ParseType
  <2> HIDE DEF line
  <2>5. CASE k = Len(sent) /\ line = Plain("blank")
    <3>1. line.event = "blank"  BY <2>5 DEF Plain
    <3>2. answer = None  BY <2>1, <3>1
    <3>3. seen = sent
      <4>1. seen = Sift(SubSeq(sent, 1, k), Events)  BY <1>1 DEF ReadTo, Taken
      <4>2. SubSeq(sent, 1, k) = sent  BY <1>s, <2>5, LeftNone
      <4> QED  BY <4>1, <4>2, TemplateLines
    <3>4. \A i \in 1 .. Len(sent) : sent[i].event # "final"  BY <3>2, <3>3 DEF FinalInv
    <3> QED  BY <1>f, <2>1, <3>4, TemplateLines
  <2>6. CASE k # Len(sent) /\ k + 1 = Len(sent) /\ line = sent[k + 1] /\ sent[k + 1].event = "final"
    <3>1. line.event = "final"  BY <2>6
    <3>2. line.data \in Answers  BY <2>4, <3>1, LineFacts
    <3> QED  BY <2>1, <3>1, <3>2, AgentAssumption
  <2> QED  BY <2>3, <2>5, <2>6
<1> QED  BY <1>3, <1>4

(* How calls end.                                                          *)
Cause == fate = "threw" \/ broken = "network" \/ request.messages = <<>>

OutcomeInv ==
    /\ make = "cli" /\ result = "ok" => /\ child.code = "zero" /\ child.out = "good" /\ ~child.late
                                       /\ answer = Decoded(child.wrote, child.cuts)
    /\ result = "cancelled" => cancelled
    /\ broken = "cancel" => cancelled
    /\ make = "template" /\ result = "bad" => Cause
    /\ pc = "exec" => make = "cli"
    /\ pc \in Waiting => make # "cli"
    /\ pc = "body" => make = "json"

LEMMA CliOutcome ==
  ASSUME TypeInv, OutcomeInv, Cli
  PROVE  OutcomeInv'
<1>1. pc = "exec" /\ agent' = agent /\ UNCHANGED hostVars
  BY DEF Cli, CliSpawns, CliSpawnFails, CliWrites, CliExits, OutputReleased, CliTimer, CliClose,
     Running, StaysWithChild, Fail, Judge, AcceptWhole, Accept, callVars
<1>2. make = "cli" /\ make' = "cli" /\ result = "none"
  BY <1>1 DEF OutcomeInv, TypeInv, OutcomeType, make
<1>3. \/ pc' = pc /\ result' = "none"
      \/ pc' = "failed" /\ result' \in {"bad", "timed out"}
      \/ /\ pc' \in {"type", "done"} /\ result' = "ok" /\ CliVerdict = "good" /\ child' = child
         /\ answer' = Decoded(child.wrote, child.cuts)
  <2>1. CASE CliClose
    <3>1. IF CliVerdict = "timed out" THEN Fail("timed out") /\ UNCHANGED replyVars
          ELSE Judge(CliVerdict, Decoded(child.wrote, child.cuts))
      BY <2>1 DEF CliClose
    <3>2. child' = child  BY <2>1 DEF CliClose
    <3>3. CASE CliVerdict = "timed out"  BY <3>1, <3>3 DEF Fail
    <3>4. CASE CliVerdict = "good"  BY <3>1, <3>2, <3>4 DEF Judge, AcceptWhole, Accept
    <3>5. CASE CliVerdict \notin {"timed out", "good"}  BY <3>1, <3>5 DEF Judge, Fail
    <3> QED  BY <3>3, <3>4, <3>5
  <2>2. CASE CliSpawnFails  BY <2>2 DEF CliSpawnFails, Fail
  <2>3. CASE CliSpawns \/ CliWrites \/ CliExits \/ OutputReleased \/ CliTimer
    BY <1>2, <2>3 DEF CliSpawns, CliWrites, CliExits, OutputReleased, CliTimer
  <2> QED  BY <2>1, <2>2, <2>3 DEF Cli
<1>4. CliVerdict = "good" => child.code = "zero" /\ child.out = "good" /\ ~child.late
  BY DEF CliVerdict
<1>5. cancelled' = cancelled /\ broken' = broken /\ (broken = "cancel" => cancelled)
  BY <1>1 DEF hostVars, OutcomeInv
<1> QED  BY <1>1, <1>2, <1>3, <1>4, <1>5 DEF OutcomeInv, Waiting

LEMMA TransportOutcome ==
  ASSUME TypeInv, OutcomeInv, Transport
  PROVE  OutcomeInv'
<1>1. pc \in Waiting /\ agent' = agent
  BY DEF Transport, TimeoutFires, TimeoutCovers, ConnectionLost, Breaks, CancelArrives, HttpRejects, HttpAnswers,
     BodyArrives, Waiting, Fail, Judge, AcceptWhole, Accept, callVars
<1>2. /\ make' = make /\ make # "cli" /\ result = "none" /\ (broken = "cancel" => cancelled)
      /\ (pc = "body" => make = "json") /\ pc # "exec"
  BY <1>1 DEF OutcomeInv, TypeInv, OutcomeType, Waiting, make
<1>3. CASE TimeoutFires \/ ConnectionLost
  <2>1. UNCHANGED <<pc, result, cancelled>> /\ broken' \in {"timeout", "network"}
    BY <1>3 DEF TimeoutFires, ConnectionLost, Breaks
  <2> QED  BY <1>2, <2>1 DEF OutcomeInv
<1>4. CASE CancelArrives
  <2>1. UNCHANGED <<pc, result>> /\ cancelled' = TRUE  BY <1>4 DEF CancelArrives
  <2> QED  BY <1>2, <2>1 DEF OutcomeInv
<1>5. CASE HttpRejects
  <2>1. pc' = "failed" /\ result' = TransportError /\ UNCHANGED hostVars /\ broken # "none"
    BY <1>5 DEF HttpRejects, Fail
  <2>2. result' = "cancelled" => cancelled  BY <2>1 DEF TransportError
  <2>3. result' = "bad" => broken = "network"
    <3>1. broken \in {"none", "timeout", "cancel", "network"}  BY DEF TypeInv, HostType
    <3> QED  BY <1>2, <2>1, <3>1 DEF TransportError
  <2>4. result' # "ok"  BY <2>1 DEF TransportError
  <2> QED  BY <1>2, <2>1, <2>2, <2>3, <2>4 DEF OutcomeInv, Cause, hostVars, Waiting
<1>6. CASE HttpAnswers
  <2>1. /\ UNCHANGED hostVars
        /\ \/ /\ pc' = "failed" /\ result' = "bad" /\ request' = request
              /\ make = "template" => request.messages = <<>>
           \/ pc' = (IF make = "json" THEN "body" ELSE "read") /\ result' = result
    BY <1>6 DEF HttpAnswers, Fail, turnVars
  <2> QED  BY <1>2, <2>1 DEF OutcomeInv, Cause, hostVars, Waiting
<1>7. CASE BodyArrives
  <2>1. make = "json"  BY <1>2, <1>7 DEF BodyArrives
  <2>2. pc' \in {"type", "done", "failed"} /\ result' \in {"ok", "bad"} /\ UNCHANGED hostVars
    BY <1>7 DEF BodyArrives, Judge, AcceptWhole, Accept, Fail
  <2> QED  BY <1>2, <2>1, <2>2 DEF OutcomeInv, hostVars, Waiting
<1> QED  BY <1>3, <1>4, <1>5, <1>6, <1>7 DEF Transport

LEMMA OutcomeHolds ==
  ASSUME TypeInv, WireInv, FinalInv, TemplateInv, OutcomeInv, [Next]_vars
  PROVE  OutcomeInv'
<1>m. make' = make  BY CallStays DEF make
<1>1. CASE UNCHANGED <<pc, result, child, answer, hostVars, fate, request>>
  BY <1>1, <1>m DEF OutcomeInv, Cause, hostVars
<1>2. CASE BeginCall
  <2>1. /\ pc' = IF make = "cli" THEN "exec" ELSE "fetch"
        /\ result' = "none" /\ broken' = "none"
    BY <1>2 DEF BeginCall, FreshCall
  <2> QED  BY <1>m, <2>1 DEF OutcomeInv, Waiting
<1>3. CASE Agent
  <2>1. UNCHANGED <<pc, result, child, hostVars>> /\ pc \in {"read", "lines"}  BY <1>3, AgentLines
  <2>2. result = "none"  BY <2>1 DEF TypeInv, OutcomeType
  <2> QED  BY <1>m, <2>1, <2>2 DEF OutcomeInv, hostVars
<1>4. CASE ReadChunk \/ NoMoreLines
  <2>1. UNCHANGED <<result, child, hostVars>> /\ pc \in {"read", "lines"} /\ pc' \in {"read", "lines"}
    BY <1>4 DEF ReadChunk, NoMoreLines
  <2>2. result = "none"  BY <2>1 DEF TypeInv, OutcomeType
  <2> QED  BY <1>m, <2>1, <2>2 DEF OutcomeInv, hostVars, Waiting
<1>5. CASE TakeLine \/ ReadDone
  <2>1. UNCHANGED <<child, hostVars>> /\ pc \in {"read", "lines"}
    BY <1>5 DEF TakeLine, ReadDone
  <2>2. \/ pc' = pc /\ result' = result
        \/ pc' = "type" /\ result' = "ok"
        \/ pc' = "failed" /\ result' = "bad"
    <3>1. CASE TakeLine
      <4> DEFINE nl    == CHOOSE i \in LineEnds : \A j \in LineEnds : i <= j
                 event == ParseLine(SubSeq(buffer, 1, nl - 1))
      <4>1. CASE event.event \in {"noJson", "incomplete", "error"}
        <5>1. Fail("bad")  BY <3>1, <4>1 DEF TakeLine
        <5> QED  BY <5>1 DEF Fail
      <4>2. CASE event.event \notin {"noJson", "incomplete", "error"}
        <5>1. UNCHANGED <<pc, result>>  BY <3>1, <4>2 DEF TakeLine
        <5> QED  BY <5>1
      <4> QED  BY <4>1, <4>2
    <3>2. CASE ReadDone  BY <3>2 DEF ReadDone, Fail, Accept
    <3> QED  BY <1>5, <3>1, <3>2
  <2>3. result = "none" /\ make # "cli"  BY <2>1 DEF TypeInv, OutcomeType, OutcomeInv, Waiting
  <2>4. make = "template" /\ pc' = "failed" => fate' = "threw"  BY <1>5, TemplateFails
  <2> QED  BY <1>m, <2>1, <2>2, <2>3, <2>4 DEF OutcomeInv, Cause, hostVars, Waiting
<1>6. CASE TypeReply
  <2>1. UNCHANGED <<result, child, answer, hostVars, fate, request>> /\ pc' = "done"
    BY <1>6 DEF TypeReply, agentVars, turnVars
  <2> QED  BY <1>m, <2>1 DEF OutcomeInv, Cause, hostVars, Waiting
<1>7. CASE UNCHANGED vars  BY <1>1, <1>7 DEF vars, agentVars, turnVars, replyVars
<1> QED  BY <1>2, <1>3, <1>4, <1>5, <1>6, <1>7, CliOutcome, TransportOutcome DEF Next, Reader

(* A prefix, position by position.                                         *)
LEMMA PrefixCut ==
  ASSUME NEW S, NEW s \in Seq(S), NEW t \in Seq(S)
  PROVE  IsPrefix(s, t) <=> Len(s) <= Len(t) /\ \A i \in 1 .. Len(s) : t[i] = s[i]
<1>1. CASE Len(s) <= Len(t)
  <2>1. Len(s) \in 0 .. Len(t) /\ Len(s) \in 0 .. Len(s) /\ Len(s) \in Nat  BY <1>1
  <2> DEFINE n == Len(s)
             a == SubSeq(s, 1, n)
             b == SubSeq(t, 1, n)
  <2>2. a \in Seq(S) /\ Len(a) = n /\ \A i \in 1 .. n : a[i] = s[i]  BY <2>1, CutSeq
  <2>3. b \in Seq(S) /\ Len(b) = n /\ \A i \in 1 .. n : b[i] = t[i]  BY <2>1, CutSeq
  <2>4. IsPrefix(s, t) <=> a = b  BY <1>1 DEF IsPrefix
  <2>n. n \in Nat  BY <2>1
  <2> HIDE DEF a, b, n
  <2>5. a = b <=> \A i \in 1 .. n : t[i] = s[i]
    <3>1. (\A i \in 1 .. n : a[i] = b[i]) => a = b  BY <2>2, <2>3, <2>n, SeqEqual
    <3> QED  BY <2>2, <2>3, <3>1
  <2> QED  BY <1>1, <2>4, <2>5 DEF n
<1>2. CASE ~(Len(s) <= Len(t))  BY <1>2 DEF IsPrefix
<1> QED  BY <1>1, <1>2

LEMMA PrefixOfConcat ==
  ASSUME NEW S, NEW s \in Seq(S), NEW t \in Seq(S)
  PROVE  IsPrefix(s, s \o t)
<1>1. /\ s \o t \in Seq(S) /\ Len(s \o t) = Len(s) + Len(t) /\ Len(s) \in Nat /\ Len(t) \in Nat
      /\ \A i \in 1 .. Len(s) + Len(t) : (s \o t)[i] = IF i <= Len(s) THEN s[i] ELSE t[i - Len(s)]
  BY ConcatProperties
<1> DEFINE u == s \o t
<1>2. Len(s) <= Len(u) /\ \A i \in 1 .. Len(s) : u[i] = s[i]
  <2>1. \A i \in 1 .. Len(s) : i \in 1 .. Len(s) + Len(t) /\ i <= Len(s)  BY <1>1
  <2> QED  BY <1>1, <2>1
<1>3. u \in Seq(S)  BY <1>1
<1> HIDE DEF u
<1>4. IsPrefix(s, u)  BY <1>2, <1>3, PrefixCut
<1> QED  BY <1>4 DEF u

LEMMA FaithfulSuffices ==
  ASSUME TypeInv, WireInv, FinalInv, TemplateInv, OutcomeInv
  PROVE  AnswerFaithful
<1>s. sent \in Seq(Lines) /\ seen \in Seq(Lines) /\ Len(sent) \in Nat
  BY DEF TypeInv, StreamType, OutcomeType
<1>1. ASSUME Streaming
      PROVE  /\ IsPrefix(seen, SentEvents)
             /\ result = "ok" => ended /\ seen = SentEvents
  <2>1. PICK k \in 0 .. Len(sent) : ReadTo(k)  BY <1>1 DEF WireInv
  <2>2. SentEvents = Sift(sent, Events)  BY SentIsSift
  <2> DEFINE a == SubSeq(sent, 1, k)
             b == SubSeq(sent, k + 1, Len(sent))
  <2>3. a \in Seq(Lines) /\ b \in Seq(Lines) /\ a \o b = sent  BY <1>s, CutSeq
  <2>4. seen = Sift(a, Events)  BY <2>1 DEF ReadTo, Taken
  <2>5. result = "ok" => ended /\ seen = SentEvents
    <3>1. SUFFICES ASSUME result = "ok" PROVE ended /\ seen = SentEvents  OBVIOUS
    <3>2. pc \in {"type", "done"}  BY <3>1 DEF TypeInv, OutcomeType
    <3>3. k = Len(sent) /\ ended  BY <2>1, <3>2 DEF ReadTo
    <3>4. a = sent  BY <1>s, <3>3, LeftNone
    <3> QED  BY <2>2, <2>4, <3>3, <3>4
  <2> HIDE DEF a, b
  <2> DEFINE x == Sift(a, Events)
             y == Sift(b, Events)
  <2>6. Sift(a \o b, Events) = x \o y  BY <2>3, SiftConcat, EventsType
  <2>7. x \in Seq(Lines) /\ y \in Seq(Lines)  BY <2>3, SiftType, EventsType
  <2>8. SentEvents = x \o y /\ seen = x  BY <2>2, <2>3, <2>4, <2>6
  <2> HIDE DEF x, y
  <2>9. IsPrefix(x, x \o y)  BY <2>7, PrefixOfConcat
  <2> QED  BY <2>5, <2>8, <2>9
<1>2. result = "ok" => /\ answer # None /\ pc \in {"type", "done"}
                       /\ \E i \in 1 .. Len(seen) :
                             /\ seen[i] = Final(answer)
                             /\ \A j \in (i + 1) .. Len(seen) : seen[j].event # "final"
  BY DEF FinalInv, TypeInv, OutcomeType
<1>3. make = "template" =>
         /\ result = "ok" => /\ fate = "returned"
                             /\ Cardinality({i \in 1 .. Len(seen) : seen[i].event = "final"}) = 1
         /\ result = "bad" => Cause
  <2>1. SUFFICES ASSUME make = "template", result = "ok"
                 PROVE  /\ fate = "returned"
                        /\ Cardinality({i \in 1 .. Len(seen) : seen[i].event = "final"}) = 1
    BY DEF OutcomeInv
  <2>2. seen = sent /\ ended
    <3>1. Streaming  BY <2>1 DEF Streaming
    <3> QED  BY <1>1, <2>1, <3>1, SentIsSift, TemplateLines
  <2>3. PICK i \in 1 .. Len(sent) : sent[i].event = "final"
    <3>1. PICK i \in 1 .. Len(sent) : sent[i] = Final(answer)  BY <1>2, <2>1, <2>2
    <3> QED  BY <3>1 DEF Final
  <2>4. i = Len(sent)  BY <2>1, <2>3, TemplateLines
  <2>5. fate = "returned" /\ sent[Len(sent)].event = "final" /\ Len(sent) \in 1 .. Len(sent)
    BY <2>1, <2>2, <2>3, <2>4, TemplateLines
  <2>6. {j \in 1 .. Len(seen) : seen[j].event = "final"} = {Len(sent)}
    <3>1. \A j \in 1 .. Len(sent) : sent[j].event = "final" => j = Len(sent)
      BY <2>1, TemplateLines
    <3> QED  BY <2>2, <2>5, <3>1
  <2> QED  BY <2>5, <2>6, FS_Singleton
<1>4. make \in {"template", "other"} =>
         /\ IsPrefix(seen, SentEvents)
         /\ result = "ok" => /\ ended /\ seen = SentEvents
                             /\ \E i \in 1..Len(seen) :
                                   /\ seen[i] = Final(answer)
                                   /\ \A j \in (i + 1)..Len(seen) : seen[j].event # "final"
  BY <1>1, <1>2 DEF Streaming
<1>5. /\ make = "cli" /\ result = "ok" => /\ child.code = "zero" /\ child.out = "good" /\ ~child.late
                                         /\ answer = Decoded(child.wrote, child.cuts)
      /\ result = "cancelled" => cancelled
  BY DEF OutcomeInv
<1> QED  BY <1>3, <1>4, <1>5 DEF AnswerFaithful, Cause

StreamInv == TypeInv /\ WireInv /\ FinalInv /\ TemplateInv /\ OutcomeInv

LEMMA StreamInvariant == Spec => []StreamInv
<1>1. Init => WireInv /\ FinalInv /\ TemplateInv /\ OutcomeInv
  <2> SUFFICES ASSUME Init PROVE WireInv /\ FinalInv /\ TemplateInv /\ OutcomeInv  OBVIOUS
  <2>1. /\ sent = <<>> /\ wire = <<>> /\ buffer = <<>> /\ seen = <<>> /\ pc = "start" /\ result = "none"
        /\ broken = "none" /\ answer = None /\ ended = FALSE /\ fate = "running"
    BY DEF Init
  <2>2. Taken(0) /\ Under(0, <<>>) /\ 0 \in 0 .. Len(sent) /\ \A i \in 1 .. Len(buffer) : buffer[i] # NL
    BY <2>1, NothingSent DEF Taken, Under
  <2>3. ReadTo(0)  BY <2>1, <2>2 DEF ReadTo
  <2>4. WireInv  BY <2>1, <2>2, <2>3 DEF WireInv
  <2>5. FinalInv  BY <2>1, NothingSent DEF FinalInv
  <2>6. TemplateInv  BY <2>1, EmptySeq DEF TemplateInv
  <2>7. OutcomeInv  BY <2>1 DEF OutcomeInv, Waiting
  <2> QED  BY <2>4, <2>5, <2>6, <2>7
<1>2. /\ TypeInv /\ WireInv /\ FinalInv /\ TemplateInv /\ OutcomeInv /\ [Next]_vars
      => WireInv' /\ FinalInv' /\ TemplateInv' /\ OutcomeInv'
  BY WireHolds, FinalHolds, TemplateHolds, OutcomeHolds
<1> QED  BY <1>1, <1>2, TypeInvariant, PTL DEF Spec, StreamInv

(* What the service takes for the answer of an agent is what the agent     *)
(* said, however the stream is cut into chunks, whatever else the agent    *)
(* writes and whenever the transport breaks, the timeout fires or the run  *)
(* is cancelled; and the failures are told apart.                          *)
THEOREM AnswerFaithfulCorrect == Spec => []AnswerFaithful
<1>1. StreamInv => AnswerFaithful  BY FaithfulSuffices DEF StreamInv
<1> QED  BY <1>1, StreamInvariant, PTL

-----------------------------------------------------------------------------
(***************************************************************************)
(* What the client is shown.                                               *)
(***************************************************************************)
(* v shows the text of a message as far as the service has it.             *)
Shows(v, id) ==
    /\ "partial" \in modes => v.partial[id] = accumulated[id]
    /\ "tuple" \in modes /\ ("custom" \in modes \/ id \notin v.replaced)
          => v.tuple[id] = accumulated[id]

(* Delivered, of any view.                                                 *)
DeliveredIn(v, m) ==
    /\ "partial" \in modes /\ m.text # <<>> => v.partial[m.id] = m.text
    /\ "tuple" \in modes /\ m.kwargs # "handoff"
          /\ ("custom" \in modes \/ m.id \notin v.replaced \union v.retyped)
       => v.tuple[m.id] = m.text

(* v and w are the same for a message.                                     *)
SameFor(v, w, id) ==
    /\ v.tuple[id] = w.tuple[id] /\ v.partial[id] = w.partial[id]
    /\ (id \in v.replaced <=> id \in w.replaced) /\ (id \in v.retyped <=> id \in w.retyped)

LEMMA SameShows ==
  ASSUME NEW v, NEW w, NEW id, SameFor(v, w, id)
  PROVE  Shows(v, id) => Shows(w, id)
BY DEF SameFor, Shows

LEMMA SameDelivers ==
  ASSUME NEW v, NEW w, NEW m, SameFor(v, w, m.id)
  PROVE  DeliveredIn(v, m) => DeliveredIn(w, m)
BY DEF SameFor, DeliveredIn

(* Text that is emitted.                                                   *)
LEMMA EmitFacts ==
  ASSUME NEW v \in Views, NEW id \in Ids, NEW s \in Seq(Words), NEW d \in Seq(Words)
  PROVE  /\ EmitText(v, id, s, d).tuple[id] = IF "tuple" \in modes THEN v.tuple[id] \o d ELSE v.tuple[id]
         /\ EmitText(v, id, s, d).partial[id] = IF "partial" \in modes THEN s \o d ELSE v.partial[id]
         /\ EmitText(v, id, s, d).replaced = v.replaced /\ EmitText(v, id, s, d).retyped = v.retyped
         /\ \A other \in Ids : other # id => SameFor(v, EmitText(v, id, s, d), other)
BY DEF EmitText, Views, Texts, SameFor

LEMMA ReplaceFacts ==
  ASSUME NEW v \in Views, NEW id \in Ids, NEW words \in Seq(Words)
  PROVE  /\ EmitReplace(v, id, words).tuple[id]
               = IF {"tuple", "custom"} \subseteq modes THEN words ELSE v.tuple[id]
         /\ EmitReplace(v, id, words).partial[id] = IF "partial" \in modes THEN words ELSE v.partial[id]
         /\ EmitReplace(v, id, words).replaced = v.replaced \union {id}
         /\ EmitReplace(v, id, words).retyped = v.retyped
         /\ \A other \in Ids : other # id => SameFor(v, EmitReplace(v, id, words), other)
BY DEF EmitReplace, Views, Texts, SameFor

(* Before a message is typed out, what is wrong of it is taken back.       *)
Started(v, m) ==
    IF Wrong(m)
    THEN [v EXCEPT !.retyped = @ \union {m.id},
                   !.tuple[m.id] = IF "custom" \in modes THEN <<>> ELSE @]
    ELSE v

Right(m) == IF Wrong(m) THEN <<>> ELSE accumulated[m.id]

LEMMA StartFacts ==
  ASSUME NEW v \in Views, NEW m \in Replies, accumulated \in Texts
  PROVE  /\ Started(v, m) \in Views /\ Right(m) \in Seq(Words)
         /\ ToType(m, Right(m)) \in Seq(Words) /\ Right(m) \o ToType(m, Right(m)) = m.text
         /\ Started(v, m).partial = v.partial /\ Started(v, m).replaced = v.replaced
         /\ Started(v, m).retyped = IF Wrong(m) THEN v.retyped \union {m.id} ELSE v.retyped
         /\ Started(v, m).tuple[m.id] = IF Wrong(m) /\ "custom" \in modes THEN <<>> ELSE v.tuple[m.id]
         /\ \A other \in Ids : other # m.id => SameFor(v, Started(v, m), other)
         /\ TypeOut(v, m) = IF m.kwargs = "handoff" THEN EmitText(Started(v, m), m.id, <<>>, m.text)
                            ELSE IF ToType(m, Right(m)) = <<>> /\ m.kwargs = "none" THEN Started(v, m)
                            ELSE EmitText(Started(v, m), m.id, Right(m), ToType(m, Right(m)))
<1>1. /\ v.tuple \in Texts /\ v.partial \in Texts /\ v.replaced \in SUBSET Ids
      /\ v.retyped \in SUBSET Ids /\ m.id \in Ids /\ m.text \in Seq(Words)
  BY DEF Views, Replies
<1>2. accumulated[m.id] \in Seq(Words) /\ <<>> \in Seq(Words)  BY <1>1, EmptySeq DEF Texts
<1>3. Right(m) \in Seq(Words)  BY <1>2 DEF Right
<1>4. Started(v, m) \in Views
  <2>1. CASE Wrong(m)
    <3>1. v.tuple[m.id] \in Seq(Words)  BY <1>1 DEF Texts
    <3>2. (IF "custom" \in modes THEN <<>> ELSE v.tuple[m.id]) \in Seq(Words)  BY <1>2, <3>1
    <3> QED  BY <1>1, <2>1, <3>2 DEF Started, Views, Texts
  <2>2. CASE ~Wrong(m)  BY <2>2 DEF Started
  <2> QED  BY <2>1, <2>2
<1>5. /\ Started(v, m).partial = v.partial /\ Started(v, m).replaced = v.replaced
      /\ Started(v, m).retyped = IF Wrong(m) THEN v.retyped \union {m.id} ELSE v.retyped
      /\ Started(v, m).tuple[m.id] = IF Wrong(m) /\ "custom" \in modes THEN <<>> ELSE v.tuple[m.id]
      /\ \A other \in Ids : other # m.id => SameFor(v, Started(v, m), other)
  <2>1. CASE Wrong(m)  BY <1>1, <2>1 DEF Started, Views, Texts, SameFor
  <2>2. CASE ~Wrong(m)  BY <2>2 DEF Started, SameFor
  <2> QED  BY <2>1, <2>2
<1>6. ToType(m, Right(m)) \in Seq(Words) /\ Right(m) \o ToType(m, Right(m)) = m.text
  <2> DEFINE r == Right(m)
             t == m.text
             n == Len(r)
             a == SubSeq(t, 1, n)
             b == SubSeq(t, n + 1, Len(t))
  <2>1. r \in Seq(Words) /\ t \in Seq(Words) /\ n \in Nat /\ Len(t) \in Nat  BY <1>1, <1>3
  <2>2. n <= Len(t) /\ \A i \in 1 .. n : t[i] = r[i]
    <3>1. CASE Wrong(m)
      <4>1. n = 0  BY <3>1, EmptySeq DEF Right
      <4> QED  BY <2>1, <4>1
    <3>2. CASE ~Wrong(m)
      <4>1. r = accumulated[m.id] /\ IsPrefix(accumulated[m.id], t)  BY <3>2 DEF Right, Wrong
      <4>2. IsPrefix(r, t)  BY <4>1
      <4> HIDE DEF r, t
      <4> QED  BY <2>1, <4>2, PrefixCut
    <3> QED  BY <3>1, <3>2
  <2>3. n \in 0 .. Len(t)  BY <2>1, <2>2
  <2>n. n = Len(r)  OBVIOUS
  <2>t. ToType(m, r) = b  BY DEF ToType
  <2> HIDE DEF r, t, n
  <2>4. /\ a \in Seq(Words) /\ Len(a) = n /\ b \in Seq(Words)
        /\ \A i \in 1 .. n : a[i] = t[i]
        /\ a \o b = t
    BY <2>1, <2>3, CutSeq
  <2> HIDE DEF a, b
  <2>5. a = r  BY <2>1, <2>2, <2>4, <2>n, SeqEqual
  <2>6. r \o b = t  BY <2>4, <2>5
  <2> QED  BY <2>4, <2>6, <2>t DEF r, t
<1>7. TypeOut(v, m) = IF m.kwargs = "handoff" THEN EmitText(Started(v, m), m.id, <<>>, m.text)
                      ELSE IF ToType(m, Right(m)) = <<>> /\ m.kwargs = "none" THEN Started(v, m)
                      ELSE EmitText(Started(v, m), m.id, Right(m), ToType(m, Right(m)))
  BY Zenon DEF TypeOut, Started, Right
<1> QED  BY <1>3, <1>4, <1>5, <1>6, <1>7

(* What typing a message out does to the others, and to itself.            *)
LEMMA TypeOutOthers ==
  ASSUME NEW v \in Views, NEW m \in Replies, accumulated \in Texts, NEW other \in Ids, other # m.id
  PROVE  SameFor(v, TypeOut(v, m), other)
<1> DEFINE s == Started(v, m)
           r == Right(m)
           d == ToType(m, r)
<1>1. /\ s \in Views /\ r \in Seq(Words) /\ d \in Seq(Words) /\ SameFor(v, s, other)
      /\ TypeOut(v, m) = IF m.kwargs = "handoff" THEN EmitText(s, m.id, <<>>, m.text)
                         ELSE IF d = <<>> /\ m.kwargs = "none" THEN s
                         ELSE EmitText(s, m.id, r, d)
  BY StartFacts
<1>2. m.id \in Ids /\ m.text \in Seq(Words) /\ <<>> \in Seq(Words)  BY EmptySeq DEF Replies
<1> HIDE DEF s, r, d
<1>3. SameFor(s, EmitText(s, m.id, <<>>, m.text), other) /\ SameFor(s, EmitText(s, m.id, r, d), other)
  BY <1>1, <1>2, EmitFacts
<1>4. ASSUME NEW w, SameFor(s, w, other) PROVE SameFor(v, w, other)  BY <1>1, <1>4 DEF SameFor
<1> QED  BY <1>1, <1>3, <1>4

LEMMA TypeOutDelivers ==
  ASSUME NEW v \in Views, NEW m \in Replies, accumulated \in Texts, Shows(v, m.id), m.id \notin v.retyped
  PROVE  /\ DeliveredIn(TypeOut(v, m), m)
         /\ m.id \in TypeOut(v, m).retyped => Wrong(m)
<1> DEFINE s == Started(v, m)
           r == Right(m)
           d == ToType(m, r)
           w == TypeOut(v, m)
<1>1. /\ s \in Views /\ r \in Seq(Words) /\ d \in Seq(Words) /\ r \o d = m.text
      /\ s.partial = v.partial /\ s.replaced = v.replaced
      /\ s.retyped = IF Wrong(m) THEN v.retyped \union {m.id} ELSE v.retyped
      /\ s.tuple[m.id] = IF Wrong(m) /\ "custom" \in modes THEN <<>> ELSE v.tuple[m.id]
      /\ w = IF m.kwargs = "handoff" THEN EmitText(s, m.id, <<>>, m.text)
             ELSE IF d = <<>> /\ m.kwargs = "none" THEN s
             ELSE EmitText(s, m.id, r, d)
  BY StartFacts
<1>2. m.id \in Ids /\ m.text \in Seq(Words) /\ <<>> \in Seq(Words)  BY EmptySeq DEF Replies
<1>r. r = IF Wrong(m) THEN <<>> ELSE accumulated[m.id]  BY DEF Right
<1> HIDE DEF s, r, d, w
<1>e. ASSUME NEW p \in Seq(Words), NEW q \in Seq(Words)
      PROVE  LET x == EmitText(s, m.id, p, q)
             IN  /\ x.tuple[m.id] = IF "tuple" \in modes THEN s.tuple[m.id] \o q ELSE s.tuple[m.id]
                 /\ x.partial[m.id] = IF "partial" \in modes THEN p \o q ELSE s.partial[m.id]
                 /\ x.replaced = s.replaced /\ x.retyped = s.retyped
  <2>1. s \in Views /\ m.id \in Ids  BY <1>1, <1>2
  <2> QED  BY <2>1, <1>e, EmitFacts
<1>3. w.retyped = s.retyped /\ w.replaced = v.replaced
  <2>1. /\ EmitText(s, m.id, <<>>, m.text).retyped = s.retyped
        /\ EmitText(s, m.id, <<>>, m.text).replaced = s.replaced
    BY <1>2, <1>e
  <2>2. EmitText(s, m.id, r, d).retyped = s.retyped /\ EmitText(s, m.id, r, d).replaced = s.replaced
    BY <1>1, <1>e
  <2> QED  BY <1>1, <2>1, <2>2
<1>4. m.id \in w.retyped <=> Wrong(m)  BY <1>1, <1>3
(* What the tuple chunks make so far is the text that continues.           *)
<1>5. "tuple" \in modes /\ ("custom" \in modes \/ m.id \notin w.replaced \union w.retyped)
         => s.tuple[m.id] = r
  BY <1>1, <1>3, <1>4, <1>r DEF Shows
<1>6. CASE m.kwargs = "handoff"
  <2>1. w = EmitText(s, m.id, <<>>, m.text)  BY <1>1, <1>6
  <2>2. "partial" \in modes => w.partial[m.id] = <<>> \o m.text  BY <1>2, <1>e, <2>1
  <2>3. <<>> \o m.text = m.text  BY <1>2, ConcatEmptySeq
  <2> QED  BY <1>4, <1>6, <2>2, <2>3 DEF DeliveredIn, w
<1>7. CASE m.kwargs # "handoff" /\ d = <<>> /\ m.kwargs = "none"
  <2>1. w = s  BY <1>1, <1>7
  <2>2. r = m.text
    <3>1. r \o <<>> = r  BY <1>1, ConcatEmptySeq
    <3> QED  BY <1>1, <1>7, <3>1
  <2>3. "partial" \in modes /\ m.text # <<>> => w.partial[m.id] = m.text
    BY <1>1, <1>r, <2>1, <2>2 DEF Shows
  <2> QED  BY <1>4, <1>5, <2>1, <2>2, <2>3 DEF DeliveredIn, w
<1>8. CASE m.kwargs # "handoff" /\ ~(d = <<>> /\ m.kwargs = "none")
  <2>1. w = EmitText(s, m.id, r, d)  BY <1>1, <1>8
  <2>2. /\ "partial" \in modes => w.partial[m.id] = r \o d
        /\ "tuple" \in modes => w.tuple[m.id] = s.tuple[m.id] \o d
    BY <1>1, <1>e, <2>1
  <2> QED  BY <1>1, <1>4, <1>5, <2>2 DEF DeliveredIn, w
<1> QED  BY <1>6, <1>7, <1>8

(* After k of the messages have been typed out.                            *)
Typed(g, ms, k) ==
    /\ \A i \in 1 .. k : DeliveredIn(g[k], ms[i])
    /\ \A i \in k + 1 .. Len(ms) : Shows(g[k], ms[i].id) /\ ms[i].id \notin g[k].retyped
    /\ \A id \in g[k].retyped : \E i \in 1 .. k : ms[i].id = id /\ Wrong(ms[i])

DistinctIds(ms) == \A i, j \in 1 .. Len(ms) : i # j => ms[i].id # ms[j].id

LEMMA TypedMore ==
  ASSUME NEW v \in Views, NEW ms \in Seq(Replies), accumulated \in Texts, DistinctIds(ms),
         NEW g, Typings(g, v, ms), NEW k \in Nat, k + 1 <= Len(ms), Typed(g, ms, k)
  PROVE  Typed(g, ms, k + 1)
<1> DEFINE n == Len(ms)
           j == k + 1
           m == ms[j]
           x == g[k]
           w == g[j]
<1>0. n \in Nat /\ j \in Nat /\ j \in 1 .. n /\ k \in 0 .. n /\ j \in 0 .. n /\ j - 1 = k  OBVIOUS
<1>1. m \in Replies /\ \A i \in 1 .. n : ms[i] \in Replies  BY <1>0, ElementOfSeq
<1>2. x \in Views /\ w \in Views  BY <1>0, TypedViews
<1>3. w = TypeOut(x, m)  BY <1>0 DEF Typings
<1>4. Shows(x, m.id) /\ m.id \notin x.retyped
  <2>1. j \in k + 1 .. n  BY <1>0
  <2> QED  BY <2>1 DEF Typed
<1>5. \A i \in 1 .. n : i # j => ms[i].id \in Ids /\ ms[i].id # m.id
  BY <1>0, <1>1 DEF DistinctIds, Replies
<1>6. DeliveredIn(w, m) /\ (m.id \in w.retyped => Wrong(m))
  BY <1>1, <1>2, <1>3, <1>4, TypeOutDelivers
<1>7. \A other \in Ids : other # m.id => SameFor(x, w, other)
  BY <1>1, <1>2, <1>3, TypeOutOthers
<1>8. ASSUME NEW i \in 1 .. j PROVE DeliveredIn(w, ms[i])
  <2>1. CASE i = j  BY <1>6, <2>1
  <2>2. CASE i # j
    <3>1. i \in 1 .. k /\ i \in 1 .. n  BY <1>0, <2>2
    <3>2. DeliveredIn(x, ms[i])  BY <3>1 DEF Typed
    <3>3. SameFor(x, w, ms[i].id)  BY <1>5, <1>7, <2>2, <3>1
    <3> HIDE DEF x, w
    <3> QED  BY <3>2, <3>3, SameDelivers
  <2> QED  BY <2>1, <2>2
<1>9. ASSUME NEW i \in j + 1 .. n PROVE Shows(w, ms[i].id) /\ ms[i].id \notin w.retyped
  <2>1. i \in k + 1 .. n /\ i \in 1 .. n /\ i # j  BY <1>0
  <2>2. Shows(x, ms[i].id) /\ ms[i].id \notin x.retyped  BY <2>1 DEF Typed
  <2>3. SameFor(x, w, ms[i].id)  BY <1>5, <1>7, <2>1
  <2> HIDE DEF x, w
  <2>4. Shows(w, ms[i].id)  BY <2>2, <2>3, SameShows
  <2> QED  BY <2>2, <2>3, <2>4 DEF SameFor
<1>10. ASSUME NEW id \in w.retyped PROVE \E i \in 1 .. j : ms[i].id = id /\ Wrong(ms[i])
  <2>1. CASE id = m.id
    <3>1. j \in 1 .. j  BY <1>0
    <3> QED  BY <1>6, <1>10, <2>1, <3>1
  <2>2. CASE id # m.id
    <3>1. id \in Ids  BY <1>2, <1>10 DEF Views
    <3>2. id \in x.retyped  BY <1>7, <1>10, <2>2, <3>1 DEF SameFor
    <3>3. PICK i \in 1 .. k : ms[i].id = id /\ Wrong(ms[i])  BY <3>2 DEF Typed
    <3>4. i \in 1 .. j  BY <1>0
    <3> QED  BY <3>3, <3>4
  <2> QED  BY <2>1, <2>2
<1> QED  BY <1>8, <1>9, <1>10 DEF Typed

LEMMA TypingDelivers ==
  ASSUME NEW v \in Views, NEW ms \in Seq(Replies), accumulated \in Texts, DistinctIds(ms),
         \A id \in Ids : Shows(v, id), v.retyped = {}
  PROVE  /\ \A i \in 1 .. Len(ms) : DeliveredIn(FoldLeft(TypeOut, v, ms), ms[i])
         /\ \A id \in FoldLeft(TypeOut, v, ms).retyped :
               \E i \in 1 .. Len(ms) : ms[i].id = id /\ Wrong(ms[i])
<1>1. PICK g : Typings(g, v, ms) /\ FoldLeft(TypeOut, v, ms) = g[Len(ms)]  BY FoldTypes
<1> DEFINE n == Len(ms)
           P == {k \in Nat : k <= n => Typed(g, ms, k)}
<1>2. n \in Nat /\ \A i \in 1 .. n : ms[i] \in Replies  BY ElementOfSeq
<1>3. 0 \in P
  <2>1. g[0] = v  BY <1>1 DEF Typings
  <2>2. \A i \in 1 .. n : ms[i].id \in Ids  BY <1>2 DEF Replies
  <2>3. 0 + 1 = 1 /\ \A i \in 1 .. 0 : FALSE  OBVIOUS
  <2> QED  BY <2>1, <2>2, <2>3 DEF Typed
<1>4. ASSUME NEW k \in Nat, k \in P PROVE k + 1 \in P
  <2>1. SUFFICES ASSUME k + 1 <= n PROVE Typed(g, ms, k + 1)  OBVIOUS
  <2>2. k <= n  BY <1>2, <2>1
  <2>3. Typed(g, ms, k)  BY <1>4, <2>2
  <2> QED  BY <1>1, <2>1, <2>3, TypedMore
<1> HIDE DEF P
<1>5. \A k \in Nat : k \in P  BY <1>3, <1>4, Numbers
<1>6. Typed(g, ms, n)
  <2>1. n \in P  BY <1>2, <1>5
  <2> QED  BY <1>2, <2>1 DEF P
<1> QED  BY <1>1, <1>6 DEF Typed

(* The messages that are typed out are messages of the answer, each once.  *)
Chosen(t, ms, k) ==
    /\ \A i \in 1 .. Len(t) : \E j \in 1 .. k : t[i] = ms[j]
    /\ DistinctIds(t)

LEMMA ChosenMore ==
  ASSUME NEW ms \in Seq(Replies), DistinctIds(ms), NEW k \in Nat, k + 1 <= Len(ms),
         NEW t \in Seq(Replies), Chosen(t, ms, k)
  PROVE  Chosen(t \o <<>>, ms, k + 1) /\ Chosen(t \o <<ms[k + 1]>>, ms, k + 1)
<1> DEFINE n == Len(t)
           m == ms[k + 1]
           u == t \o <<m>>
<1>1. n \in Nat /\ Len(ms) \in Nat /\ k + 1 \in 1 .. Len(ms) /\ k + 1 \in 1 .. k + 1
      /\ (\A j \in 1 .. k : j \in 1 .. k + 1 /\ j \in 1 .. Len(ms) /\ j # k + 1)
      /\ (\A i \in 1 .. n + 1 : i \in 1 .. n \/ i = n + 1) /\ n + 1 \notin 1 .. n
  OBVIOUS
<1>2. m \in Replies  BY <1>1, ElementOfSeq
<1>3. t \o <<>> = t  BY ConcatEmptySeq
<1>4. Chosen(t, ms, k + 1)  BY <1>1 DEF Chosen
<1>5. Len(u) = n + 1 /\ (\A i \in 1 .. n : u[i] = t[i]) /\ u[n + 1] = m  BY <1>2
<1>6. \A i \in 1 .. n : \E j \in 1 .. k : u[i] = ms[j]  BY <1>5 DEF Chosen
<1> HIDE DEF u, n, m
<1>7. \A i \in 1 .. n : u[i].id # m.id
  <2> TAKE i \in 1 .. n
  <2>1. PICK j \in 1 .. k : u[i] = ms[j]  BY <1>6
  <2>2. ms[j].id # ms[k + 1].id  BY <1>1 DEF DistinctIds
  <2> QED  BY <2>1, <2>2 DEF m
<1>8. \A i \in 1 .. Len(u) : \E j \in 1 .. k + 1 : u[i] = ms[j]
  <2> TAKE i \in 1 .. Len(u)
  <2>1. CASE i \in 1 .. n
    <3>1. PICK j \in 1 .. k : u[i] = ms[j]  BY <1>6, <2>1
    <3>2. j \in 1 .. k + 1  BY <1>1
    <3> QED  BY <3>1, <3>2
  <2>2. CASE i = n + 1  BY <1>1, <1>5, <2>2 DEF m
  <2> QED  BY <1>1, <1>5, <2>1, <2>2
<1>9. DistinctIds(u)
  <2>1. \A i, j \in 1 .. n : i # j => u[i].id # u[j].id  BY <1>5 DEF Chosen, DistinctIds, n
  <2> QED  BY <1>1, <1>5, <1>7, <2>1 DEF DistinctIds
<1> QED  BY <1>3, <1>4, <1>8, <1>9 DEF Chosen, u, m

LEMMA ReplyMessagesChosen ==
  ASSUME answer \in Answers, Apart(answer)
  PROVE  Chosen(ReplyMessages, answer.messages, Len(answer.messages))
<1> DEFINE ms == answer.messages
           n  == Len(ms)
           ss == [i \in 1 .. n |-> ReplyOf(ms[i])]
<1>1. ms \in Seq(Replies) /\ n \in Nat /\ DistinctIds(ms)  BY DEF Answers, Apart, DistinctIds
<1>2. \A i \in 1 .. n : ReplyOf(ms[i]) = <<>> \/ ReplyOf(ms[i]) = <<ms[i]>>  BY DEF ReplyOf
<1>3. ss \in Seq(Seq(Replies)) /\ Len(ss) = n
  <2>1. \A i \in 1 .. n : ReplyOf(ms[i]) \in Seq(Replies)
    <3> TAKE i \in 1 .. n
    <3>1. ms[i] \in Replies  BY <1>1, ElementOfSeq
    <3> QED  BY <3>1 DEF ReplyOf
  <2> QED  BY <1>1, <2>1
<1>4. ReplyMessages = FlattenSeq(ss)  BY DEF ReplyMessages, FlatMapped, Mapped
<1>5. \A i \in 1 .. n : ss[i] = <<>> \/ ss[i] = <<ms[i]>>  BY <1>2
<1> HIDE DEF ms, ss
<1>6. PICK f : Sums(f, ss, Replies) /\ FlattenSeq(ss) = f[Len(ss)]  BY <1>3, FlattenSums
<1> DEFINE P == {k \in Nat : k <= n => Chosen(f[k], ms, k)}
<1>7. 0 \in P
  <2>1. f[0] = <<>> /\ Len(<<>>) = 0 /\ \A i \in 1 .. 0 : FALSE  BY <1>6, EmptySeq DEF Sums
  <2> QED  BY <2>1 DEF Chosen, DistinctIds
<1>8. ASSUME NEW k \in Nat, k \in P PROVE k + 1 \in P
  <2>1. SUFFICES ASSUME k + 1 <= n PROVE Chosen(f[k + 1], ms, k + 1)  OBVIOUS
  <2>2. k <= n /\ k + 1 \in 1 .. n /\ k \in 0 .. n /\ (k + 1) - 1 = k  BY <1>1, <2>1
  <2>3. Chosen(f[k], ms, k)  BY <1>8, <2>2
  <2>4. f[k] \in Seq(Replies) /\ f[k + 1] = f[k] \o ss[k + 1]  BY <1>3, <1>6, <2>2 DEF Sums
  <2>5. Chosen(f[k] \o <<>>, ms, k + 1) /\ Chosen(f[k] \o <<ms[k + 1]>>, ms, k + 1)
    BY <1>1, <2>1, <2>3, <2>4, ChosenMore
  <2> QED  BY <1>5, <2>2, <2>4, <2>5
<1> HIDE DEF P
<1>9. n \in P  BY <1>1, <1>7, <1>8, Numbers
<1> QED  BY <1>1, <1>3, <1>4, <1>6, <1>9 DEF P, ms

-----------------------------------------------------------------------------
(* Until the reply is typed out, the client is shown what the service has. *)
ShownInv ==
    pc # "done" => (\A id \in Ids : Shows(view, id)) /\ view.retyped = {}

(* An event is shown.                                                      *)
LEMMA EventShown ==
  ASSUME TypeInv, ShownInv, pc # "done", NEW event \in Lines, HandleEvent(event), modes' = modes
  PROVE  (\A id \in Ids : Shows(view, id)') /\ view'.retyped = {}
<1>0. /\ view \in Views /\ accumulated \in Texts /\ view.retyped = {}
      /\ \A id \in Ids : Shows(view, id)
  BY DEF TypeInv, OutcomeType, ShownInv
<1>1. CASE event.event = "token" /\ ~Held(event.source)
  <2>1. event.id \in Ids /\ event.text \in Seq(Words)  BY <1>1, LineFacts
  <2> DEFINE e == event.id
             a == accumulated[e]
             w == EmitText(view, e, a, event.text)
  <2>2. a \in Seq(Words)  BY <1>0, <2>1 DEF Texts
  <2>3. view' = w /\ accumulated' = [accumulated EXCEPT ![e] = a \o event.text]
    BY <1>1 DEF HandleEvent, Accumulated
  <2>4. /\ w.tuple[e] = IF "tuple" \in modes THEN view.tuple[e] \o event.text ELSE view.tuple[e]
        /\ w.partial[e] = IF "partial" \in modes THEN a \o event.text ELSE view.partial[e]
        /\ w.replaced = view.replaced /\ w.retyped = view.retyped
        /\ \A other \in Ids : other # e => SameFor(view, w, other)
    BY <1>0, <2>1, <2>2, EmitFacts
  <2> HIDE DEF w
  <2>5. ASSUME NEW id \in Ids PROVE Shows(view, id)'
    <3>1. CASE id = e
      <4>1. accumulated'[id] = a \o event.text  BY <1>0, <2>1, <2>3, <3>1 DEF Texts
      <4>2. Shows(view, e)  BY <1>0, <2>1
      <4> QED  BY <2>3, <2>4, <3>1, <4>1, <4>2 DEF Shows
    <3>2. CASE id # e
      <4>1. accumulated'[id] = accumulated[id]  BY <1>0, <2>1, <2>3, <3>2 DEF Texts
      <4>2. Shows(view, id) /\ SameFor(view, w, id)  BY <1>0, <2>4, <3>2
      <4> QED  BY <2>3, <4>1, <4>2 DEF Shows, SameFor
    <3> QED  BY <3>1, <3>2
  <2> QED  BY <1>0, <2>3, <2>4, <2>5
<1>2. CASE event.event = "replace"
  <2>1. event.id \in Ids /\ event.text \in Seq(Words)  BY <1>2, LineFacts
  <2> DEFINE e == event.id
             w == EmitReplace(view, e, event.text)
  <2>3. view' = w /\ accumulated' = [accumulated EXCEPT ![e] = event.text]
    BY <1>2 DEF HandleEvent, Accumulated
  <2>4. /\ w.tuple[e] = IF {"tuple", "custom"} \subseteq modes THEN event.text ELSE view.tuple[e]
        /\ w.partial[e] = IF "partial" \in modes THEN event.text ELSE view.partial[e]
        /\ w.replaced = view.replaced \union {e} /\ w.retyped = view.retyped
        /\ \A other \in Ids : other # e => SameFor(view, w, other)
    BY <1>0, <2>1, ReplaceFacts
  <2> HIDE DEF w
  <2>5. ASSUME NEW id \in Ids PROVE Shows(view, id)'
    <3>1. CASE id = e
      <4>1. accumulated'[id] = event.text  BY <1>0, <2>1, <2>3, <3>1 DEF Texts
      <4> QED  BY <2>3, <2>4, <3>1, <4>1 DEF Shows
    <3>2. CASE id # e
      <4>1. accumulated'[id] = accumulated[id]  BY <1>0, <2>1, <2>3, <3>2 DEF Texts
      <4>2. Shows(view, id) /\ SameFor(view, w, id)  BY <1>0, <2>4, <3>2
      <4> QED  BY <2>3, <4>1, <4>2 DEF Shows, SameFor
    <3> QED  BY <3>1, <3>2
  <2> QED  BY <1>0, <2>3, <2>4, <2>5
<1>3. CASE ~(event.event = "token" /\ ~Held(event.source)) /\ event.event # "replace"
  <2>1. view' = view /\ accumulated' = accumulated  BY <1>3 DEF HandleEvent, Accumulated
  <2> QED  BY <1>0, <2>1 DEF Shows
<1> QED  BY <1>1, <1>2, <1>3

LEMMA ShownHolds ==
  ASSUME TypeInv, ShownInv, [Next]_vars
  PROVE  ShownInv'
<1>m. modes' = modes  BY CallStays
<1>1. CASE BeginCall
  <2>1. view' = NoView /\ accumulated' = NoText  BY <1>1 DEF BeginCall, FreshCall
  <2>2. NoView.retyped = {} /\ \A id \in Ids : NoView.tuple[id] = <<>> /\ NoView.partial[id] = <<>> /\ NoText[id] = <<>>
    BY DEF NoView, NoText
  <2> QED  BY <2>1, <2>2 DEF ShownInv, Shows
<1>2. CASE HandleStep
  <2>1. PICK nl \in 1 .. Len(buffer) : \/ Line(nl).event = "blank" /\ UNCHANGED replyVars
                                       \/ Line(nl).event # "blank" /\ HandleEvent(Line(nl))
    BY <1>2 DEF HandleStep
  <2>2. pc # "done"  BY <1>2 DEF HandleStep
  <2>3. Line(nl) \in Lines  BY ParseType DEF Line
  <2>4. CASE UNCHANGED replyVars  BY <1>m, <2>2, <2>4 DEF replyVars, ShownInv, Shows
  <2>5. CASE HandleEvent(Line(nl))
    <3>1. (\A id \in Ids : Shows(view, id)') /\ view'.retyped = {}
      BY <1>m, <2>2, <2>3, <2>5, EventShown
    <3> QED  BY <3>1 DEF ShownInv
  <2> QED  BY <2>1, <2>4, <2>5
<1>3. CASE TypeReply
  <2>1. pc' = "done"  BY <1>3 DEF TypeReply
  <2> QED  BY <2>1 DEF ShownInv
<1>4. CASE /\ ChildStep \/ FailStep \/ WholeStep \/ HostStep \/ OpenStep \/ Agent \/ ReadChunk
               \/ NoMoreLines \/ AcceptStep \/ UNCHANGED vars
  <2>1. view' = view /\ accumulated' = accumulated
    <3>1. CASE Agent  BY <3>1, AgentLines DEF replyVars
    <3>2. CASE ChildStep \/ FailStep \/ HostStep \/ OpenStep \/ ReadChunk \/ NoMoreLines \/ UNCHANGED vars
      BY <3>2 DEF ChildStep, FailStep, HostStep, OpenStep, ReadChunk, NoMoreLines, vars, replyVars
    <3>3. CASE WholeStep  BY <3>3 DEF WholeStep, AcceptWhole
    <3>4. CASE AcceptStep  BY <3>4 DEF AcceptStep
    <3> QED  BY <1>4, <3>1, <3>2, <3>3, <3>4
  <2>2. pc' # "done" => pc # "done"
    <3>1. CASE Agent  BY <3>1, AgentLines
    <3>2. CASE ChildStep \/ FailStep \/ WholeStep \/ HostStep \/ OpenStep \/ ReadChunk \/ NoMoreLines
               \/ AcceptStep \/ UNCHANGED vars
      BY <3>2 DEF ChildStep, FailStep, WholeStep, HostStep, OpenStep, ReadChunk, NoMoreLines,
                  AcceptStep, vars, Waiting
    <3> QED  BY <1>4, <3>1, <3>2
  <2> QED  BY <1>m, <2>1, <2>2 DEF ShownInv, Shows
<1> QED  BY <1>1, <1>2, <1>3, <1>4, StepCases

-----------------------------------------------------------------------------
(***************************************************************************)
(* The reply of an agent that is built on the runner.                      *)
(***************************************************************************)
(* The events the service has handled are the first lines of the agent,    *)
(* and all of them once the answer is taken.                               *)
SeenInv ==
    make = "template" =>
        /\ Len(seen) <= Len(sent) /\ \A i \in 1 .. Len(seen) : sent[i] = seen[i]
        /\ pc \in {"type", "done"} /\ result = "ok" => seen = sent

LEMMA SeenLeads ==
  ASSUME StreamInv
  PROVE  SeenInv
<1>1. SUFFICES ASSUME make = "template"
               PROVE  /\ Len(seen) <= Len(sent) /\ \A i \in 1 .. Len(seen) : sent[i] = seen[i]
                      /\ result = "ok" => seen = sent
  BY DEF SeenInv
<1>2. AnswerFaithful  BY FaithfulSuffices DEF StreamInv
<1>3. SentEvents = sent  BY <1>1, SentIsSift, TemplateLines DEF StreamInv
<1>4. IsPrefix(seen, sent) /\ (result = "ok" => seen = sent)  BY <1>1, <1>2, <1>3 DEF AnswerFaithful
<1>5. seen \in Seq(Lines) /\ sent \in Seq(Lines)  BY DEF StreamInv, TypeInv, StreamType, OutcomeType
<1> QED  BY <1>4, <1>5, PrefixCut

(* What a line makes of the text of the reply, for the runner and for the  *)
(* service: a token that is held adds nothing.                             *)
ReplyStep(t, l) ==
    IF l.event = "token" /\ l.id = "r" /\ ~Held(l.source) THEN t \o l.text
    ELSE IF l.event = "replace" /\ l.id = "r" THEN l.text
    ELSE t

(* h[i] is the text after the first i lines of s.                          *)
Heard(h, s) ==
    /\ h \in [0 .. Len(s) -> Seq(Words)]
    /\ h[0] = <<>>
    /\ \A i \in 1 .. Len(s) : h[i] = ReplyStep(h[i - 1], s[i])

(* The reply of a response continues the text t.                           *)
Fits(t, response) ==
    \A i \in 1 .. Len(response.messages) :
        response.messages[i].id = "r" => IsPrefix(t, response.messages[i].text)

LEMMA ReplyStepType ==
  ASSUME NEW t \in Seq(Words), NEW l \in Lines
  PROVE  ReplyStep(t, l) \in Seq(Words)
<1>1. CASE l.event = "token"
  <2>1. l.text \in Seq(Words)  BY <1>1, LineFacts
  <2>2. t \o l.text \in Seq(Words)  BY <2>1, ConcatProperties
  <2> QED  BY <1>1, <2>2 DEF ReplyStep
<1>2. CASE l.event = "replace"
  <2>1. l.text \in Seq(Words)  BY <1>2, LineFacts
  <2> QED  BY <1>2, <2>1 DEF ReplyStep
<1>3. CASE l.event \notin {"token", "replace"}  BY <1>3 DEF ReplyStep
<1> QED  BY <1>1, <1>2, <1>3

LEMMA HeardNothing == \E h : Heard(h, <<>>) /\ h[0] = <<>>
<1> DEFINE h == [i \in 0 .. 0 |-> <<>>]
<1>1. Len(<<>>) = 0 /\ <<>> \in Seq(Words)  BY EmptySeq
<1>2. h \in [0 .. 0 -> Seq(Words)] /\ h[0] = <<>>  BY <1>1
<1>3. \A i \in 1 .. 0 : FALSE  OBVIOUS
<1> HIDE DEF h
<1>4. Heard(h, <<>>)  BY <1>1, <1>2, <1>3 DEF Heard
<1> QED  BY <1>2, <1>4

LEMMA HeardMore ==
  ASSUME NEW s \in Seq(Lines), NEW l \in Lines, NEW h, Heard(h, s)
  PROVE  \E g : /\ Heard(g, s \o <<l>>)
                /\ \A i \in 0 .. Len(s) : g[i] = h[i]
                /\ g[Len(s) + 1] = ReplyStep(h[Len(s)], l)
                /\ Len(s \o <<l>>) = Len(s) + 1
<1> DEFINE n == Len(s)
           u == s \o <<l>>
           g == [i \in 0 .. n + 1 |-> IF i = n + 1 THEN ReplyStep(h[n], l) ELSE h[i]]
<1>1. /\ n \in Nat /\ n + 1 \in 0 .. n + 1 /\ n \in 0 .. n /\ 0 \in 0 .. n /\ 0 \in 0 .. n + 1
      /\ \A i \in 0 .. n : i \in 0 .. n + 1 /\ i # n + 1
      /\ \A i \in 0 .. n + 1 : i \in 0 .. n \/ i = n + 1
      /\ \A i \in 1 .. n + 1 : i \in 0 .. n + 1 /\ i - 1 \in 0 .. n /\ (i \in 1 .. n \/ i = n + 1)
      /\ (n + 1) - 1 = n
  OBVIOUS
<1>2. Len(u) = n + 1 /\ (\A i \in 1 .. n : u[i] = s[i]) /\ u[n + 1] = l  OBVIOUS
<1>3. h \in [0 .. n -> Seq(Words)] /\ h[0] = <<>> /\ \A i \in 1 .. n : h[i] = ReplyStep(h[i - 1], s[i])
  BY DEF Heard
<1> HIDE DEF u, n
<1>4. ReplyStep(h[n], l) \in Seq(Words)
  <2>1. h[n] \in Seq(Words)  BY <1>1, <1>3
  <2> QED  BY <2>1, ReplyStepType
<1>5. g \in [0 .. n + 1 -> Seq(Words)]  BY <1>1, <1>3, <1>4
<1>6. (\A i \in 0 .. n : g[i] = h[i]) /\ g[n + 1] = ReplyStep(h[n], l)  BY <1>1
<1> HIDE DEF g
<1>7. ASSUME NEW i \in 1 .. n + 1 PROVE g[i] = ReplyStep(g[i - 1], u[i])
  <2>1. CASE i \in 1 .. n
    <3>1. i \in 0 .. n /\ i - 1 \in 0 .. n  BY <1>1, <2>1
    <3> QED  BY <1>2, <1>3, <1>6, <2>1, <3>1
  <2>2. CASE i = n + 1  BY <1>1, <1>2, <1>6, <2>2
  <2> QED  BY <1>1, <2>1, <2>2
<1>8. Heard(g, u)  BY <1>1, <1>2, <1>3, <1>5, <1>6, <1>7 DEF Heard
<1> QED  BY <1>2, <1>6, <1>8 DEF u, n

(* When a handler returns, what is heard of the reply at last is taken up  *)
(* by the reply: text that does not continue it is replaced.               *)
LEMMA ReconcileFits ==
  ASSUME TypeInv, NEW response \in HandlerResponses
  PROVE  \/ /\ Reconcile(response.messages) = <<>>
            /\ Fits(streamed["r"], Sending(response))
         \/ \E l \in Lines : /\ Reconcile(response.messages) = <<l>>
                             /\ Fits(ReplyStep(streamed["r"], l), Sending(response))
<1> DEFINE ms == response.messages
           l  == LastReply(ms)
           text == ms[l].text
           sofar == streamed["r"]
           rest == SubSeq(text, Len(sofar) + 1, Len(text))
           src == IF sofar = <<>> THEN "final" ELSE "reconcile"
<1>0. \A i \in 1 .. Len(ms) : ms[i].id = "r" => i = l  BY DEF HandlerResponses
<1>1. response \in Answers /\ ms \in Seq(Replies) /\ "r" \in Ids
  BY AgentAssumption DEF Answers, HandlerResponses, Ids
<1>2. sofar \in Seq(Words)  BY <1>1 DEF TypeInv, StreamType, Texts
<1>3. Sending(response).messages = Stamped(ms)  BY <1>1 DEF Sending, Answers
<1>4. CASE l = 0
  <2>1. Stamped(ms) = ms /\ Reconcile(ms) = <<>>  BY <1>4 DEF Stamped, Reconcile
  <2>2. \A i \in 1 .. Len(ms) : ms[i].id # "r"  BY <1>0, <1>4
  <2>3. Fits(sofar, Sending(response))  BY <1>3, <2>1, <2>2 DEF Fits
  <2> QED  BY <2>1, <2>3
<1>5. CASE l # 0
  <2>1. l \in 1 .. Len(ms) /\ ms[l] \in Replies  BY <1>1, <1>5, LastReplyFacts
  <2> DEFINE m == [ms[l] EXCEPT !.id = "r"]
  <2>2. Stamped(ms) = [ms EXCEPT ![l] = m]  BY <1>5 DEF Stamped
  <2>3. m \in Replies /\ m.text = text /\ text \in Seq(Words)  BY <1>1, <2>1 DEF Replies
  <2>4. /\ Len(Stamped(ms)) = Len(ms)
        /\ \A j \in 1 .. Len(ms) : Stamped(ms)[j] = IF j = l THEN m ELSE ms[j]
    <3> HIDE DEF l, ms, m
    <3> QED  BY <1>1, <2>1, <2>2, <2>3, ExceptSeq
  <2>5. ASSUME NEW t, IsPrefix(t, text) PROVE Fits(t, Sending(response))
    <3>1. \A j \in 1 .. Len(ms) : Stamped(ms)[j].id = "r" => Stamped(ms)[j].text = text
      <4> TAKE j \in 1 .. Len(ms)
      <4>1. CASE j = l  BY <2>3, <2>4, <4>1
      <4>2. CASE j # l  BY <1>0, <2>4, <4>2
      <4> QED  BY <4>1, <4>2
    <3> QED  BY <1>3, <2>4, <2>5, <3>1 DEF Fits
  <2>6. rest \in Seq(Words)
    <3>1. Len(sofar) \in Nat /\ Len(text) \in Nat  BY <1>2, <2>3
    <3>2. \A i \in Len(sofar) + 1 .. Len(text) : text[i] \in Words  BY <2>3, <3>1, ElementOfSeq
    <3> QED  BY <3>1, <3>2, SubSeqProperties
  <2>7. /\ Replace("r", text) \in Lines /\ Token("r", rest, src) \in Lines
        /\ ReplyStep(sofar, Replace("r", text)) = text /\ ReplyStep(sofar, Token("r", rest, src)) = sofar
    <3>1. src \in {"live", "final", "reconcile"} /\ Held(src)  BY DEF Held
    <3>2. Replace("r", text) \in Lines /\ Token("r", rest, src) \in Lines
      BY <1>1, <2>3, <2>6, <3>1, LineMade
    <3> HIDE DEF src, rest, text, sofar
    <3> QED  BY <3>1, <3>2 DEF ReplyStep, Replace, Token
  <2>8. IsPrefix(text, text)  BY <2>3, PrefixCut
  <2>9. \/ Reconcile(ms) = <<Replace("r", text)>>
        \/ IsPrefix(sofar, text) /\ Reconcile(ms) = <<>>
        \/ IsPrefix(sofar, text) /\ Reconcile(ms) = <<Token("r", rest, src)>>
    <3>1. Reconcile(ms) = IF l = 0 THEN <<>>
                          ELSE IF ~IsPrefix(sofar, text) THEN <<Replace("r", text)>>
                          ELSE IF Len(sofar) = Len(text) THEN <<>>
                          ELSE <<Token("r", rest, src)>>
      BY Zenon DEF Reconcile
    <3> HIDE DEF rest, src, text, sofar, l, ms
    <3> QED  BY <1>5, <3>1, Zenon
  <2> HIDE DEF rest, src, text, sofar, l
  <2>10. CASE Reconcile(ms) = <<Replace("r", text)>>
    <3>1. Fits(ReplyStep(sofar, Replace("r", text)), Sending(response))  BY <2>5, <2>7, <2>8
    <3> QED  BY <2>7, <2>10, <3>1 DEF sofar
  <2>11. CASE IsPrefix(sofar, text) /\ Reconcile(ms) = <<>>  BY <2>5, <2>11 DEF sofar
  <2>12. CASE IsPrefix(sofar, text) /\ Reconcile(ms) = <<Token("r", rest, src)>>
    <3>1. Fits(ReplyStep(sofar, Token("r", rest, src)), Sending(response))  BY <2>5, <2>7, <2>12
    <3> QED  BY <2>7, <2>12, <3>1 DEF sofar
  <2> QED  BY <2>9, <2>10, <2>11, <2>12
<1> QED  BY <1>4, <1>5

(* A line that is no text is heard as nothing.                             *)
LEMMA HeardLast ==
  ASSUME NEW s \in Seq(Lines), NEW l \in Lines, l.event \notin {"token", "replace"},
         NEW h, Heard(h, s)
  PROVE  \E g : /\ Heard(g, s \o <<l>>)
                /\ \A i \in 0 .. Len(s) : g[i] = h[i]
                /\ g[Len(s \o <<l>>)] = h[Len(s)]
                /\ (s \o <<l>>)[Len(s \o <<l>>)] = l
<1>1. PICK g : /\ Heard(g, s \o <<l>>)
               /\ \A i \in 0 .. Len(s) : g[i] = h[i]
               /\ g[Len(s) + 1] = ReplyStep(h[Len(s)], l)
               /\ Len(s \o <<l>>) = Len(s) + 1
  BY HeardMore
<1>2. (s \o <<l>>)[Len(s) + 1] = l  OBVIOUS
<1>3. ReplyStep(h[Len(s)], l) = h[Len(s)]  BY DEF ReplyStep
<1> QED  BY <1>1, <1>2, <1>3

(* The service has heard of the reply what the runner has streamed, as far *)
(* as it has read; and what is heard at last is part of the reply.         *)
Follows(h) ==
    /\ Heard(h, sent)
    /\ accumulated["r"] = h[Len(seen)]
    /\ ~ended => streamed["r"] = h[Len(sent)]
    /\ ended /\ fate = "returned" => Fits(h[Len(sent)], sent[Len(sent)].data)

RunnerInv == make = "template" => \E h : Follows(h)

LEMMA ReturnFollows ==
  ASSUME TypeInv, SeenInv, make = "template", HandlerReturns, NEW h, Follows(h)
  PROVE  \E g : Follows(g)'
<1>1. PICK r \in HandlerResponses : Writes(Reconcile(r.messages) \o <<Final(Sending(r))>>)
  BY DEF HandlerReturns, Sending
<1>2. /\ ended' = TRUE /\ fate' = "returned" /\ ~ended
      /\ accumulated' = accumulated /\ seen' = seen
  BY DEF HandlerReturns, Open, StaysWithAgent, replyVars
<1>3. r \in Answers  BY AgentAssumption DEF HandlerResponses
<1>4. /\ sent \in Seq(Lines) /\ Len(sent) \in Nat /\ Len(seen) \in Nat /\ Len(seen) <= Len(sent)
  BY DEF TypeInv, StreamType, OutcomeType, SeenInv
<1> DEFINE a == Reconcile(r.messages)
           f == Final(Sending(r))
           n == Len(sent)
           t == streamed["r"]
<1>5. f \in Lines /\ f.event = "final" /\ f.data = Sending(r)
  BY <1>3, SendingType, LineMade DEF Final
<1>6. sent' = sent \o (a \o <<f>>)  BY <1>1 DEF Writes
<1>7. t = h[n] /\ Heard(h, sent) /\ accumulated["r"] = h[Len(seen)]  BY <1>2 DEF Follows
<1>8. \/ a = <<>> /\ Fits(t, Sending(r))
      \/ \E l \in Lines : a = <<l>> /\ Fits(ReplyStep(t, l), Sending(r))
  BY ReconcileFits
<1> HIDE DEF a, f, t
<1>9. CASE a = <<>> /\ Fits(t, Sending(r))
  <2>1. sent' = sent \o <<f>>
    <3>1. <<>> \o <<f>> = <<f>>  BY <1>5
    <3> QED  BY <1>6, <1>9, <3>1
  <2>2. PICK g : /\ Heard(g, sent \o <<f>>) /\ \A i \in 0 .. Len(sent) : g[i] = h[i]
                 /\ g[Len(sent \o <<f>>)] = h[Len(sent)]
                 /\ (sent \o <<f>>)[Len(sent \o <<f>>)] = f
    <3>1. f.event \notin {"token", "replace"}  BY <1>5
    <3> QED  BY <1>4, <1>5, <1>7, <3>1, HeardLast
  <2>3. Heard(g, sent') /\ g[Len(sent')] = h[n] /\ sent'[Len(sent')] = f  BY <2>1, <2>2
  <2>4. g[Len(seen)] = h[Len(seen)]  BY <1>4, <2>2
  <2>5. Fits(g[Len(sent')], sent'[Len(sent')].data)  BY <1>5, <1>7, <1>9, <2>3
  <2> QED  BY <1>2, <1>7, <2>3, <2>4, <2>5 DEF Follows
<1>10. ASSUME NEW l \in Lines, a = <<l>>, Fits(ReplyStep(t, l), Sending(r))
       PROVE  \E g : Follows(g)'
  <2> DEFINE u == sent \o <<l>>
  <2>1. sent' = u \o <<f>>
    <3>1. <<l>> \in Seq(Lines) /\ <<f>> \in Seq(Lines)  BY <1>5
    <3>2. Assoc(sent, <<l>>, <<f>>)  BY <1>4, <3>1, Associates
    <3> QED  BY <1>6, <1>10, <3>2 DEF Assoc
  <2>2. PICK g : /\ Heard(g, u) /\ \A i \in 0 .. Len(sent) : g[i] = h[i]
                 /\ g[Len(sent) + 1] = ReplyStep(h[Len(sent)], l) /\ Len(u) = Len(sent) + 1
    BY <1>4, <1>7, HeardMore
  <2>3. u \in Seq(Lines)  BY <1>4
  <2>u. PICK v \in Seq(Lines) : v = u  BY <2>3
  <2> HIDE DEF u
  <2>4. PICK k : /\ Heard(k, v \o <<f>>) /\ \A i \in 0 .. Len(v) : k[i] = g[i]
                 /\ k[Len(v \o <<f>>)] = g[Len(v)]
                 /\ (v \o <<f>>)[Len(v \o <<f>>)] = f
    <3>1. f.event \notin {"token", "replace"} /\ Heard(g, v)  BY <1>5, <2>2, <2>u
    <3> QED  BY <1>5, <3>1, HeardLast
  <2>5. /\ Heard(k, sent') /\ k[Len(sent')] = ReplyStep(t, l) /\ sent'[Len(sent')] = f
    BY <1>7, <2>1, <2>2, <2>4, <2>u DEF n
  <2>6. k[Len(seen)] = h[Len(seen)]
    <3>1. Len(seen) \in 0 .. Len(sent) /\ Len(seen) \in 0 .. Len(v)  BY <1>4, <2>2, <2>u
    <3> QED  BY <2>2, <2>4, <3>1
  <2>7. Fits(k[Len(sent')], sent'[Len(sent')].data)  BY <1>5, <1>10, <2>5
  <2> QED  BY <1>2, <1>7, <2>5, <2>6, <2>7 DEF Follows
<1> QED  BY <1>8, <1>9, <1>10

LEMMA AgentFollows ==
  ASSUME TypeInv, SeenInv, make = "template", Agent, NEW h, Follows(h)
  PROVE  \E g : Follows(g)'
<1>1. /\ ~ended /\ accumulated' = accumulated /\ seen' = seen
  BY AgentLines DEF replyVars
<1>2. /\ sent \in Seq(Lines) /\ Len(sent) \in Nat /\ Len(seen) \in 0 .. Len(sent)
      /\ streamed \in Texts
  BY DEF TypeInv, StreamType, OutcomeType, SeenInv
<1>3. Heard(h, sent) /\ accumulated["r"] = h[Len(seen)] /\ streamed["r"] = h[Len(sent)]
  BY <1>1 DEF Follows
<1>o. OwnIds \subseteq Ids /\ Scraps \subseteq Seq(Words) /\ "r" \in Ids  BY AgentAssumption DEF Ids
<1>4. CASE HandlerEmits
  <2>1. PICK id \in OwnIds, words \in Scraps :
           \/ /\ streamed' = [streamed EXCEPT ![id] = @ \o words]
              /\ Writes(<<Token(id, words, "live")>>)
           \/ /\ streamed' = [streamed EXCEPT ![id] = words]
              /\ Writes(<<Replace(id, words)>>)
    BY <1>4 DEF HandlerEmits
  <2>2. Token(id, words, "live") \in Lines /\ Replace(id, words) \in Lines  BY <1>o, LineMade
  <2>3. PICK l \in Lines : sent' = sent \o <<l>> /\ streamed'["r"] = ReplyStep(streamed["r"], l)
    <3>1. CASE /\ streamed' = [streamed EXCEPT ![id] = @ \o words]
               /\ Writes(<<Token(id, words, "live")>>)
      <4>1. streamed'["r"] = ReplyStep(streamed["r"], Token(id, words, "live"))
        BY <1>2, <1>o, <3>1 DEF ReplyStep, Token, Held, Texts
      <4> QED  BY <2>2, <3>1, <4>1 DEF Writes
    <3>2. CASE /\ streamed' = [streamed EXCEPT ![id] = words]
               /\ Writes(<<Replace(id, words)>>)
      <4>1. streamed'["r"] = ReplyStep(streamed["r"], Replace(id, words))
        BY <1>2, <1>o, <3>2 DEF ReplyStep, Replace, Texts
      <4> QED  BY <2>2, <3>2, <4>1 DEF Writes
    <3> QED  BY <2>1, <3>1, <3>2
  <2>4. PICK g : /\ Heard(g, sent \o <<l>>) /\ \A i \in 0 .. Len(sent) : g[i] = h[i]
                 /\ g[Len(sent) + 1] = ReplyStep(h[Len(sent)], l)
                 /\ Len(sent \o <<l>>) = Len(sent) + 1
    BY <1>2, <1>3, HeardMore
  <2>5. ended' = ended  BY <1>4 DEF HandlerEmits
  <2> QED  BY <1>1, <1>2, <1>3, <2>3, <2>4, <2>5 DEF Follows
<1>5. CASE HandlerReturns  BY <1>5, ReturnFollows
<1>6. CASE HandlerThrows
  <2> DEFINE l == Plain("error")
  <2>1. l \in Lines /\ l.event \notin {"token", "replace"}  BY LineMade DEF Plain
  <2>2. sent' = sent \o <<l>> /\ ended' = TRUE /\ fate' = "threw"
    BY <1>6 DEF HandlerThrows, Writes
  <2> HIDE DEF l
  <2>3. PICK g : Heard(g, sent \o <<l>>) /\ \A i \in 0 .. Len(sent) : g[i] = h[i]
    BY <1>2, <1>3, <2>1, HeardLast
  <2> QED  BY <1>1, <1>2, <1>3, <2>2, <2>3 DEF Follows
<1>7. ~OtherWrites /\ ~OtherEnds  BY DEF OtherWrites, OtherEnds
<1> QED  BY <1>4, <1>5, <1>6, <1>7 DEF Agent

(* What the service makes of a line is what the runner made of it.         *)
LEMMA EventFollows ==
  ASSUME TypeInv, NEW event \in Lines, HandleEvent(event)
  PROVE  accumulated'["r"] = ReplyStep(accumulated["r"], event)
<1>1. accumulated \in Texts /\ "r" \in Ids  BY AgentAssumption DEF TypeInv, OutcomeType, Ids
<1>2. accumulated' = Accumulated(event)  BY DEF HandleEvent
<1>3. event.event \in {"token", "replace"} => event.id \in Ids  BY LineFacts
<1> QED  BY <1>1, <1>2, <1>3 DEF Accumulated, ReplyStep, Texts

LEMMA RunnerHolds ==
  ASSUME StreamInv, SeenInv, SeenInv', StreamInv', RunnerInv, [Next]_vars
  PROVE  RunnerInv'
<1>t. TypeInv /\ TypeInv' /\ TemplateInv /\ OutcomeInv  BY DEF StreamInv
<1>m. make' = make  BY CallStays DEF make
<1>1. SUFFICES ASSUME make = "template" PROVE \E g : Follows(g)'  BY <1>m DEF RunnerInv
<1>2. PICK h : Follows(h)  BY <1>1 DEF RunnerInv
<1>3. Heard(h, sent) /\ accumulated["r"] = h[Len(seen)]  BY <1>2 DEF Follows
<1>4. /\ Len(seen) \in Nat /\ Len(sent) \in Nat /\ seen \in Seq(Lines)
      /\ Len(seen') <= Len(sent') /\ \A i \in 1 .. Len(seen') : sent'[i] = seen'[i]
  BY <1>1, <1>m, <1>t DEF TypeInv, StreamType, OutcomeType, SeenInv
(* One more line that has been handled.                                    *)
<1>5. ASSUME NEW l, seen' = Append(seen, l), UNCHANGED agentVars,
             accumulated'["r"] = ReplyStep(accumulated["r"], l)
      PROVE  Follows(h)'
  <2>1. Len(seen') = Len(seen) + 1 /\ seen'[Len(seen) + 1] = l  BY <1>4, <1>5
  <2>2. sent' = sent  BY <1>5 DEF agentVars
  <2>3. Len(seen) + 1 \in 1 .. Len(sent) /\ Len(seen) + 1 \in 1 .. Len(seen') /\ (Len(seen) + 1) - 1 = Len(seen)
    BY <1>4, <2>1, <2>2
  <2>4. sent[Len(seen) + 1] = l  BY <1>4, <2>1, <2>2, <2>3
  <2>5. h[Len(seen) + 1] = ReplyStep(h[Len(seen)], l)  BY <1>3, <2>3, <2>4 DEF Heard
  <2>6. accumulated'["r"] = h[Len(seen')]  BY <1>3, <1>5, <2>1, <2>5
  <2> QED  BY <1>2, <1>5, <2>6 DEF Follows, agentVars
<1>6. CASE BeginCall
  <2>1. sent' = <<>> /\ seen' = <<>> /\ ended' = FALSE /\ accumulated' = NoText /\ streamed' = NoText
    BY <1>6 DEF BeginCall, FreshCall
  <2>2. NoText["r"] = <<>> /\ Len(<<>>) = 0  BY AgentAssumption, EmptySeq DEF NoText, Ids
  <2>3. PICK g : Heard(g, <<>>) /\ g[0] = <<>>  BY HeardNothing
  <2> QED  BY <2>1, <2>2, <2>3 DEF Follows
<1>7. CASE Agent
  <2> QED  BY <1>1, <1>2, <1>7, <1>t, AgentFollows
<1>8. CASE HandleStep
  <2>1. PICK nl \in 1 .. Len(buffer) : \/ Line(nl).event = "blank" /\ UNCHANGED replyVars
                                       \/ Line(nl).event # "blank" /\ HandleEvent(Line(nl))
    BY <1>8 DEF HandleStep
  <2>2. UNCHANGED agentVars  BY <1>8 DEF HandleStep
  <2>3. Line(nl) \in Lines  BY <1>t, ParseType DEF Line
  <2>4. CASE UNCHANGED replyVars  BY <1>2, <2>2, <2>4 DEF replyVars, agentVars, Follows
  <2>5. CASE HandleEvent(Line(nl))
    <3>1. seen' = Append(seen, Line(nl))  BY <2>5 DEF HandleEvent
    <3>2. accumulated'["r"] = ReplyStep(accumulated["r"], Line(nl))  BY <1>t, <2>3, <2>5, EventFollows
    <3> QED  BY <1>5, <2>2, <3>1, <3>2
  <2> QED  BY <2>1, <2>4, <2>5
<1>9. CASE AcceptStep
  <2> DEFINE l == ParseLine(buffer)
  <2>1. /\ seen' = IF l.event = "blank" THEN seen ELSE Append(seen, l)
        /\ accumulated' = accumulated /\ UNCHANGED agentVars /\ ended
        /\ pc' = "type" /\ result' = "ok"
    BY <1>9 DEF AcceptStep, Accept
  <2>2. CASE l.event = "blank"  BY <1>2, <2>1, <2>2 DEF agentVars, Follows
  <2>3. CASE l.event # "blank"
    <3>1. seen' = Append(seen, l) /\ sent' = sent /\ seen' = sent'
      BY <1>1, <1>m, <2>1, <2>3 DEF agentVars, SeenInv
    <3> HIDE DEF l
    <3>2. Len(seen') = Len(seen) + 1 /\ seen'[Len(seen) + 1] = l
      <4>1. seen \in Seq(Lines) /\ seen' = Append(seen, l)  BY <1>4, <3>1
      <4> QED  BY <4>1
    <3>3. sent[Len(sent)] = l  BY <3>1, <3>2
    <3>4. l.event \in {"final", "error"}  BY <1>1, <1>t, <2>1, <3>3, TemplateLines
    <3>5. ReplyStep(accumulated["r"], l) = accumulated["r"]  BY <3>4 DEF ReplyStep
    <3> QED  BY <1>5, <2>1, <3>1, <3>5
  <2> QED  BY <2>2, <2>3
<1>10. CASE ChildStep \/ FailStep \/ HostStep \/ OpenStep \/ ReadChunk \/ NoMoreLines
            \/ TypeReply \/ UNCHANGED vars
  <2>1. UNCHANGED <<sent, ended, streamed, fate>> /\ seen' = seen /\ accumulated' = accumulated
    <3>1. CASE ChildStep \/ FailStep \/ HostStep \/ OpenStep \/ NoMoreLines \/ TypeReply
      BY <3>1 DEF ChildStep, FailStep, HostStep, OpenStep, NoMoreLines, TypeReply,
                   agentVars, replyVars
    <3>2. CASE ReadChunk  BY <3>2 DEF ReadChunk, replyVars
    <3>3. CASE UNCHANGED vars  BY <3>3 DEF vars, agentVars, replyVars
    <3> QED  BY <1>10, <3>1, <3>2, <3>3
  <2> QED  BY <1>2, <2>1 DEF Follows
<1>11. ~WholeStep  BY <1>1, <1>t DEF WholeStep, OutcomeInv
<1> QED  BY <1>6, <1>7, <1>8, <1>9, <1>10, <1>11, <1>t, StepCases

-----------------------------------------------------------------------------
(***************************************************************************)
(* What the client has when the reply is delivered.                        *)
(***************************************************************************)
WholeInv ==
    pc = "done" =>
        /\ way = "events" => \A i \in 1 .. Len(ReplyMessages) : DeliveredIn(view, ReplyMessages[i])
        /\ make = "template" => "r" \notin view.retyped

(* An answer of the runner continues what the service has of its reply.    *)
LEMMA ReplyFits ==
  ASSUME StreamInv, SeenInv, RunnerInv, make = "template", pc = "type"
  PROVE  Fits(accumulated["r"], answer)
<1>1. PICK h : Follows(h)  BY DEF RunnerInv
<1>t. TypeInv /\ TemplateInv  BY DEF StreamInv
<1>2. result = "ok" /\ sent \in Seq(Lines)  BY <1>t DEF TypeInv, OutcomeType, StreamType
<1>3. seen = sent  BY <1>2 DEF SeenInv
<1>4. AnswerFaithful  BY FaithfulSuffices DEF StreamInv
<1>5. ended /\ fate = "returned"  BY <1>2, <1>4 DEF AnswerFaithful
<1>6. PICK i \in 1 .. Len(sent) : sent[i] = Final(answer)  BY <1>2, <1>3, <1>4 DEF AnswerFaithful
<1>7. i = Len(sent)
  <2>1. sent[i].event = "final"  BY <1>6 DEF Final
  <2> QED  BY <1>t, <2>1, TemplateLines
<1>8. sent[Len(sent)].data = answer  BY <1>6, <1>7 DEF Final
<1> QED  BY <1>1, <1>3, <1>5, <1>8 DEF Follows

LEMMA TypeReplyDelivers ==
  ASSUME StreamInv, SeenInv, RunnerInv, UtterInv, ShownInv, TypeReply, modes' = modes, agent' = agent
  PROVE  WholeInv'
<1> DEFINE ms == ReplyMessages
<1>1. /\ pc = "type" /\ answer' = answer
      /\ view' = IF {"tuple", "partial"} \intersect modes = {} THEN view ELSE FoldLeft(TypeOut, view, ms)
  BY DEF TypeReply
<1>t. TypeInv  BY DEF StreamInv
<1>2. answer \in Answers /\ Apart(answer) /\ view \in Views /\ accumulated \in Texts
  BY <1>1, <1>t DEF TypeInv, OutcomeType, UtterInv, Uttered
<1>3. ms \in Seq(Replies) /\ Chosen(ms, answer.messages, Len(answer.messages))
  BY <1>2, ReplyMessagesType, ReplyMessagesChosen
<1>4. (\A id \in Ids : Shows(view, id)) /\ view.retyped = {}  BY <1>1 DEF ShownInv
<1>5. ReplyMessages' = ms  BY <1>1 DEF ReplyMessages, FlatMapped, Mapped
<1> HIDE DEF ms
<1>6. CASE {"tuple", "partial"} \intersect modes = {}
  <2>1. view' = view /\ "tuple" \notin modes /\ "partial" \notin modes  BY <1>1, <1>6
  <2>2. \A m : DeliveredIn(view, m)'  BY <2>1 DEF DeliveredIn
  <2> QED  BY <1>4, <2>1, <2>2 DEF WholeInv
<1>7. CASE {"tuple", "partial"} \intersect modes # {}
  <2> DEFINE w == FoldLeft(TypeOut, view, ms)
  <2>1. view' = w  BY <1>1, <1>7
  <2>2. DistinctIds(ms)  BY <1>3 DEF Chosen
  <2>3. /\ \A i \in 1 .. Len(ms) : DeliveredIn(w, ms[i])
        /\ \A id \in w.retyped : \E i \in 1 .. Len(ms) : ms[i].id = id /\ Wrong(ms[i])
    BY <1>2, <1>3, <1>4, <2>2, TypingDelivers
  <2> HIDE DEF w
  <2>4. \A i \in 1 .. Len(ReplyMessages') : DeliveredIn(view, ReplyMessages[i])'
    <3>1. \A m : DeliveredIn(view, m)' <=> DeliveredIn(view', m)  BY DEF DeliveredIn
    <3>2. \A i \in 1 .. Len(ms) : DeliveredIn(view', ms[i])  BY <2>1, <2>3
    <3>3. PICK c : c = ms  OBVIOUS
    <3>4. \A i \in 1 .. Len(c) : DeliveredIn(view, c[i])'  BY <3>1, <3>2, <3>3
    <3>5. ReplyMessages' = c  BY <1>5, <3>3
    <3> QED  BY <3>4, <3>5
  <2>5. make = "template" => "r" \notin w.retyped
    <3>1. SUFFICES ASSUME make = "template", "r" \in w.retyped PROVE FALSE  OBVIOUS
    <3>2. PICK i \in 1 .. Len(ms) : ms[i].id = "r" /\ Wrong(ms[i])  BY <2>3, <3>1
    <3>3. PICK j \in 1 .. Len(answer.messages) : ms[i] = answer.messages[j]  BY <1>3 DEF Chosen
    <3>4. Fits(accumulated["r"], answer)  BY <1>1, <3>1, ReplyFits
    <3>5. IsPrefix(accumulated["r"], ms[i].text)  BY <3>2, <3>3, <3>4 DEF Fits
    <3> QED  BY <3>2, <3>5 DEF Wrong
  <2> QED  BY <2>1, <2>4, <2>5 DEF WholeInv, make
<1> QED  BY <1>6, <1>7

LEMMA WholeHolds ==
  ASSUME StreamInv, SeenInv, RunnerInv, UtterInv, ShownInv, WholeInv, [Next]_vars
  PROVE  WholeInv'
<1>t. TypeInv /\ OutcomeInv  BY DEF StreamInv
<1>m. agent' = agent /\ modes' = modes  BY CallStays
<1>1. CASE TypeReply  BY <1>1, <1>m, TypeReplyDelivers
<1>2. CASE WholeStep
  <2>1. pc \in {"exec", "body"} /\ make # "template"  BY <1>2, <1>t DEF WholeStep, OutcomeInv
  <2>2. pc' = IF way = "events" THEN "type" ELSE "done"  BY <1>2 DEF WholeStep, AcceptWhole, Accept
  <2> QED  BY <1>m, <2>1, <2>2 DEF WholeInv, make, way
<1>3. CASE UNCHANGED vars
  <2>1. UNCHANGED <<agent, modes, pc, answer, view>>  BY <1>3 DEF vars, callVars, replyVars
  <2>2. ReplyMessages' = ReplyMessages  BY <2>1 DEF ReplyMessages, FlatMapped, Mapped
  <2>3. \A m : DeliveredIn(view, m)' <=> DeliveredIn(view, m)  BY <2>1 DEF DeliveredIn
  <2> QED  BY <2>1, <2>2, <2>3 DEF WholeInv, make, way
<1>4. CASE /\ BeginCall \/ ChildStep \/ FailStep \/ HostStep \/ OpenStep \/ Agent \/ ReadChunk
               \/ HandleStep \/ NoMoreLines \/ AcceptStep
  <2>1. pc' # "done"
    <3>1. CASE Agent  BY <1>t, <3>1, AgentLines
    <3>2. CASE BeginCall \/ ChildStep \/ FailStep \/ HostStep \/ OpenStep \/ ReadChunk
               \/ HandleStep \/ NoMoreLines
      BY <3>2 DEF BeginCall, ChildStep, FailStep, HostStep, OpenStep, ReadChunk, HandleStep,
                  NoMoreLines, Waiting
    <3>3. CASE AcceptStep  BY <3>3 DEF AcceptStep, Accept
    <3> QED  BY <1>4, <3>1, <3>2, <3>3
  <2> QED  BY <2>1 DEF WholeInv
<1> QED  BY <1>1, <1>2, <1>3, <1>4, <1>t, StepCases

LEMMA WholeSuffices ==
  ASSUME ShownInv, WholeInv
  PROVE  ReplyWhole
BY DEF ShownInv, WholeInv, ReplyWhole, Delivered, DeliveredIn

ReplyInv == ShownInv /\ RunnerInv /\ WholeInv

LEMMA SeenInvariant == Spec => [](StreamInv /\ SeenInv)
<1>1. StreamInv => SeenInv  BY SeenLeads
<1> QED  BY <1>1, StreamInvariant, PTL

(* Whatever is streamed, replaced, held back or typed out, and in whatever *)
(* chunks it arrives: once the reply is delivered the client has the text  *)
(* that was saved, message for message, and of what an agent built on the  *)
(* runner has streamed of its reply nothing has to be taken back.          *)
THEOREM ReplyWholeCorrect == Spec => []ReplyWhole
<1>1. Init => ReplyInv
  <2> SUFFICES ASSUME Init PROVE ReplyInv  OBVIOUS
  <2>1. /\ sent = <<>> /\ seen = <<>> /\ pc = "start" /\ ended = FALSE
        /\ streamed = NoText /\ accumulated = NoText /\ view = NoView
    BY DEF Init
  <2>2. /\ NoView.retyped = {}
        /\ \A id \in Ids : NoView.tuple[id] = <<>> /\ NoView.partial[id] = <<>> /\ NoText[id] = <<>>
    BY DEF NoView, NoText
  <2>3. ShownInv  BY <2>1, <2>2 DEF ShownInv, Shows
  <2>4. NoText["r"] = <<>> /\ Len(<<>>) = 0  BY AgentAssumption, EmptySeq DEF NoText, Ids
  <2>5. PICK g : Heard(g, <<>>) /\ g[0] = <<>>  BY HeardNothing
  <2>6. Follows(g)  BY <2>1, <2>4, <2>5 DEF Follows
  <2>7. WholeInv  BY <2>1 DEF WholeInv
  <2> QED  BY <2>3, <2>6, <2>7 DEF ReplyInv, RunnerInv
<1>2. /\ StreamInv /\ SeenInv /\ (StreamInv /\ SeenInv)' /\ UtterInv /\ ReplyInv /\ [Next]_vars
      => ReplyInv'
  <2> SUFFICES ASSUME StreamInv, SeenInv, StreamInv', SeenInv', UtterInv, ReplyInv, [Next]_vars
               PROVE  ReplyInv'
    OBVIOUS
  <2>1. TypeInv /\ ShownInv /\ RunnerInv /\ WholeInv  BY DEF StreamInv, ReplyInv
  <2>2. ShownInv'  BY <2>1, ShownHolds
  <2>3. RunnerInv'  BY <2>1, RunnerHolds
  <2>4. WholeInv'  BY <2>1, WholeHolds
  <2> QED  BY <2>2, <2>3, <2>4 DEF ReplyInv
<1>3. ReplyInv => ReplyWhole  BY WholeSuffices DEF ReplyInv
<1> QED  BY <1>1, <1>2, <1>3, SeenInvariant, RequestInvariant, PTL DEF Spec
=============================================================================
