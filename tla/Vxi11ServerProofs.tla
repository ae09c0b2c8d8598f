--------------------------- MODULE Vxi11ServerProofs ---------------------------
(* That the stand-alone VXI-11 server hands each handler the arguments that the  *)
(* client sent and the client the handler's result, for any calls: what one side *)
(* encodes the other side decodes, step by step of the routines.                 *)
EXTENDS Vxi11Server, WellFoundedInduction, SequenceTheorems, TLAPS

\* Induction over a set of numbers.
LEMMA SetInduction ==
  ASSUME NEW T, 0 \in T, \A n \in Nat : n \in T => n + 1 \in T
  PROVE  Nat \subseteq T
<1> DEFINE Less == {ij \in Nat \X Nat : ij[1] < ij[2]}
           Left == Nat \ T
<1>1. IsWellFoundedOn(Less, Nat)
    BY NatLessThanWellFounded DEF OpToRel
<1>2. SUFFICES ASSUME Left # {} PROVE FALSE
    OBVIOUS
<1>3. PICK x \in Left : \A y \in Left : ~ (<<y, x>> \in Less)
  <2>1. Left \subseteq Nat
      OBVIOUS
  <2> HIDE DEF Less, Left
  <2> QED BY <1>1, <1>2, <2>1, WFMin
<1>4. x - 1 \in Nat /\ x - 1 < x /\ x - 1 + 1 = x
    OBVIOUS
<1>5. x - 1 \in T
    BY <1>3, <1>4
<1> QED BY <1>4, <1>5

-----------------------------------------------------------------------------
(* The routines.                                                               *)

IsList(s) == Len(s) \in Nat /\ DOMAIN s = 1 .. Len(s)

IsStep(step) ==
  /\ IsList(step.fields)
  /\ \/ step.kind = "bytes" /\ Len(step.fields) = 1 /\ step.max \in Nat
     \/ step.kind \in {"unit", "block"} /\ step.n = Len(step.fields)

AreSteps(steps) ==
  IsList(steps) /\ \A i \in 1 .. Len(steps) : IsStep(steps[i])

\* A routine decodes as it encodes, and frees what it allocates.
IsRoutine(r) ==
  r.encode = r.decode /\ AreSteps(r.decode) /\ Opaques(r) \subseteq Frees(r)

\* One step puts the fields, or a length and its bytes.
PutRight(step, v, way) ==
  LET P == Puts(v, step, way)
  IN /\ P \in Seq(Seq(Nat))
     /\ step.kind = "bytes" =>
          Len(P) = 2 /\ P[1] = <<Len(v[step.fields[1]])>> /\ P[2] = v[step.fields[1]]
     /\ step.kind # "bytes" =>
          Len(P) = Len(step.fields) /\ \A i \in 1 .. Len(step.fields) : P[i] = v[step.fields[i]]

HasFields(v, step) == \A i \in 1 .. Len(step.fields) : v[step.fields[i]] \in Seq(Nat)

LEMMA PutsUnits ==
  ASSUME NEW step, IsStep(step), NEW v, NEW way, HasFields(v, step)
  PROVE  PutRight(step, v, way)
<1> DEFINE k == Len(step.fields)
           units == [i \in DOMAIN step.fields |-> v[step.fields[i]]]
<1>1. k \in Nat /\ DOMAIN step.fields = 1 .. k
    BY DEF IsStep, IsList
<1>2. CASE step.kind = "bytes"
  <2> DEFINE d == v[step.fields[1]]
  <2>1. k = 1 /\ d \in Seq(Nat) /\ Len(d) \in Nat
      BY <1>1, <1>2 DEF IsStep, HasFields, IsList
  <2>2. Puts(v, step, way) = << <<Len(d)>>, d >>
      BY <1>2 DEF Puts, Bytes
  <2>3. <<Len(d)>> \in Seq(Nat)
      BY <2>1
  <2> HIDE DEF d
  <2>4. << <<Len(d)>>, d >> \in Seq(Seq(Nat))
      BY <2>1, <2>3
  <2> QED BY <1>2, <2>2, <2>4 DEF d, PutRight
<1>3. CASE step.kind # "bytes"
  <2>1. step.n = k /\ step.kind \in {"unit", "block"}
      BY <1>3 DEF IsStep, IsList
  <2>2. units = [i \in 1 .. k |-> v[step.fields[i]]] /\ Len(units) = k
      BY <1>1
  <2> DEFINE padded == [i \in 1 .. step.n |-> IF i <= Len(units) THEN units[i] ELSE <<>>]
  <2>3. padded = units
      BY <1>1, <2>1, <2>2
  <2>4. Puts(v, step, way) = units
    <3>1. Puts(v, step, way) = units \/ Puts(v, step, way) = padded
        BY <1>3 DEF Puts
    <3> QED BY <2>3, <3>1
  <2>5. units \in Seq(Seq(Nat))
      BY <1>1, <2>2 DEF HasFields
  <2> QED BY <1>1, <1>3, <2>2, <2>4, <2>5 DEF PutRight
<1> QED BY <1>2, <1>3

\* The steps' units follow one another.
LEMMA EncodingUnrolled ==
  ASSUME NEW r, IsRoutine(r), NEW v, NEW way
  PROVE  /\ Encoding(r, v, way)[0] = <<>>
         /\ \A i \in 0 .. Len(r.decode) - 1 :
              Encoding(r, v, way)[i + 1] =
                Encoding(r, v, way)[i] \o Puts(v, r.decode[i + 1], way)
<1> DEFINE More(units, i) == units \o Puts(v, r.encode[i], way)
           n == Len(r.decode)
           Is(f, m) == f = [i \in 0 .. m |-> IF i = 0 THEN <<>> ELSE More(f[i - 1], i)]
           T == {m \in Nat : \E f : Is(f, m)}
<1>1. n \in Nat /\ Len(r.encode) = n
    BY DEF IsRoutine, AreSteps, IsList
<1>2. Encoding(r, v, way) = CHOOSE f : Is(f, Len(r.encode))
    BY Zenon DEF Encoding
<1> HIDE DEF More, n
<1>3. 0 \in T
  <2>1. Is([i \in 0 .. 0 |-> <<>>], 0)
      OBVIOUS
  <2> QED BY <2>1
<1>4. ASSUME NEW m \in Nat, m \in T PROVE m + 1 \in T
  <2>1. PICK f : Is(f, m)
      BY <1>4
  <2> DEFINE g == [i \in 0 .. m + 1 |-> IF i = m + 1 THEN More(f[m], m + 1) ELSE f[i]]
  <2>2. ASSUME NEW i \in 0 .. m + 1
        PROVE  g[i] = IF i = 0 THEN <<>> ELSE More(g[i - 1], i)
    <3>1. CASE i = m + 1
        BY <3>1
    <3>2. CASE i \in 0 .. m
        BY <2>1, <3>2
    <3> QED BY <3>1, <3>2
  <2>3. Is(g, m + 1)
      BY <2>2
  <2> HIDE DEF g, Is
  <2> QED BY <2>3
<1>5. n \in T
  <2> HIDE DEF T
  <2> QED BY <1>1, <1>3, <1>4, SetInduction
<1>6. Is(Encoding(r, v, way), n)
  <2> HIDE DEF Is
  <2> QED BY <1>1, <1>2, <1>5
<1>7. ASSUME NEW i \in 0 .. n - 1
      PROVE  Encoding(r, v, way)[i + 1] = More(Encoding(r, v, way)[i], i + 1)
    BY <1>1, <1>6
<1>8. Encoding(r, v, way)[0] = <<>>
    BY <1>1, <1>6
<1>9. r.encode = r.decode
    BY DEF IsRoutine
<1> QED BY Zenon, <1>7, <1>8, <1>9 DEF More, n

\* So do the states of the decoding.
LEMMA DecodingUnrolled ==
  ASSUME NEW r, IsRoutine(r), NEW w, NEW way
  PROVE  /\ Decoding(r, w, way)[0] = Start
         /\ \A i \in 0 .. Len(r.decode) - 1 :
              Decoding(r, w, way)[i + 1] =
                Gets(w, r.decode[i + 1], way, Decoding(r, w, way)[i])
<1> DEFINE More(s, i) == Gets(w, r.decode[i], way, s)
           n == Len(r.decode)
           Is(f, m) == f = [i \in 0 .. m |-> IF i = 0 THEN Start ELSE More(f[i - 1], i)]
           T == {m \in Nat : \E f : Is(f, m)}
<1>1. n \in Nat
    BY DEF IsRoutine, AreSteps, IsList
<1>2. Decoding(r, w, way) = CHOOSE f : Is(f, n)
    BY Zenon DEF Decoding
<1> HIDE DEF More, n
<1>3. 0 \in T
  <2>1. Is([i \in 0 .. 0 |-> Start], 0)
      OBVIOUS
  <2> QED BY <2>1
<1>4. ASSUME NEW m \in Nat, m \in T PROVE m + 1 \in T
  <2>1. PICK f : Is(f, m)
      BY <1>4
  <2> DEFINE g == [i \in 0 .. m + 1 |-> IF i = m + 1 THEN More(f[m], m + 1) ELSE f[i]]
  <2>2. ASSUME NEW i \in 0 .. m + 1
        PROVE  g[i] = IF i = 0 THEN Start ELSE More(g[i - 1], i)
    <3>1. CASE i = m + 1
        BY <3>1
    <3>2. CASE i \in 0 .. m
        BY <2>1, <3>2
    <3> QED BY <3>1, <3>2
  <2>3. Is(g, m + 1)
      BY <2>2
  <2> HIDE DEF g, Is
  <2> QED BY <2>3
<1>5. n \in T
  <2> HIDE DEF T
  <2> QED BY <1>1, <1>3, <1>4, SetInduction
<1>6. Is(Decoding(r, w, way), n)
  <2> HIDE DEF Is
  <2> QED BY <1>2, <1>5
<1>7. ASSUME NEW i \in 0 .. n - 1
      PROVE  Decoding(r, w, way)[i + 1] = More(Decoding(r, w, way)[i], i + 1)
    BY <1>1, <1>6
<1> QED BY <1>1, <1>6, <1>7 DEF More, n

-----------------------------------------------------------------------------
(* What was encoded is decoded.                                                *)

LEMMA ValueFields ==
  ASSUME NEW r, IsRoutine(r), NEW v \in Values(r), NEW m \in 1 .. Len(r.decode)
  PROVE  /\ IsStep(r.decode[m])
         /\ Range(r.decode[m].fields) \subseteq Fields(r)
         /\ r.decode[m].kind = "bytes" => r.decode[m].fields[1] \in Opaques(r)
         /\ HasFields(v, r.decode[m])
<1> DEFINE step == r.decode[m]
<1>1. IsStep(step) /\ step \in Range(r.decode)
    BY DEF IsRoutine, AreSteps, Range, IsList
<1>2. Len(step.fields) \in Nat /\ DOMAIN step.fields = 1 .. Len(step.fields)
    BY <1>1 DEF IsStep, IsList
<1>3. \A i \in 1 .. Len(step.fields) : step.fields[i] \in Range(step.fields)
    BY <1>2 DEF Range
<1>4. Range(step.fields) \subseteq Fields(r)
    BY <1>1 DEF Fields
<1>5. step.kind = "bytes" => step.fields[1] \in Opaques(r)
  <2> SUFFICES ASSUME step.kind = "bytes" PROVE step.fields[1] \in Opaques(r)
      OBVIOUS
  <2>1. step \in {t \in Range(r.decode) : t.kind = "bytes"}
      BY <1>1
  <2>2. step.fields[1] \in Range(step.fields)
      BY <1>1, <1>2, <1>3 DEF IsStep, IsList
  <2> QED BY <2>1, <2>2 DEF Opaques
<1>6. \A f \in Fields(r) : v[f] \in Seq(Nat)
    BY DEF Values
<1> QED BY <1>1, <1>3, <1>4, <1>5, <1>6 DEF HasFields

\* The units of the first steps stand at the head of the message.
InOrder(r, v, way) ==
  LET E == Encoding(r, v, way)
  IN \A m \in 0 .. Len(r.decode) : \A i \in 0 .. m :
       /\ E[i] \in Seq(Seq(Nat)) /\ Len(E[i]) <= Len(E[m])
       /\ \A j \in 1 .. Len(E[i]) : E[m][j] = E[i][j]

LEMMA EncodingGrows ==
  ASSUME NEW r, IsRoutine(r), NEW v \in Values(r), NEW way
  PROVE  InOrder(r, v, way)
<1> DEFINE E == Encoding(r, v, way)
           n == Len(r.decode)
           Good(m) == \A i \in 0 .. m : /\ E[i] \in Seq(Seq(Nat)) /\ Len(E[i]) <= Len(E[m])
                                       /\ \A j \in 1 .. Len(E[i]) : E[m][j] = E[i][j]
           T == {m \in Nat : m <= n => Good(m)}
<1>1. E[0] = <<>> /\ \A i \in 0 .. n - 1 : E[i + 1] = E[i] \o Puts(v, r.decode[i + 1], way)
    BY EncodingUnrolled
<1>2. \A i \in 1 .. n : Puts(v, r.decode[i], way) \in Seq(Seq(Nat))
  <2> SUFFICES ASSUME NEW i \in 1 .. n
               PROVE  Puts(v, r.decode[i], way) \in Seq(Seq(Nat))
      OBVIOUS
  <2>1. IsStep(r.decode[i]) /\ HasFields(v, r.decode[i])
      BY ValueFields
  <2>2. PutRight(r.decode[i], v, way)
      BY <2>1, PutsUnits
  <2> QED BY <2>2 DEF PutRight
<1>3. n \in Nat
    BY DEF IsRoutine, AreSteps, IsList
<1> HIDE DEF E, n, Good, T
<1>4. 0 \in T
  <2>1. <<>> \in Seq(Seq(Nat)) /\ Len(<<>>) = 0
      OBVIOUS
  <2>2. Good(0)
    <3>1. \A i \in 0 .. 0 : i = 0
        OBVIOUS
    <3>2. Len(E[0]) = 0 /\ E[0] \in Seq(Seq(Nat)) /\ 1 .. 0 = {}
        BY <1>1, <2>1
    <3> QED BY <3>1, <3>2 DEF Good
  <2> QED BY <2>2 DEF T
<1>5. ASSUME NEW m \in Nat, m \in T PROVE m + 1 \in T
  <2> SUFFICES ASSUME m + 1 <= n PROVE Good(m + 1)
      BY DEF T
  <2>1. Good(m)
      BY <1>3, <1>5 DEF T
  <2> DEFINE A == E[m]
             B == Puts(v, r.decode[m + 1], way)
  <2>2. E[m + 1] = A \o B /\ A \in Seq(Seq(Nat)) /\ B \in Seq(Seq(Nat))
    <3>1. m + 1 \in 1 .. n /\ m \in 0 .. n - 1 /\ m \in 0 .. m
        BY <1>3
    <3>2. A \in Seq(Seq(Nat)) /\ B \in Seq(Seq(Nat))
        BY <1>2, <2>1, <3>1 DEF Good
    <3> QED BY Zenon, <1>1, <3>1, <3>2
  <2> HIDE DEF A, B
  <2>3. /\ E[m + 1] \in Seq(Seq(Nat)) /\ Len(A) \in Nat /\ Len(A) <= Len(E[m + 1])
        /\ \A j \in 1 .. Len(A) : E[m + 1][j] = A[j]
    <3>1. /\ A \o B \in Seq(Seq(Nat)) /\ Len(A \o B) = Len(A) + Len(B)
          /\ \A j \in 1 .. Len(A) + Len(B) :
               (A \o B)[j] = IF j <= Len(A) THEN A[j] ELSE B[j - Len(A)]
        BY <2>2, ConcatProperties
    <3>2. Len(A) \in Nat /\ Len(B) \in Nat
        BY <2>2
    <3> QED BY <2>2, <3>1, <3>2
  <2>4. ASSUME NEW i \in 0 .. m + 1
        PROVE  /\ E[i] \in Seq(Seq(Nat)) /\ Len(E[i]) <= Len(E[m + 1])
               /\ \A j \in 1 .. Len(E[i]) : E[m + 1][j] = E[i][j]
    <3>1. CASE i = m + 1
      <4>1. Len(E[m + 1]) \in Nat
          BY <2>3
      <4> QED BY <2>3, <3>1, <4>1
    <3>2. CASE i \in 0 .. m
      <4>1. /\ E[i] \in Seq(Seq(Nat)) /\ Len(E[i]) <= Len(A)
            /\ \A j \in 1 .. Len(E[i]) : A[j] = E[i][j]
          BY <2>1, <3>2 DEF A, Good
      <4>2. Len(E[i]) \in Nat /\ Len(E[m + 1]) \in Nat
          BY <2>3, <4>1
      <4>3. \A j \in 1 .. Len(E[i]) : j \in 1 .. Len(A)
          BY <2>3, <4>1, <4>2
      <4>4. \A j \in 1 .. Len(E[i]) : E[m + 1][j] = E[i][j]
          BY <2>3, <4>1, <4>3
      <4> QED BY <2>3, <4>1, <4>2, <4>4
    <3> QED BY <3>1, <3>2
  <2> QED BY <2>4 DEF Good
<1>6. Nat \subseteq T
    BY <1>4, <1>5, SetInduction
<1>7. \A m \in 0 .. n : Good(m)
    BY <1>3, <1>6 DEF T
<1> QED BY <1>7 DEF E, n, Good, InOrder

\* The units after the first i steps, in the whole message.
HeadOf(r, v, a, i) ==
  LET H == Encoding(r, v, a)[i]
      M == Encode(r, v, a)
  IN H \in Seq(Seq(Nat)) /\ Len(H) <= Len(M) /\ \A j \in 1 .. Len(H) : M[j] = H[j]

LEMMA EncodingTypes ==
  ASSUME NEW r, IsRoutine(r), NEW v \in Values(r), NEW a, NEW i \in 0 .. Len(r.decode)
  PROVE  HeadOf(r, v, a, i)
<1> DEFINE E == Encoding(r, v, a)
           n == Len(r.decode)
<1>1. n \in 0 .. n /\ Encode(r, v, a) = E[n]
    BY DEF IsRoutine, AreSteps, Encode, IsList
<1>2. InOrder(r, v, a)
    BY EncodingGrows
<1>3. E[i] \in Seq(Seq(Nat)) /\ Len(E[i]) <= Len(E[n]) /\ \A j \in 1 .. Len(E[i]) : E[n][j] = E[i][j]
    BY <1>1, <1>2 DEF InOrder
<1> HIDE DEF E
<1> QED BY <1>1, <1>3 DEF HeadOf, E

LEMMA LastHead ==
  ASSUME NEW r, IsRoutine(r), NEW v, NEW a
  PROVE  /\ Len(r.decode) \in Nat
         /\ Encode(r, v, a) = Encoding(r, v, a)[Len(r.decode)]
BY DEF IsRoutine, AreSteps, Encode, IsList

LEMMA EncodeType ==
  ASSUME NEW r, IsRoutine(r), NEW v \in Values(r), NEW a
  PROVE  Encode(r, v, a) \in Seq(Seq(Nat)) /\ Len(Encode(r, v, a)) \in Nat
<1>1. Len(r.decode) \in 0 .. Len(r.decode)
    BY LastHead
<1>2. HeadOf(r, v, a, Len(r.decode))
    BY <1>1, EncodingTypes
<1>3. Encode(r, v, a) \in Seq(Seq(Nat))
    BY <1>2, LastHead DEF HeadOf
<1> QED BY <1>3

\* One step more.
StepMore(r, v, a, m) ==
  LET A == Encoding(r, v, a)[m]
      B == Encoding(r, v, a)[m + 1]
      P == Puts(v, r.decode[m + 1], a)
  IN /\ A \in Seq(Seq(Nat)) /\ P \in Seq(Seq(Nat)) /\ Len(B) = Len(A) + Len(P)
     /\ \A j \in 1 .. Len(P) : B[Len(A) + j] = P[j]

LEMMA EncodingNext ==
  ASSUME NEW r, IsRoutine(r), NEW v \in Values(r), NEW a,
         NEW m \in 0 .. Len(r.decode) - 1
  PROVE  StepMore(r, v, a, m)
<1> DEFINE A == Encoding(r, v, a)[m]
           P == Puts(v, r.decode[m + 1], a)
<1>1. Encoding(r, v, a)[m + 1] = A \o P
    BY EncodingUnrolled
<1>2. m \in 0 .. Len(r.decode) /\ m + 1 \in 1 .. Len(r.decode)
    BY LastHead
<1>3. A \in Seq(Seq(Nat))
  <2>1. HeadOf(r, v, a, m)
      BY <1>2, EncodingTypes
  <2> QED BY <2>1 DEF HeadOf
<1>4. P \in Seq(Seq(Nat))
  <2>1. IsStep(r.decode[m + 1]) /\ HasFields(v, r.decode[m + 1])
      BY <1>2, ValueFields
  <2>2. PutRight(r.decode[m + 1], v, a)
      BY <2>1, PutsUnits
  <2> QED BY <2>2 DEF PutRight
<1> HIDE DEF A, P
<1>5. /\ A \o P \in Seq(Seq(Nat)) /\ Len(A \o P) = Len(A) + Len(P)
      /\ \A j \in 1 .. Len(A) + Len(P) : (A \o P)[j] = IF j <= Len(A) THEN A[j] ELSE P[j - Len(A)]
    BY <1>3, <1>4, ConcatProperties
<1>6. Len(A) \in Nat /\ Len(P) \in Nat
    BY <1>3, <1>4
<1>7. ASSUME NEW j \in 1 .. Len(P) PROVE (A \o P)[Len(A) + j] = P[j]
  <2>1. Len(A) + j \in 1 .. Len(A) + Len(P) /\ ~(Len(A) + j <= Len(A)) /\ Len(A) + j - Len(A) = j
      BY <1>6
  <2> QED BY <1>5, <2>1
<1> QED BY <1>1, <1>3, <1>4, <1>5, <1>7 DEF A, P, StepMore

IsState(s) == s = [at |-> s.at, value |-> s.value, memory |-> s.memory, ok |-> s.ok]

\* Where the decoding is, the message has what the step has put, as far as it goes.
Stands(w, at, step, v, a) ==
  \A j \in 1 .. Len(Puts(v, step, a)) : at + j <= Len(w) => w[at + j] = Puts(v, step, a)[j]

Memory(step) == IF step.kind = "bytes" THEN {step.fields[1]} ELSE {}
Allowed(step, v) == step.kind = "bytes" => Len(v[step.fields[1]]) <= step.max

\* The state t after the step was decoded in s; the step has put k units.
GotRight(t, s, step, v, k, w) ==
  /\ IsState(t) /\ t.ok \in BOOLEAN /\ t.memory \subseteq s.memory \union Memory(step)
  /\ t.ok = TRUE => /\ t.at = s.at + k /\ t.at <= Len(w)
                    /\ t.value = Joined([g \in Range(step.fields) |-> v[g]], s.value)
  /\ (s.at + k <= Len(w) /\ Allowed(step, v)) => t.ok = TRUE

\* One step gets what the same step has put, whichever way the other side did it.
LEMMA GetsBytes ==
  ASSUME NEW step, IsStep(step), step.kind = "bytes",
         NEW v, NEW a, NEW b, HasFields(v, step),
         NEW w \in Seq(Seq(Nat)), NEW s, IsState(s), s.ok = TRUE,
         s.at \in Nat, s.at <= Len(w), Stands(w, s.at, step, v, a)
  PROVE  GotRight(Gets(w, step, b, s), s, step, v, Len(Puts(v, step, a)), w)
<1> DEFINE t == Gets(w, step, b, s)
           P == Puts(v, step, a)
           f == step.fields[1]
           left == Len(w) - s.at
<1>1. Len(step.fields) = 1 /\ DOMAIN step.fields = 1 .. 1 /\ Len(w) \in Nat /\ left \in Nat
  <2>1. Len(step.fields) = 1
      BY DEF IsStep
  <2>2. DOMAIN step.fields = 1 .. 1
      BY <2>1 DEF IsStep, IsList
  <2>3. Len(w) \in Nat /\ left \in Nat
      OBVIOUS
  <2> QED BY <2>1, <2>2, <2>3
<1>2. step.max \in Nat /\ Range(step.fields) = {f} /\ Memory(step) = {f}
    BY <1>1 DEF IsStep, Range, Memory, IsList
<1>3. v[f] \in Seq(Nat) /\ Len(v[f]) \in Nat
    BY <1>1 DEF HasFields
<1>4. Len(P) = 2 /\ P[1] = <<Len(v[f])>> /\ P[2] = v[f]
  <2>1. PutRight(step, v, a)
      BY PutsUnits
  <2> QED BY <2>1 DEF PutRight
<1>5. ASSUME NEW j \in 1 .. 2, left >= j PROVE w[s.at + j] = P[j]
    BY <1>1, <1>4, <1>5 DEF Stands
<1>6. /\ left >= 1 => w[s.at + 1] = <<Len(v[f])>>
      /\ left >= 2 => w[s.at + 2] = v[f]
  <2> HIDE DEF P, left
  <2> QED BY <1>4, <1>5
<1>7. t = IF left < 1 \/ w[s.at + 1] = <<>> THEN [s EXCEPT !.ok = FALSE]
          ELSE IF w[s.at + 1][1] > step.max THEN [s EXCEPT !.ok = FALSE]
          ELSE IF left < 2 THEN [s EXCEPT !.ok = FALSE, !.memory = @ \union {f}]
          ELSE [at |-> s.at + 2, value |-> Joined([x \in {f} |-> w[s.at + 2]], s.value),
                memory |-> s.memory \union {f}, ok |-> TRUE]
    BY DEF Gets
<1> HIDE DEF P, t, f, left
<1>8. left >= 1 => w[s.at + 1] # <<>> /\ w[s.at + 1][1] = Len(v[f])
  <2>1. <<Len(v[f])>> # <<>> /\ <<Len(v[f])>>[1] = Len(v[f])
      OBVIOUS
  <2> QED BY <1>6, <2>1
<1>9. CASE left < 1 \/ ~ Allowed(step, v)
  <2>1. t = [s EXCEPT !.ok = FALSE]
      BY <1>1, <1>2, <1>3, <1>7, <1>8, <1>9 DEF Allowed, f
  <2>2. t.ok = FALSE /\ t.memory = s.memory /\ IsState(t)
      BY <2>1 DEF IsState
  <2>3. ~(s.at + 2 <= Len(w) /\ Allowed(step, v))
      BY <1>1, <1>9 DEF left
  <2> QED BY <1>4, <2>2, <2>3 DEF GotRight, P, t
<1>10. CASE left = 1 /\ Allowed(step, v)
  <2>1. t = [s EXCEPT !.ok = FALSE, !.memory = @ \union {f}]
      BY <1>1, <1>2, <1>3, <1>7, <1>8, <1>10 DEF Allowed, f
  <2>2. t.ok = FALSE /\ t.memory = s.memory \union {f} /\ IsState(t)
      BY <2>1 DEF IsState
  <2>3. ~(s.at + 2 <= Len(w))
      BY <1>1, <1>10 DEF left
  <2> QED BY <1>2, <1>4, <2>2, <2>3 DEF GotRight, P, t
<1>11. CASE left >= 2 /\ Allowed(step, v)
  <2> DEFINE u == w[s.at + 2]
  <2>1. u = v[f] /\ s.at + 2 <= Len(w)
      BY <1>1, <1>6, <1>11 DEF left
  <2>2. t = [at |-> s.at + 2, value |-> Joined([x \in {f} |-> u], s.value),
             memory |-> s.memory \union {f}, ok |-> TRUE]
      BY <1>1, <1>2, <1>3, <1>7, <1>8, <1>11 DEF Allowed, f
  <2> HIDE DEF u
  <2>3. [x \in {f} |-> u] = [g \in Range(step.fields) |-> v[g]]
    <3>1. [x \in {f} |-> u] = [g \in {f} |-> v[g]]
        BY <2>1
    <3> QED BY Zenon, <1>2, <3>1
  <2>4. /\ IsState(t) /\ t.ok = TRUE /\ t.memory = s.memory \union {f} /\ t.at = s.at + 2
        /\ t.value = Joined([x \in {f} |-> u], s.value)
      BY <2>2 DEF IsState
  <2>5. t.value = Joined([g \in Range(step.fields) |-> v[g]], s.value)
      BY Zenon, <2>3, <2>4
  <2> QED BY <1>2, <1>4, <2>1, <2>4, <2>5 DEF GotRight, P, t
<1> QED BY <1>1, <1>9, <1>10, <1>11

LEMMA GetsUnits ==
  ASSUME NEW step, IsStep(step), step.kind # "bytes",
         NEW v, NEW a, NEW b, HasFields(v, step),
         NEW w \in Seq(Seq(Nat)), NEW s, IsState(s), s.ok = TRUE,
         s.at \in Nat, s.at <= Len(w), Stands(w, s.at, step, v, a)
  PROVE  GotRight(Gets(w, step, b, s), s, step, v, Len(Puts(v, step, a)), w)
<1> DEFINE t == Gets(w, step, b, s)
           P == Puts(v, step, a)
           n == Len(step.fields)
           At(g) == CHOOSE i \in DOMAIN step.fields : step.fields[i] = g
           got == [g \in Range(step.fields) |-> w[s.at + At(g)]]
<1>1. n \in Nat /\ DOMAIN step.fields = 1 .. n /\ Len(w) \in Nat /\ step.n = n
    BY DEF IsStep, IsList
<1>2. Len(P) = n /\ \A i \in 1 .. n : P[i] = v[step.fields[i]]
  <2>1. PutRight(step, v, a)
      BY PutsUnits
  <2> QED BY <2>1 DEF PutRight
<1>3. \A i \in 1 .. n : s.at + i <= Len(w) => w[s.at + i] = v[step.fields[i]]
    BY <1>2 DEF Stands
<1>4. t = IF Len(w) - s.at < n THEN [s EXCEPT !.ok = FALSE]
          ELSE [s EXCEPT !.at = @ + n, !.value = Joined(got, @)]
    BY <1>1 DEF Gets
<1> HIDE DEF P, t, n, At, got
<1>5. CASE s.at + n > Len(w)
  <2>1. t = [s EXCEPT !.ok = FALSE]
      BY <1>1, <1>4, <1>5
  <2>2. t.ok = FALSE /\ t.memory = s.memory /\ IsState(t)
      BY <2>1 DEF IsState
  <2>3. ~(s.at + n <= Len(w))
      BY <1>1, <1>5
  <2> QED BY <1>2, <2>2, <2>3 DEF GotRight, P, t
<1>6. CASE s.at + n <= Len(w)
  <2>1. ASSUME NEW g \in Range(step.fields) PROVE w[s.at + At(g)] = v[g]
    <3>1. At(g) \in 1 .. n /\ step.fields[At(g)] = g
      <4>1. \E i \in DOMAIN step.fields : step.fields[i] = g
          BY DEF Range
      <4> QED BY <1>1, <4>1 DEF At
    <3>2. s.at + At(g) <= Len(w)
        BY <1>1, <1>6, <3>1
    <3> QED BY <1>3, <3>1, <3>2
  <2>2. got = [g \in Range(step.fields) |-> v[g]]
      BY <2>1 DEF got
  <2>3. t = [s EXCEPT !.at = @ + n, !.value = Joined(got, @)]
      BY <1>1, <1>4, <1>6
  <2>4. /\ IsState(t) /\ t.ok = TRUE /\ t.memory = s.memory /\ t.at = s.at + n
        /\ t.value = Joined(got, s.value)
      BY <2>3 DEF IsState
  <2>5. t.value = Joined([g \in Range(step.fields) |-> v[g]], s.value)
      BY Zenon, <2>2, <2>4
  <2> QED BY <1>2, <1>6, <2>4, <2>5 DEF GotRight, P, t
<1> QED BY <1>1, <1>5, <1>6

\* No opaque is longer than the routine takes.
Fits(r, v) ==
  \A i \in 1 .. Len(r.decode) :
    r.decode[i].kind = "bytes" => Len(v[r.decode[i].fields[1]]) <= r.decode[i].max

FieldsTo(r, m) == UNION {Range(r.decode[i].fields) : i \in 1 .. m}

\* The state of the decoding of w after m steps: at the place where the encoding was.
Reached(r, v, a, w, b, m) ==
  LET s == Decoding(r, w, b)[m]
      E == Encoding(r, v, a)
  IN /\ IsState(s) /\ s.ok \in BOOLEAN /\ s.memory \subseteq Opaques(r)
     /\ s.ok = TRUE => /\ s.at = Len(E[m]) /\ s.at <= Len(w)
                       /\ s.value = [f \in FieldsTo(r, m) |-> v[f]]
     /\ (Fits(r, v) /\ w = Encode(r, v, a)) => s.ok = TRUE

LEMMA StartReached ==
  ASSUME NEW r, IsRoutine(r), NEW v \in Values(r), NEW a, NEW b,
         NEW w \in Seq(Seq(Nat))
  PROVE  Reached(r, v, a, w, b, 0)
<1> DEFINE s == Decoding(r, w, b)[0]
           e == Encoding(r, v, a)[0]
<1>1. s = Start /\ e = <<>>
    BY EncodingUnrolled, DecodingUnrolled
<1>2. /\ IsState(Start) /\ Start.ok = TRUE /\ Start.at = 0 /\ Start.memory = {}
      /\ Start.value = <<>>
    BY DEF Start, IsState
<1>3. [f \in FieldsTo(r, 0) |-> v[f]] = <<>>
  <2>1. FieldsTo(r, 0) = {}
      BY DEF FieldsTo
  <2> QED BY <2>1
<1>4. Len(w) \in Nat
    OBVIOUS
<1> HIDE DEF s, e, Start
<1>5. IsState(s) /\ s.ok = TRUE /\ s.at = 0 /\ s.memory = {} /\ s.value = <<>>
    BY <1>1, <1>2
<1>6. Len(e) = 0
    BY <1>1
<1>7. s.at = Len(e) /\ s.at <= Len(w)
    BY <1>4, <1>5, <1>6
<1>9. s.ok \in BOOLEAN
    BY Zenon, <1>5
<1>10. s.memory \subseteq Opaques(r)
    BY <1>5
<1>8. s.value = [f \in FieldsTo(r, 0) |-> v[f]]
    BY Zenon, <1>3, <1>5
<1> QED BY Zenon, <1>5, <1>7, <1>8, <1>9, <1>10 DEF Reached, s, e

\* The message is the encoding's head.
Begins(w, M) == Len(w) <= Len(M) /\ \A j \in 1 .. Len(w) : w[j] = M[j]

LEMMA NextStands ==
  ASSUME NEW r, IsRoutine(r), NEW v \in Values(r), NEW a,
         NEW w \in Seq(Seq(Nat)), Begins(w, Encode(r, v, a)),
         NEW m \in 0 .. Len(r.decode) - 1
  PROVE  Stands(w, Len(Encoding(r, v, a)[m]), r.decode[m + 1], v, a)
<1> DEFINE A == Encoding(r, v, a)[m]
           B == Encoding(r, v, a)[m + 1]
           M == Encode(r, v, a)
           P == Puts(v, r.decode[m + 1], a)
<1>1. StepMore(r, v, a, m)
    BY EncodingNext
<1>2. m + 1 \in 0 .. Len(r.decode)
    BY LastHead
<1>3. HeadOf(r, v, a, m + 1)
    BY <1>2, EncodingTypes
<1>4. /\ A \in Seq(Seq(Nat)) /\ P \in Seq(Seq(Nat)) /\ Len(B) = Len(A) + Len(P)
      /\ \A j \in 1 .. Len(P) : B[Len(A) + j] = P[j]
    BY <1>1 DEF StepMore
<1>5. \A j \in 1 .. Len(B) : M[j] = B[j]
    BY <1>3 DEF HeadOf
<1>6. \A j \in 1 .. Len(w) : w[j] = M[j]
    BY DEF Begins
<1> HIDE DEF A, B, M, P
<1>7. Len(A) \in Nat /\ Len(P) \in Nat /\ Len(w) \in Nat
    BY <1>4
<1>8. ASSUME NEW j \in 1 .. Len(P), Len(A) + j <= Len(w) PROVE w[Len(A) + j] = P[j]
  <2>1. Len(A) + j \in 1 .. Len(w) /\ Len(A) + j \in 1 .. Len(B)
      BY <1>4, <1>7, <1>8
  <2> QED BY <1>4, <1>5, <1>6, <2>1
<1> QED BY <1>8 DEF Stands, A, P

LEMMA NextReached ==
  ASSUME NEW r, IsRoutine(r), NEW v \in Values(r), NEW a, NEW b,
         NEW w \in Seq(Seq(Nat)), Begins(w, Encode(r, v, a)),
         NEW m \in 0 .. Len(r.decode) - 1, Reached(r, v, a, w, b, m)
  PROVE  Reached(r, v, a, w, b, m + 1)
<1> DEFINE n == Len(r.decode)
           step == r.decode[m + 1]
           s == Decoding(r, w, b)[m]
           t == Decoding(r, w, b)[m + 1]
           A == Encoding(r, v, a)[m]
           B == Encoding(r, v, a)[m + 1]
           M == Encode(r, v, a)
           P == Puts(v, step, a)
<1>1. n \in Nat /\ m + 1 \in 0 .. n /\ m + 1 \in 1 .. n
    BY LastHead
<1>2. t = Gets(w, step, b, s)
  <2>1. \A i \in 0 .. n - 1 :
          Decoding(r, w, b)[i + 1] = Gets(w, r.decode[i + 1], b, Decoding(r, w, b)[i])
      BY DecodingUnrolled
  <2> QED BY Zenon, <2>1
<1>3. /\ IsStep(step) /\ Range(step.fields) \subseteq Fields(r)
      /\ step.kind = "bytes" => step.fields[1] \in Opaques(r)
      /\ HasFields(v, step)
    BY <1>1, ValueFields
<1>4. /\ IsState(s) /\ s.ok \in BOOLEAN /\ s.memory \subseteq Opaques(r)
      /\ s.ok = TRUE => /\ s.at = Len(A) /\ s.at <= Len(w)
                        /\ s.value = [f \in FieldsTo(r, m) |-> v[f]]
      /\ (Fits(r, v) /\ w = M) => s.ok = TRUE
    BY DEF Reached
<1>5. A \in Seq(Seq(Nat)) /\ P \in Seq(Seq(Nat)) /\ Len(B) = Len(A) + Len(P)
  <2>1. StepMore(r, v, a, m)
      BY EncodingNext
  <2> QED BY <2>1 DEF StepMore
<1>6. Len(B) <= Len(M)
  <2>1. HeadOf(r, v, a, m + 1)
      BY <1>1, EncodingTypes
  <2> QED BY <2>1 DEF HeadOf
<1>7. Stands(w, Len(A), step, v, a)
    BY NextStands
<1>8. Fits(r, v) => Allowed(step, v)
    BY <1>1 DEF Fits, Allowed
<1>9. FieldsTo(r, m + 1) = Range(step.fields) \union FieldsTo(r, m)
  <2>1. 1 .. m + 1 = (1 .. m) \union {m + 1}
      OBVIOUS
  <2> QED BY <2>1 DEF FieldsTo
<1> HIDE DEF A, B, M, P, s, t, step, n
<1>10. CASE s.ok = FALSE
  <2>1. t = s
      BY <1>2, <1>10 DEF Gets
  <2> QED BY <1>4, <1>10, <2>1 DEF Reached, t, M
<1>11. CASE s.ok = TRUE
  <2>1. s.at \in Nat /\ s.at = Len(A) /\ s.at <= Len(w)
      BY <1>4, <1>5, <1>11
  <2>2. GotRight(t, s, step, v, Len(P), w)
    <3>1. step.kind = "bytes" \/ step.kind # "bytes"
        OBVIOUS
    <3> QED BY Zenon, <1>2, <1>3, <1>4, <1>7, <1>11, <2>1, <3>1, GetsBytes, GetsUnits DEF P
  <2>3. /\ IsState(t) /\ t.ok \in BOOLEAN /\ t.memory \subseteq s.memory \union Memory(step)
        /\ t.ok = TRUE => /\ t.at = s.at + Len(P) /\ t.at <= Len(w)
                          /\ t.value = Joined([g \in Range(step.fields) |-> v[g]], s.value)
        /\ (s.at + Len(P) <= Len(w) /\ Allowed(step, v)) => t.ok = TRUE
      BY <2>2 DEF GotRight
  <2>4. t.memory \subseteq Opaques(r)
      BY <1>3, <1>4, <2>3 DEF Memory
  <2>5. Joined([g \in Range(step.fields) |-> v[g]], [f \in FieldsTo(r, m) |-> v[f]])
          = [f \in FieldsTo(r, m + 1) |-> v[f]]
      BY <1>9 DEF Joined
  <2>6. t.ok = TRUE => t.at = Len(B) /\ t.at <= Len(w)
      BY <1>5, <2>1, <2>3
  <2>7. t.ok = TRUE => t.value = [f \in FieldsTo(r, m + 1) |-> v[f]]
      BY Zenon, <1>4, <1>11, <2>3, <2>5
  <2>8. (Fits(r, v) /\ w = M) => t.ok = TRUE
    <3> SUFFICES ASSUME Fits(r, v), w = M PROVE t.ok = TRUE
        OBVIOUS
    <3>1. s.at + Len(P) <= Len(w)
        BY <1>5, <1>6, <2>1
    <3> QED BY <1>8, <2>3, <3>1
  <2> QED BY <2>3, <2>4, <2>6, <2>7, <2>8 DEF Reached, t, B, M
<1> QED BY <1>4, <1>10, <1>11

\* The decoding has ended in s: with the value and at the message's end, which has n
\* units, if the last k are not missing and no opaque is too long; else it may have
\* failed, and it has no memory but that of opaque fields.
TripRight(s, r, v, k, n) ==
  /\ s.ok \in BOOLEAN /\ s.memory \subseteq Opaques(r)
  /\ s.ok = TRUE => s.value = v /\ k = 0 /\ s.at = n
  /\ (k = 0 /\ Fits(r, v)) => s.ok = TRUE

\* What one side encodes (xdrproc with XDR_ENCODE) the other side decodes (XDR_DECODE)
\* to the same value, whichever of them coded in place, for every routine that lists
\* its fields alike for both; and a message whose last units are missing not at all.
THEOREM RoundTrip ==
  ASSUME NEW r, IsRoutine(r), NEW v \in Values(r), NEW a, NEW b,
         NEW k \in Nat, k <= Len(Encode(r, v, a))
  PROVE  TripRight(Decode(r, SubSeq(Encode(r, v, a), 1, Len(Encode(r, v, a)) - k), b),
                   r, v, k, Len(Encode(r, v, a)))
<1> DEFINE M == Encode(r, v, a)
           w == SubSeq(M, 1, Len(M) - k)
           n == Len(r.decode)
           T == {m \in Nat : m <= n => Reached(r, v, a, w, b, m)}
           s == Decode(r, w, b)
<1>1. n \in Nat /\ M = Encoding(r, v, a)[n] /\ s = Decoding(r, w, b)[n]
    BY LastHead DEF Decode
<1>2. M \in Seq(Seq(Nat)) /\ Len(M) \in Nat /\ k <= Len(M)
    BY EncodeType
<1> HIDE DEF M, n
<1>3. /\ w \in Seq(Seq(Nat)) /\ Len(w) = Len(M) - k
      /\ \A j \in 1 .. Len(w) : w[j] = M[j]
    BY <1>2
<1>4. k = 0 => w = M
  <2> HIDE DEF w
  <2>1. k = 0 => Len(w) = Len(M)
      BY <1>2, <1>3
  <2> QED BY <1>2, <1>3, <2>1, SeqEqual
<1> HIDE DEF w, T
<1>5. 0 \in T
    BY <1>3, StartReached DEF T
<1>6. ASSUME NEW m \in Nat, m \in T PROVE m + 1 \in T
  <2> SUFFICES ASSUME m + 1 <= n PROVE Reached(r, v, a, w, b, m + 1)
      BY DEF T
  <2>1. Reached(r, v, a, w, b, m) /\ m \in 0 .. n - 1
      BY <1>1, <1>6 DEF T
  <2>2. Begins(w, M)
      BY <1>2, <1>3 DEF Begins
  <2> QED BY <1>3, <2>1, <2>2, NextReached DEF M, n
<1>7. Reached(r, v, a, w, b, n)
  <2>1. n \in T
      BY <1>1, <1>5, <1>6, SetInduction
  <2> QED BY <1>1, <2>1 DEF T
<1>8. [f \in FieldsTo(r, n) |-> v[f]] = v
  <2>1. FieldsTo(r, n) = Fields(r)
      BY DEF FieldsTo, Fields, IsRoutine, AreSteps, n, Range, IsList
  <2> QED BY <2>1 DEF Values
<1> HIDE DEF s
<1>9. /\ s.ok \in BOOLEAN /\ s.memory \subseteq Opaques(r)
      /\ s.ok = TRUE => /\ s.at = Len(M) /\ s.at <= Len(w)
                        /\ s.value = [f \in FieldsTo(r, n) |-> v[f]]
      /\ (Fits(r, v) /\ w = M) => s.ok = TRUE
    BY <1>1, <1>7 DEF Reached, M
<1>10. s.ok = TRUE => k = 0
    BY <1>2, <1>3, <1>9
<1>11. s.ok = TRUE => s.value = v
    BY Zenon, <1>8, <1>9
<1> QED BY <1>4, <1>9, <1>10, <1>11 DEF M, w, s, TripRight

-----------------------------------------------------------------------------
(* The routines of vxi11.x.                                                    *)

LEMMA LimitIsNat == NoLimit \in Nat /\ 2 <= NoLimit
BY DEF NoLimit

LEMMA UnitIsStep ==
  ASSUME NEW f
  PROVE  IsStep(U(f))
BY DEF IsStep, U, IsList

LEMMA OpaqueIsStep ==
  ASSUME NEW f, NEW max \in Nat
  PROVE  IsStep(Opaque(f, max))
BY DEF IsStep, Opaque, IsList

LEMMA BlockIsStep ==
  ASSUME NEW fields, IsList(fields)
  PROVE  IsStep(Block(Len(fields), fields))
BY DEF IsStep, Block, IsList

\* Every opaque that is decoded stands among the steps that free.
FreesAll(r) ==
  \A i \in 1 .. Len(r.decode) : r.decode[i].kind = "bytes" =>
    \E k \in DOMAIN r.free : r.free[k] = r.decode[i]

LEMMA FreesIsRoutine ==
  ASSUME NEW r, r.encode = r.decode, AreSteps(r.decode), FreesAll(r)
  PROVE  IsRoutine(r)
<1> SUFFICES ASSUME NEW f \in Opaques(r) PROVE f \in Frees(r)
    BY DEF IsRoutine
<1>1. PICK i \in 1 .. Len(r.decode) : r.decode[i].kind = "bytes" /\ f \in Range(r.decode[i].fields)
    BY DEF Opaques, Range, AreSteps, IsList
<1>2. f = r.decode[i].fields[1]
  <2>1. IsStep(r.decode[i])
      BY DEF AreSteps, IsList
  <2>2. Len(r.decode[i].fields) = 1
      BY <1>1, <2>1 DEF IsStep
  <2>3. DOMAIN r.decode[i].fields = 1 .. 1
      BY <2>1, <2>2 DEF IsStep, IsList
  <2> QED BY <1>1, <2>3 DEF Range
<1>3. PICK k \in DOMAIN r.free : r.free[k] = r.decode[i]
    BY <1>1 DEF FreesAll
<1> QED BY <1>1, <1>2, <1>3 DEF Frees

\* A step that takes any length that there may be.
TakesAll(step) == step.kind = "bytes" => step.max = NoLimit
AnyLength(r) == \A i \in 1 .. Len(r.decode) : TakesAll(r.decode[i])

LEMMA AnyLengthFits ==
  ASSUME NEW r, IsRoutine(r), AnyLength(r), NEW v \in Values(r)
  PROVE  Fits(r, v)
<1> SUFFICES ASSUME NEW i \in 1 .. Len(r.decode), r.decode[i].kind = "bytes"
             PROVE  Len(v[r.decode[i].fields[1]]) <= r.decode[i].max
    BY DEF Fits
<1>1. r.decode[i].fields[1] \in Opaques(r)
    BY ValueFields
<1> QED BY <1>1 DEF Values, AnyLength, TakesAll

GoodStep(step) == IsStep(step) /\ TakesAll(step)

LEMMA GoodSteps ==
  /\ \A f : GoodStep(U(f)) /\ GoodStep(Opaque(f, NoLimit))
  /\ \A fields : IsList(fields) => GoodStep(Block(Len(fields), fields))
<1>1. \A f : TakesAll(U(f)) /\ TakesAll(Opaque(f, NoLimit))
    BY DEF TakesAll, U, Opaque
<1>2. \A fields : TakesAll(Block(Len(fields), fields))
    BY DEF TakesAll, Block
<1> QED BY <1>1, <1>2, LimitIsNat, UnitIsStep, OpaqueIsStep, BlockIsStep DEF GoodStep

GoodRoutine(r) == IsRoutine(r) /\ AnyLength(r)

\* A sequence of good steps.
AllGood(steps) ==
  IsList(steps) /\ \A i \in 1 .. Len(steps) : GoodStep(steps[i])

LEMMA SameIsGood ==
  ASSUME NEW steps, AllGood(steps)
  PROVE  GoodRoutine(Same(steps))
<1>1. /\ Same(steps).encode = steps /\ Same(steps).decode = steps /\ Same(steps).free = steps
    BY DEF Same
<1>2. AreSteps(steps)
    BY DEF AreSteps, AllGood, GoodStep, IsList
<1> DEFINE r == Same(steps)
<1> HIDE DEF r
<1>3. FreesAll(r)
    BY <1>1, <1>2 DEF FreesAll, AreSteps, r, IsList
<1>4. AnyLength(r)
    BY <1>1 DEF AnyLength, AllGood, GoodStep, r, IsList
<1> QED BY <1>1, <1>2, <1>3, <1>4, FreesIsRoutine DEF GoodRoutine, r

LEMMA GoodSequences ==
  /\ AllGood(<<>>)
  /\ \A a : GoodStep(a) => AllGood(<<a>>)
  /\ \A a, b : GoodStep(a) /\ GoodStep(b) => AllGood(<<a, b>>)
  /\ \A a, b, c : GoodStep(a) /\ GoodStep(b) /\ GoodStep(c) => AllGood(<<a, b, c>>)
  /\ \A a, b, c, d : GoodStep(a) /\ GoodStep(b) /\ GoodStep(c) /\ GoodStep(d)
                       => AllGood(<<a, b, c, d>>)
  /\ \A a, b, c, d, e : GoodStep(a) /\ GoodStep(b) /\ GoodStep(c) /\ GoodStep(d) /\ GoodStep(e)
                          => AllGood(<<a, b, c, d, e>>)
BY DEF AllGood, IsList

LEMMA SameRoutines ==
  /\ GoodRoutine(xdr_void) /\ GoodRoutine(xdr_Device_Link) /\ GoodRoutine(xdr_Device_Error)
  /\ GoodRoutine(xdr_Create_LinkResp) /\ GoodRoutine(xdr_Device_WriteParms)
  /\ GoodRoutine(xdr_Device_WriteResp) /\ GoodRoutine(xdr_Device_ReadResp)
  /\ GoodRoutine(xdr_Device_ReadStbResp) /\ GoodRoutine(xdr_Device_GenericParms)
  /\ GoodRoutine(xdr_Device_LockParms) /\ GoodRoutine(xdr_Device_DocmdResp)
  /\ GoodRoutine(xdr_Device_SrqParms)
<1>1. GoodRoutine(xdr_void)
    BY GoodSequences, SameIsGood DEF xdr_void
<1>2. GoodRoutine(xdr_Device_Link)
    BY GoodSteps, GoodSequences, SameIsGood DEF xdr_Device_Link
<1>3. GoodRoutine(xdr_Device_Error)
    BY GoodSteps, GoodSequences, SameIsGood DEF xdr_Device_Error
<1>4. GoodRoutine(xdr_Create_LinkResp)
    BY GoodSteps, GoodSequences, SameIsGood DEF xdr_Create_LinkResp
<1>5. GoodRoutine(xdr_Device_WriteParms)
    BY GoodSteps, GoodSequences, SameIsGood DEF xdr_Device_WriteParms
<1>6. GoodRoutine(xdr_Device_WriteResp)
    BY GoodSteps, GoodSequences, SameIsGood DEF xdr_Device_WriteResp
<1>7. GoodRoutine(xdr_Device_ReadResp)
    BY GoodSteps, GoodSequences, SameIsGood DEF xdr_Device_ReadResp
<1>8. GoodRoutine(xdr_Device_ReadStbResp)
    BY GoodSteps, GoodSequences, SameIsGood DEF xdr_Device_ReadStbResp
<1>9. GoodRoutine(xdr_Device_GenericParms)
    BY GoodSteps, GoodSequences, SameIsGood DEF xdr_Device_GenericParms
<1>10. GoodRoutine(xdr_Device_LockParms)
    BY GoodSteps, GoodSequences, SameIsGood DEF xdr_Device_LockParms
<1>11. GoodRoutine(xdr_Device_DocmdResp)
    BY GoodSteps, GoodSequences, SameIsGood DEF xdr_Device_DocmdResp
<1>12. GoodRoutine(xdr_Device_SrqParms)
    BY GoodSteps, GoodSequences, SameIsGood DEF xdr_Device_SrqParms
<1> QED BY <1>1, <1>2, <1>3, <1>4, <1>5, <1>6, <1>7, <1>8, <1>9, <1>10, <1>11, <1>12

\* Where encoding and decoding have a block and freeing has its fields one by one.
LEMMA BlockIsGood ==
  ASSUME NEW r, r.encode = r.decode, AllGood(r.decode), FreesAll(r)
  PROVE  GoodRoutine(r)
<1>1. AreSteps(r.decode)
    BY DEF AreSteps, AllGood, GoodStep, IsList
<1>2. AnyLength(r)
    BY DEF AnyLength, AllGood, GoodStep, IsList
<1> QED BY <1>1, <1>2, FreesIsRoutine DEF GoodRoutine

LEMMA BlockRoutines ==
  /\ GoodRoutine(xdr_Create_LinkParms) /\ GoodRoutine(xdr_Device_ReadParms)
  /\ GoodRoutine(xdr_Device_RemoteFunc) /\ GoodRoutine(xdr_Device_DocmdParms)
<1>1. GoodRoutine(xdr_Create_LinkParms)
  <2> DEFINE r == xdr_Create_LinkParms
             A == Block(3, <<"clientId", "lockDevice", "lock_timeout">>)
             B == Opaque("device", NoLimit)
  <2>1. GoodStep(A) /\ GoodStep(B)
    <3>1. GoodStep(A)
      <4> DEFINE fs == <<"clientId", "lockDevice", "lock_timeout">>
      <4>1. IsList(fs) /\ Len(fs) = 3
          BY DEF IsList
      <4>2. GoodStep(Block(Len(fs), fs))
        <5> HIDE DEF fs
        <5> QED BY <4>1, GoodSteps
      <4> QED BY <4>1, <4>2
    <3> QED BY <3>1, GoodSteps
  <2>2. A.kind = "block" /\ DOMAIN r.free = 1 .. 4 /\ r.free[4] = B
      BY DEF Block, xdr_Create_LinkParms
  <2>3. r.encode = <<A, B>> /\ r.decode = <<A, B>>
      BY DEF xdr_Create_LinkParms
  <2> HIDE DEF r, A, B
  <2>4. FreesAll(r)
      BY <2>2, <2>3 DEF FreesAll
  <2>5. AllGood(r.decode)
      BY <2>1, <2>3, GoodSequences
  <2> QED BY <2>3, <2>4, <2>5, BlockIsGood DEF r
<1>2. GoodRoutine(xdr_Device_ReadParms)
  <2> DEFINE r == xdr_Device_ReadParms
             A == U("lid")
             B == Block(3, <<"requestSize", "io_timeout", "lock_timeout">>)
             C == U("flags")
             D == U("termChar")
  <2>1. GoodStep(A) /\ GoodStep(B) /\ GoodStep(C) /\ GoodStep(D)
    <3>1. GoodStep(B)
      <4> DEFINE fs == <<"requestSize", "io_timeout", "lock_timeout">>
      <4>1. IsList(fs) /\ Len(fs) = 3
          BY DEF IsList
      <4>2. GoodStep(Block(Len(fs), fs))
        <5> HIDE DEF fs
        <5> QED BY <4>1, GoodSteps
      <4> QED BY <4>1, <4>2
    <3> QED BY <3>1, GoodSteps
  <2>2. A.kind = "unit" /\ B.kind = "block" /\ C.kind = "unit" /\ D.kind = "unit"
      BY DEF Block, U
  <2>3. r.encode = <<A, B, C, D>> /\ r.decode = <<A, B, C, D>>
      BY DEF xdr_Device_ReadParms
  <2> HIDE DEF r, A, B, C, D
  <2>4. FreesAll(r)
      BY <2>2, <2>3 DEF FreesAll
  <2>5. AllGood(r.decode)
      BY <2>1, <2>3, GoodSequences
  <2> QED BY <2>3, <2>4, <2>5, BlockIsGood DEF r
<1>3. GoodRoutine(xdr_Device_RemoteFunc)
  <2> DEFINE r == xdr_Device_RemoteFunc
             A == Block(4, <<"hostAddr", "hostPort", "progNum", "progVers">>)
             B == U("progFamily")
  <2>1. GoodStep(A) /\ GoodStep(B)
    <3>1. GoodStep(A)
      <4> DEFINE fs == <<"hostAddr", "hostPort", "progNum", "progVers">>
      <4>1. IsList(fs) /\ Len(fs) = 4
          BY DEF IsList
      <4>2. GoodStep(Block(Len(fs), fs))
        <5> HIDE DEF fs
        <5> QED BY <4>1, GoodSteps
      <4> QED BY <4>1, <4>2
    <3> QED BY <3>1, GoodSteps
  <2>2. A.kind = "block" /\ B.kind = "unit"
      BY DEF Block, U
  <2>3. r.encode = <<A, B>> /\ r.decode = <<A, B>>
      BY DEF xdr_Device_RemoteFunc
  <2> HIDE DEF r, A, B
  <2>4. FreesAll(r)
      BY <2>2, <2>3 DEF FreesAll
  <2>5. AllGood(r.decode)
      BY <2>1, <2>3, GoodSequences
  <2> QED BY <2>3, <2>4, <2>5, BlockIsGood DEF r
<1>4. GoodRoutine(xdr_Device_DocmdParms)
  <2> DEFINE r == xdr_Device_DocmdParms
             A == U("lid")
             B == U("flags")
             C == Block(5, <<"io_timeout", "lock_timeout", "cmd", "network_order", "datasize">>)
             D == Opaque("data_in", NoLimit)
  <2>1. GoodStep(A) /\ GoodStep(B) /\ GoodStep(C) /\ GoodStep(D)
    <3>1. GoodStep(C)
      <4> DEFINE fs == <<"io_timeout", "lock_timeout", "cmd", "network_order", "datasize">>
      <4>1. IsList(fs) /\ Len(fs) = 5
          BY DEF IsList
      <4>2. GoodStep(Block(Len(fs), fs))
        <5> HIDE DEF fs
        <5> QED BY <4>1, GoodSteps
      <4> QED BY <4>1, <4>2
    <3> QED BY <3>1, GoodSteps
  <2>2. A.kind = "unit" /\ B.kind = "unit" /\ C.kind = "block"
      BY DEF Block, U
  <2>3. /\ r.encode = <<A, B, C, D>> /\ r.decode = <<A, B, C, D>>
        /\ DOMAIN r.free = 1 .. 8 /\ r.free[8] = D
      BY DEF xdr_Device_DocmdParms
  <2> HIDE DEF r, A, B, C, D
  <2>4. FreesAll(r)
      BY <2>2, <2>3 DEF FreesAll
  <2>5. AllGood(r.decode)
      BY <2>1, <2>3, GoodSequences
  <2> QED BY <2>3, <2>4, <2>5, BlockIsGood DEF r
<1> QED BY <1>1, <1>2, <1>3, <1>4

\* The one routine with a limit below a length's: the handle of an SRQ has 40 bytes.
LEMMA SrqRoutine ==
  /\ IsRoutine(xdr_Device_EnableSrqParms)
  /\ \A v \in Values(xdr_Device_EnableSrqParms) :
       Len(v.handle) <= 40 => Fits(xdr_Device_EnableSrqParms, v)
<1> DEFINE r == xdr_Device_EnableSrqParms
           A == U("lid")
           B == U("enable")
           C == Opaque("handle", 40)
<1>1. IsStep(A) /\ IsStep(B) /\ IsStep(C)
    BY UnitIsStep, OpaqueIsStep
<1>2. r.encode = <<A, B, C>> /\ r.decode = <<A, B, C>> /\ r.free = <<A, B, C>>
    BY DEF xdr_Device_EnableSrqParms, Same
<1>3. /\ A.kind = "unit" /\ B.kind = "unit" /\ C.max = 40
      /\ C.fields[1] = "handle"
    BY DEF U, Opaque
<1> HIDE DEF r, A, B, C
<1>4. AreSteps(r.decode)
    BY <1>1, <1>2 DEF AreSteps, IsList
<1>5. FreesAll(r)
    BY <1>2 DEF FreesAll
<1>6. IsRoutine(r)
    BY <1>2, <1>4, <1>5, FreesIsRoutine
<1>7. ASSUME NEW v, Len(v.handle) <= 40 PROVE Fits(r, v)
    BY <1>2, <1>3, <1>7 DEF Fits
<1> QED BY <1>6, <1>7 DEF r

\* Every row of the dispatch tables.
GoodRow(row) == GoodRoutine(row.arg) /\ GoodRoutine(row.res)

LEMMA CoreRows ==
  ASSUME NEW p \in DOMAIN device_core_1, p # "device_enable_srq"
  PROVE  GoodRow(device_core_1[p])
<1>1. p \in {"create_link", "device_write", "device_read", "device_readstb",
             "device_trigger", "device_clear", "device_remote", "device_local",
             "device_lock", "device_unlock", "device_docmd", "destroy_link",
             "create_intr_chan", "destroy_intr_chan"}
    BY DEF device_core_1
<1> DEFINE R == device_core_1
<1>2. GoodRow(R["create_link"])
    BY SameRoutines, BlockRoutines DEF GoodRow, Row, device_core_1
<1>3. GoodRow(R["device_write"])
    BY SameRoutines, BlockRoutines DEF GoodRow, Row, device_core_1
<1>4. GoodRow(R["device_read"])
    BY SameRoutines, BlockRoutines DEF GoodRow, Row, device_core_1
<1>5. GoodRow(R["device_readstb"])
    BY SameRoutines, BlockRoutines DEF GoodRow, Row, device_core_1
<1>6. GoodRow(R["device_trigger"])
    BY SameRoutines, BlockRoutines DEF GoodRow, Row, device_core_1
<1>7. GoodRow(R["device_clear"])
    BY SameRoutines, BlockRoutines DEF GoodRow, Row, device_core_1
<1>8. GoodRow(R["device_remote"])
    BY SameRoutines, BlockRoutines DEF GoodRow, Row, device_core_1
<1>9. GoodRow(R["device_local"])
    BY SameRoutines, BlockRoutines DEF GoodRow, Row, device_core_1
<1>10. GoodRow(R["device_lock"])
    BY SameRoutines, BlockRoutines DEF GoodRow, Row, device_core_1
<1>11. GoodRow(R["device_unlock"])
    BY SameRoutines, BlockRoutines DEF GoodRow, Row, device_core_1
<1>12. GoodRow(R["device_docmd"])
    BY SameRoutines, BlockRoutines DEF GoodRow, Row, device_core_1
<1>13. GoodRow(R["destroy_link"])
    BY SameRoutines, BlockRoutines DEF GoodRow, Row, device_core_1
<1>14. GoodRow(R["create_intr_chan"])
    BY SameRoutines, BlockRoutines DEF GoodRow, Row, device_core_1
<1>15. GoodRow(R["destroy_intr_chan"])
    BY SameRoutines, BlockRoutines DEF GoodRow, Row, device_core_1
<1> QED BY <1>1, <1>2, <1>3, <1>4, <1>5, <1>6, <1>7, <1>8, <1>9, <1>10, <1>11, <1>12, <1>13, <1>14, <1>15

LEMMA TableRow ==
  ASSUME NEW p \in Known
  PROVE  Table[p] = IF p = "device_abort" THEN device_async_1[p]
                    ELSE IF p = "device_intr_srq" THEN device_intr_1[p]
                    ELSE device_core_1[p]
<1>1. /\ DOMAIN device_async_1 = {"device_abort"} /\ DOMAIN device_intr_1 = {"device_intr_srq"}
      /\ "device_intr_srq" \notin DOMAIN device_core_1
    BY DEF device_async_1, device_intr_1, device_core_1
<1> DEFINE A == device_async_1
           B == device_core_1
           C == device_intr_1
<1>2. p \in DOMAIN A \union (DOMAIN B \union DOMAIN C)
    BY DEF Known, Table, Joined
<1> HIDE DEF A, B, C
<1>3. Joined(B, C) = [f \in DOMAIN B \union DOMAIN C |-> IF f \in DOMAIN B THEN B[f] ELSE C[f]]
    BY DEF Joined
<1>4. Joined(A, Joined(B, C))[p] = IF p \in DOMAIN A THEN A[p] ELSE IF p \in DOMAIN B THEN B[p] ELSE C[p]
    BY <1>2, <1>3 DEF Joined
<1> QED BY <1>1, <1>2, <1>4 DEF Table, A, B, C

LEMMA Rows ==
  ASSUME NEW p \in Known
  PROVE  /\ IsRoutine(Table[p].arg) /\ GoodRoutine(Table[p].res)
         /\ p # "device_enable_srq" => AnyLength(Table[p].arg)
<1>1. CASE p = "device_abort"
  <2>1. Table[p] = Row(xdr_Device_Link, xdr_Device_Error)
      BY <1>1, TableRow DEF device_async_1
  <2> QED BY <2>1, SameRoutines DEF Row, GoodRoutine
<1>2. CASE p = "device_intr_srq"
  <2>1. Table[p] = Row(xdr_Device_SrqParms, xdr_void)
      BY <1>2, TableRow DEF device_intr_1
  <2> QED BY <2>1, SameRoutines DEF Row, GoodRoutine
<1>3. CASE p = "device_enable_srq"
  <2>1. Table[p] = Row(xdr_Device_EnableSrqParms, xdr_Device_Error)
      BY <1>3, TableRow DEF device_core_1
  <2> QED BY <1>3, <2>1, SameRoutines, SrqRoutine DEF Row
<1>4. CASE p \notin {"device_abort", "device_intr_srq", "device_enable_srq"}
  <2>1. p \in DOMAIN device_core_1 /\ Table[p] = device_core_1[p]
    <3>1. p \in DOMAIN device_core_1
        BY <1>4 DEF Known, Table, Joined, device_async_1, device_intr_1
    <3> QED BY <1>4, <3>1, TableRow
  <2> QED BY <1>4, <2>1, CoreRows DEF GoodRow, GoodRoutine
<1> QED BY <1>1, <1>2, <1>3, <1>4

LEMMA ResultRows ==
  /\ Table["create_link"].res = xdr_Create_LinkResp
  /\ Table["device_write"].res = xdr_Device_WriteResp
  /\ Table["device_write"].arg = xdr_Device_WriteParms
  /\ Table["device_read"].res = xdr_Device_ReadResp
  /\ Table["device_enable_srq"].arg = xdr_Device_EnableSrqParms
<1> DEFINE S == {"create_link", "device_write", "device_read", "device_enable_srq"}
<1>1. S \subseteq DOMAIN device_core_1
    BY DEF device_core_1
<1>2. S \subseteq Known
    BY <1>1 DEF Known, Table, Joined
<1>3. \A p \in S : Table[p] = device_core_1[p]
    BY <1>2, TableRow
<1> QED BY <1>3 DEF device_core_1, Row

LEMMA SrqHandle == "handle" \in Fields(xdr_Device_EnableSrqParms)
<1> DEFINE C == Opaque("handle", 40)
<1>1. "handle" \in Range(C.fields)
    BY DEF Opaque, Range
<1>2. C \in Range(xdr_Device_EnableSrqParms.decode)
  <2>1. \A x1, x2, x3 : x3 \in Range(<<x1, x2, x3>>)
      BY DEF Range
  <2>2. xdr_Device_EnableSrqParms.decode = <<U("lid"), U("enable"), C>>
      BY DEF xdr_Device_EnableSrqParms, Same
  <2>3. C \in Range(<<U("lid"), U("enable"), C>>)
      BY <2>1
  <2> QED BY Zenon, <2>2, <2>3
<1> QED BY <1>1, <1>2 DEF Fields

\* What the handlers return.
LEMMA ResultFields ==
  /\ Fields(xdr_Create_LinkResp) = {"error", "lid", "abortPort", "maxRecvSize"}
  /\ Opaques(xdr_Create_LinkResp) = {}
  /\ Fields(xdr_Device_WriteResp) = {"error", "size"} /\ Opaques(xdr_Device_WriteResp) = {}
  /\ Fields(xdr_Device_ReadResp) = {"error", "reason", "data"}
  /\ Opaques(xdr_Device_ReadResp) = {"data"}
  /\ "data" \in Fields(xdr_Device_WriteParms) /\ "data" \in Opaques(xdr_Device_WriteParms)
<1>1. ASSUME NEW f PROVE Range(U(f).fields) = {f} /\ U(f).kind = "unit"
    BY DEF U, Range
<1>2. /\ Range(Opaque("data", NoLimit).fields) = {"data"}
      /\ Opaque("data", NoLimit).kind = "bytes"
    BY DEF Opaque, Range
<1>3. /\ Range(xdr_Create_LinkResp.decode) = {U("error"), U("lid"), U("abortPort"), U("maxRecvSize")}
      /\ Range(xdr_Device_WriteResp.decode) = {U("error"), U("size")}
      /\ Range(xdr_Device_ReadResp.decode) = {U("error"), U("reason"), Opaque("data", NoLimit)}
      /\ Opaque("data", NoLimit) \in Range(xdr_Device_WriteParms.decode)
  <2> DEFINE D == <<U("lid"), U("io_timeout"), U("lock_timeout"), U("flags"), Opaque("data", NoLimit)>>
  <2>1. Range(xdr_Create_LinkResp.decode) = {U("error"), U("lid"), U("abortPort"), U("maxRecvSize")}
      BY DEF Range, xdr_Create_LinkResp, Same
  <2>2. Range(xdr_Device_WriteResp.decode) = {U("error"), U("size")}
      BY DEF Range, xdr_Device_WriteResp, Same
  <2>3. Range(xdr_Device_ReadResp.decode) = {U("error"), U("reason"), Opaque("data", NoLimit)}
      BY DEF Range, xdr_Device_ReadResp, Same
  <2>4. Opaque("data", NoLimit) \in Range(xdr_Device_WriteParms.decode)
    <3>1. \A x1, x2, x3, x4, x5 : x5 \in Range(<<x1, x2, x3, x4, x5>>)
        BY DEF Range
    <3>2. xdr_Device_WriteParms.decode = D
        BY DEF xdr_Device_WriteParms, Same
    <3>3. Opaque("data", NoLimit) \in Range(D)
        BY <3>1
    <3> QED BY Zenon, <3>2, <3>3
  <2> QED BY <2>1, <2>2, <2>3, <2>4
<1>4. ASSUME NEW r, NEW a, NEW b, NEW c, NEW d, Range(r.decode) = {a, b, c, d}
      PROVE  /\ Fields(r) = Range(a.fields) \union Range(b.fields)
                               \union Range(c.fields) \union Range(d.fields)
             /\ (\A x \in {a, b, c, d} : x.kind # "bytes") => Opaques(r) = {}
             /\ (\A x \in {a, b} : x.kind # "bytes") /\ c = d /\ d.kind = "bytes"
                  => Opaques(r) = Range(d.fields)
  <2>1. Fields(r) = UNION {Range(x.fields) : x \in {a, b, c, d}}
      BY Zenon, <1>4 DEF Fields
  <2>2. Opaques(r) = UNION {Range(x.fields) : x \in {y \in {a, b, c, d} : y.kind = "bytes"}}
      BY Zenon, <1>4 DEF Opaques
  <2> QED BY <2>1, <2>2
<1>5. /\ Fields(xdr_Create_LinkResp) = {"error", "lid", "abortPort", "maxRecvSize"}
      /\ Opaques(xdr_Create_LinkResp) = {}
  <2> DEFINE a == U("error")
             b == U("lid")
             c == U("abortPort")
             d == U("maxRecvSize")
  <2>1. /\ Range(a.fields) = {"error"} /\ Range(b.fields) = {"lid"}
        /\ Range(c.fields) = {"abortPort"} /\ Range(d.fields) = {"maxRecvSize"}
        /\ \A x \in {a, b, c, d} : x.kind # "bytes"
      BY <1>1
  <2>2. Range(xdr_Create_LinkResp.decode) = {a, b, c, d}
      BY <1>3
  <2> HIDE DEF a, b, c, d
  <2> QED BY <1>4, <2>1, <2>2
<1>6. Fields(xdr_Device_WriteResp) = {"error", "size"} /\ Opaques(xdr_Device_WriteResp) = {}
  <2> DEFINE a == U("error")
             b == U("size")
  <2>1. /\ Range(a.fields) = {"error"} /\ Range(b.fields) = {"size"}
        /\ \A x \in {a, b} : x.kind # "bytes"
      BY <1>1
  <2>2. Range(xdr_Device_WriteResp.decode) = {a, b, b, b}
      BY <1>3
  <2> HIDE DEF a, b
  <2> QED BY <1>4, <2>1, <2>2
<1>7. /\ Fields(xdr_Device_ReadResp) = {"error", "reason", "data"}
      /\ Opaques(xdr_Device_ReadResp) = {"data"}
  <2> DEFINE a == U("error")
             b == U("reason")
             d == Opaque("data", NoLimit)
  <2>1. /\ Range(a.fields) = {"error"} /\ Range(b.fields) = {"reason"}
        /\ Range(d.fields) = {"data"} /\ d.kind = "bytes" /\ \A x \in {a, b} : x.kind # "bytes"
      BY <1>1, <1>2
  <2>2. Range(xdr_Device_ReadResp.decode) = {a, b, d, d}
      BY <1>3
  <2> HIDE DEF a, b, d
  <2> QED BY <1>4, <2>1, <2>2
<1>8. "data" \in Fields(xdr_Device_WriteParms) /\ "data" \in Opaques(xdr_Device_WriteParms)
    BY <1>2, <1>3 DEF Fields, Opaques
<1> QED BY <1>5, <1>6, <1>7, <1>8

-----------------------------------------------------------------------------
(* The invariant.                                                              *)

Procs == {m.proc : m \in Asked}
Opened == {[proc |-> m.proc, args |-> m.args, cut |-> c] : m \in Asked, c \in Cut}

\* The call's bytes, all but those that are cut off.
Carries(w, c) ==
  /\ w.proc = c.proc
  /\ c.proc \in Known =>
       \E way \in Way : LET whole == Encode(Table[c.proc].arg, c.args, way)
                        IN /\ c.cut <= Len(whole)
                           /\ w.units = SubSeq(whole, 1, Len(whole) - c.cut)

Answers(a, c) ==
  /\ a.status = "noproc" => c.proc \notin Known
  /\ a.status = "decode" =>
       c.cut > 0 \/ (c.proc = "device_enable_srq" /\ Len(c.args.handle) > 40)
  /\ (a.status = "ok" /\ a.proc \in Known) =>
       /\ a.proc = c.proc /\ returned \in Values(Table[c.proc].res)
       /\ \E way \in Way : a.body = Encode(Table[c.proc].res, returned, way)

\* There is one call at a time: on its way, with the server, or answered.
CallInv ==
  /\ call # None => call \in Opened
  /\ wire # None => call # None /\ reply = None /\ Carries(wire, call)
  /\ reply # None => call # None /\ wire = None /\ Answers(reply, call)

ResultInv ==
  DOMAIN result = Known /\ \A p \in Known : result[p] \in Values(Table[p].res)

\* The call that the server works on is the open one until it is answered.
StageInv ==
  \/ /\ stage = "idle"
     /\ memory # {} => reply = None \/ reply.status = "decode"
     /\ call # None => wire # None \/ reply # None
  \/ /\ stage = "getargs" /\ wire # None /\ proc = wire.proc /\ proc \in Known
  \/ /\ stage \in {"handle", "reply"} /\ call # None /\ wire = None /\ reply = None
     /\ proc = call.proc /\ proc \in Known /\ memory \subseteq Opaques(Table[proc].arg)
     /\ stage = "handle" => args = call.args
     /\ stage = "reply" => returned = result[proc]
  \/ /\ stage = "freeargs" /\ proc \in Known /\ memory \subseteq Opaques(Table[proc].arg)
     /\ call # None => wire # None \/ reply # None

IInv == CallInv /\ ResultInv /\ StageInv

LEMMA OpenedCall ==
  ASSUME NEW c \in Opened
  PROVE  /\ c.proc \in Procs /\ c.cut \in Nat /\ c # None
         /\ c.proc \in Known => c.args \in Values(Table[c.proc].arg)
<1>1. PICK m \in Asked, k \in Cut : c = [proc |-> m.proc, args |-> m.args, cut |-> k]
    BY DEF Opened
<1>2. c \in [proc : Procs, args : {x.args : x \in Asked}, cut : Cut]
    BY <1>1 DEF Procs
<1>3. c # None
    BY <1>2, Vxi11ServerAssumption DEF Procs
<1>4. c.proc = m.proc /\ c.args = m.args /\ c.cut = k
    BY <1>1
<1>5. k \in Nat /\ (m.proc \in Known => m.args \in Values(Table[m.proc].arg))
    BY Vxi11ServerAssumption
<1> QED BY <1>3, <1>4, <1>5 DEF Procs

LEMMA SomeReply ==
  ASSUME NEW st \in {"ok", "noproc", "decode", "systemerr"}, NEW p \in Procs,
         NEW body \in Seq(Seq(Nat))
  PROVE  [status |-> st, proc |-> p, body |-> body] # None
<1>1. [status |-> st, proc |-> p, body |-> body]
        \in [status : {"ok", "noproc", "decode", "systemerr"}, proc : Procs, body : Seq(Seq(Nat))]
    OBVIOUS
<1> QED BY <1>1, Vxi11ServerAssumption DEF Procs

LEMMA SomeRefusal ==
  ASSUME NEW st \in {"ok", "noproc", "decode", "systemerr"}, NEW p \in Procs
  PROVE  [status |-> st, proc |-> p, body |-> <<>>] # None
<1> DEFINE body == <<>>
<1>1. body \in Seq(Seq(Nat))
    OBVIOUS
<1> HIDE DEF body
<1>2. [status |-> st, proc |-> p, body |-> body] # None
    BY <1>1, SomeReply
<1> QED BY Zenon, <1>2 DEF body

LEMMA SomeResult ==
  ASSUME NEW p \in Known, NEW v \in Values(Table[p].res)
  PROVE  v # None
BY Vxi11ServerAssumption

\* What the server makes of the call's bytes.
DecodesRight(s, c) ==
  /\ s.ok \in BOOLEAN /\ s.memory \subseteq Opaques(Table[c.proc].arg)
  /\ s.ok = TRUE => s.value = c.args
  /\ s.ok = FALSE => c.cut > 0 \/ (c.proc = "device_enable_srq" /\ Len(c.args.handle) > 40)

LEMMA CallDecodes ==
  ASSUME NEW c \in Opened, c.proc \in Known, NEW w, Carries(w, c), NEW b
  PROVE  DecodesRight(Decode(Table[c.proc].arg, w.units, b), c)
<1> DEFINE r == Table[c.proc].arg
           v == c.args
           s == Decode(r, w.units, b)
<1>1. v \in Values(r) /\ c.cut \in Nat
    BY OpenedCall
<1>2. IsRoutine(r) /\ (c.proc # "device_enable_srq" => AnyLength(r))
    BY Rows
<1>3. PICK a \in Way : /\ c.cut <= Len(Encode(r, v, a))
                       /\ w.units = SubSeq(Encode(r, v, a), 1, Len(Encode(r, v, a)) - c.cut)
    BY DEF Carries
<1> HIDE DEF r, v
<1>4. /\ s.ok \in BOOLEAN /\ s.memory \subseteq Opaques(r)
      /\ s.ok = TRUE => s.value = v
      /\ (c.cut = 0 /\ Fits(r, v)) => s.ok = TRUE
  <2>1. s = Decode(r, SubSeq(Encode(r, v, a), 1, Len(Encode(r, v, a)) - c.cut), b)
      BY <1>3
  <2> HIDE DEF s
  <2>2. TripRight(s, r, v, c.cut, Len(Encode(r, v, a)))
      BY Zenon, <1>1, <1>2, <1>3, <2>1, RoundTrip
  <2> QED BY <2>2 DEF TripRight
<1>5. c.proc # "device_enable_srq" => Fits(r, v)
    BY <1>1, <1>2, AnyLengthFits
<1>6. (c.proc = "device_enable_srq" /\ Len(v.handle) <= 40) => Fits(r, v)
    BY <1>1, ResultRows, SrqRoutine DEF r
<1>7. c.proc = "device_enable_srq" => Len(v.handle) \in Nat
  <2> SUFFICES ASSUME c.proc = "device_enable_srq" PROVE Len(v.handle) \in Nat
      OBVIOUS
  <2>1. "handle" \in Fields(xdr_Device_EnableSrqParms)
      BY SrqHandle
  <2>2. v \in [Fields(xdr_Device_EnableSrqParms) -> Seq(Nat)]
      BY <1>1, ResultRows DEF r, Values
  <2> QED BY <2>1, <2>2
<1> HIDE DEF s
<1>8. s.ok = FALSE => c.cut > 0 \/ (c.proc = "device_enable_srq" /\ Len(v.handle) > 40)
    BY <1>1, <1>4, <1>5, <1>6, <1>7
<1> QED BY <1>4, <1>8 DEF DecodesRight, r, v, s

GivesBack(s, v, n) == s.ok = TRUE /\ s.value = v /\ s.at = n

LEMMA ResultDecodes ==
  ASSUME NEW p \in Known, NEW v \in Values(Table[p].res), NEW a, NEW b
  PROVE  GivesBack(Decode(Table[p].res, Encode(Table[p].res, v, a), b), v,
                   Len(Encode(Table[p].res, v, a)))
<1> DEFINE r == Table[p].res
           M == Encode(r, v, a)
<1>1. IsRoutine(r) /\ AnyLength(r)
    BY Rows DEF GoodRoutine
<1>2. Fits(r, v)
    BY <1>1, AnyLengthFits
<1>3. M \in Seq(Seq(Nat)) /\ Len(M) \in Nat
    BY <1>1, EncodeType
<1>4. SubSeq(M, 1, Len(M) - 0) = M
  <2> HIDE DEF M
  <2>1. Len(M) - 0 = Len(M)
      BY <1>3
  <2> DEFINE w == SubSeq(M, 1, Len(M))
  <2>2. w \in Seq(Seq(Nat)) /\ Len(w) = Len(M) /\ \A i \in 1 .. Len(M) : w[i] = M[i]
      BY <1>3
  <2> HIDE DEF w
  <2>3. w = M
      BY <1>3, <2>2, SeqEqual
  <2> QED BY Zenon, <2>1, <2>3 DEF w
<1>5. 0 \in Nat /\ 0 <= Len(M)
  <2> HIDE DEF M
  <2> QED BY <1>3
<1>6. TripRight(Decode(r, M, b), r, v, 0, Len(M))
    BY Zenon, <1>1, <1>4, <1>5, RoundTrip
<1> QED BY <1>2, <1>6 DEF TripRight, GivesBack

LEMMA ZeroIsValue ==
  ASSUME NEW r
  PROVE  Zero(r) \in Values(r)
<1>1. Bytes(0) \in Seq(Nat) /\ <<>> \in Seq(Nat) /\ Len(<<>>) <= NoLimit
    BY LimitIsNat DEF Bytes
<1> DEFINE z == Bytes(0)
           e == <<>>
<1> HIDE DEF z, e
<1>2. Opaques(r) \subseteq Fields(r)
    BY DEF Opaques, Fields
<1> QED BY <1>1, <1>2 DEF Zero, Values, z, e

LEMMA InitInv == Init => IInv
<1> SUFFICES ASSUME Init PROVE IInv
    OBVIOUS
<1>1. ResultInv
    BY ZeroIsValue DEF Init, ResultInv
<1>2. CallInv /\ StageInv
    BY DEF Init, CallInv, StageInv
<1> QED BY <1>1, <1>2 DEF IInv

-----------------------------------------------------------------------------
(* The steps.                                                                  *)

LEMMA CallsInv ==
  ASSUME IInv, NEW m \in Asked, NEW cut \in Cut, NEW way \in Way, Calls(m, cut, way)
  PROVE  IInv'
<1> DEFINE whole == IF m.proc \in Known THEN Encode(Table[m.proc].arg, m.args, way) ELSE <<>>
           c == [proc |-> m.proc, args |-> m.args, cut |-> cut]
           w == [proc |-> m.proc, units |-> SubSeq(whole, 1, Len(whole) - cut)]
<1>1. call = None /\ wire = None /\ call' = c /\ wire' = w /\ cut <= Len(whole)
    BY DEF Calls
<1>2. UNCHANGED <<stage, proc, args, memory, result, returned, reply>>
    BY DEF Calls
<1>3. c \in Opened /\ c.proc = m.proc /\ c.args = m.args /\ c.cut = cut
    BY DEF Opened
<1>4. c # None /\ cut \in Nat /\ m.proc \in Procs
    BY <1>3, OpenedCall
<1>5. Carries(w, c)
    BY <1>1, <1>3 DEF Carries
<1>6. w # None
  <2>1. whole \in Seq(Seq(Nat))
    <3>1. CASE m.proc \in Known
      <4>1. m.args \in Values(Table[m.proc].arg) /\ IsRoutine(Table[m.proc].arg)
          BY <1>3, <3>1, OpenedCall, Rows
      <4> QED BY <3>1, <4>1, EncodeType
    <3>2. CASE m.proc \notin Known
        BY <3>2
    <3> QED BY <3>1, <3>2
  <2> DEFINE u == SubSeq(whole, 1, Len(whole) - cut)
  <2> HIDE DEF whole
  <2>2. u \in Seq(Seq(Nat))
      BY <1>1, <1>4, <2>1
  <2> HIDE DEF u
  <2>3. [proc |-> m.proc, units |-> u] \in [proc : Procs, units : Seq(Seq(Nat))]
      BY <1>4, <2>2
  <2> QED BY <2>3, Vxi11ServerAssumption DEF Procs, u
<1> HIDE DEF c, w, whole
<1>7. reply = None
    BY <1>1 DEF IInv, CallInv
<1>8. CallInv'
    BY <1>1, <1>2, <1>3, <1>4, <1>5, <1>6, <1>7 DEF CallInv, Carries
<1>9. ResultInv'
    BY <1>2 DEF IInv, ResultInv
<1>10. StageInv'
    BY <1>1, <1>2, <1>6, <1>7 DEF IInv, StageInv
<1> QED BY <1>8, <1>9, <1>10 DEF IInv

LEMMA TakesReplyInv ==
  ASSUME IInv, TakesReply
  PROVE  IInv'
<1>1. /\ reply # None /\ reply' = None /\ call' = None
      /\ UNCHANGED <<wire, stage, proc, args, memory, result>>
    BY DEF TakesReply
<1>2. wire = None
    BY <1>1 DEF IInv, CallInv
<1>3. CallInv'
    BY <1>1, <1>2 DEF CallInv
<1>4. ResultInv'
    BY <1>1 DEF IInv, ResultInv
<1>5. StageInv'
    BY <1>1, <1>2 DEF IInv, StageInv
<1> QED BY <1>3, <1>4, <1>5 DEF IInv

LEMMA DispatchInv ==
  ASSUME IInv, Dispatch
  PROVE  IInv'
<1>1. stage = "idle" /\ wire # None /\ memory' = {} /\ UNCHANGED <<call, args, result, returned>>
    BY DEF Dispatch
<1>2. call # None /\ call \in Opened /\ reply = None /\ wire.proc = call.proc /\ Carries(wire, call)
    BY <1>1 DEF IInv, CallInv, Carries
<1>3. ResultInv'
    BY <1>1 DEF IInv, ResultInv
<1>4. CASE wire.proc \in Known /\ stage' = "getargs" /\ proc' = wire.proc /\ UNCHANGED <<wire, reply>>
  <2>1. CallInv'
      BY <1>1, <1>2, <1>4 DEF CallInv, Carries
  <2>2. StageInv'
      BY <1>1, <1>4 DEF StageInv
  <2> QED BY <1>3, <2>1, <2>2 DEF IInv
<1>5. CASE /\ wire.proc \notin Known /\ wire' = None
           /\ Replies(IF wire.proc = "NULLPROC" THEN "ok" ELSE "noproc", wire.proc, <<>>)
           /\ UNCHANGED <<stage, proc>>
  <2> DEFINE st == IF wire.proc = "NULLPROC" THEN "ok" ELSE "noproc"
             a == [status |-> st, proc |-> wire.proc, body |-> <<>>]
  <2>1. reply' = a /\ st \in {"ok", "noproc"}
      BY <1>5 DEF Replies
  <2>2. a # None
    <3>1. st \in {"ok", "noproc", "decode", "systemerr"}
        BY <2>1
    <3>2. wire.proc \in Procs
        BY <1>2, OpenedCall
    <3> HIDE DEF st
    <3> QED BY <3>1, <3>2, SomeRefusal
  <2>3. Answers(reply, call)'
    <3>1. reply'.status = st /\ reply'.proc = wire.proc
        BY <2>1
    <3>2. reply'.status # "decode" /\ reply'.proc \notin Known /\ call'.proc \notin Known
      <4> HIDE DEF st
      <4> QED BY <1>1, <1>2, <1>5, <2>1, <3>1
    <3> HIDE DEF st
    <3> QED BY <3>2 DEF Answers
  <2> HIDE DEF a, st
  <2>4. CallInv'
      BY <1>1, <1>2, <1>5, <2>1, <2>2, <2>3 DEF CallInv
  <2>5. StageInv'
      BY <1>1, <1>5, <2>1, <2>2 DEF StageInv
  <2> QED BY <1>3, <2>4, <2>5 DEF IInv
<1> QED BY <1>4, <1>5 DEF Dispatch

LEMMA GetArgsInv ==
  ASSUME IInv, NEW way \in Way, GetArgs(way)
  PROVE  IInv'
<1> DEFINE s == Decode(Table[proc].arg, wire.units, way)
<1>1. /\ stage = "getargs" /\ wire' = None /\ memory' = s.memory
      /\ UNCHANGED <<call, result, returned>>
    BY DEF GetArgs
<1>2. /\ wire # None /\ proc \in Known /\ proc = wire.proc /\ wire.proc = call.proc
      /\ call # None /\ call \in Opened /\ reply = None /\ Carries(wire, call)
    BY <1>1 DEF IInv, CallInv, StageInv, Carries
<1>3. DecodesRight(s, call)
    BY <1>2, CallDecodes
<1>4. \/ s.ok /\ stage' = "handle" /\ args' = s.value /\ UNCHANGED <<proc, reply>>
      \/ ~s.ok /\ stage' = "idle" /\ Replies("decode", proc, <<>>)
    BY DEF GetArgs
<1> HIDE DEF s
<1>5. /\ s.ok \in BOOLEAN /\ s.memory \subseteq Opaques(Table[proc].arg)
      /\ s.ok = TRUE => s.value = call.args
      /\ s.ok = FALSE =>
           call.cut > 0 \/ (call.proc = "device_enable_srq" /\ Len(call.args.handle) > 40)
    BY <1>2, <1>3 DEF DecodesRight
<1>6. ResultInv'
    BY <1>1 DEF IInv, ResultInv
<1>7. CASE s.ok = TRUE
  <2>1. stage' = "handle" /\ args' = call.args /\ UNCHANGED <<proc, reply>>
      BY <1>4, <1>5, <1>7
  <2>2. CallInv'
      BY <1>1, <1>2, <2>1 DEF CallInv
  <2>3. StageInv'
      BY <1>1, <1>2, <1>5, <2>1 DEF StageInv
  <2> QED BY <1>6, <2>2, <2>3 DEF IInv
<1>8. CASE s.ok = FALSE
  <2> DEFINE a == [status |-> "decode", proc |-> proc, body |-> <<>>]
  <2>1. stage' = "idle" /\ reply' = a
      BY <1>4, <1>8 DEF Replies
  <2>2. a # None
    <3>1. proc \in Procs
        BY <1>2, OpenedCall
    <3> QED BY <3>1, SomeRefusal
  <2>3. Answers(reply, call)'
    <3>1. reply'.status = "decode"
        BY <2>1
    <3>2. call'.cut > 0 \/ (call'.proc = "device_enable_srq" /\ Len(call'.args.handle) > 40)
        BY <1>1, <1>5, <1>8
    <3> QED BY <3>1, <3>2 DEF Answers
  <2>4. a.status = "decode"
      OBVIOUS
  <2> HIDE DEF a
  <2>5. CallInv'
      BY <1>1, <1>2, <2>1, <2>2, <2>3 DEF CallInv
  <2>6. StageInv'
      BY <2>1, <2>2, <2>4 DEF StageInv
  <2> QED BY <1>6, <2>5, <2>6 DEF IInv
<1> QED BY <1>5, <1>7, <1>8

\* What a handler returns fits its result's routine.
LEMMA ResultIsValue ==
  ASSUME proc \in Known, args \in Values(Table[proc].arg), ResultInv
  PROVE  Result \in Values(Table[proc].res)
<1>1. CASE proc = "create_link"
  <2> DEFINE F == Fields(xdr_Create_LinkResp)
  <2>1. create_link_1_svc \in [F -> Seq(Nat)]
    <3> DEFINE R(e, l, p, m) == [error |-> e, lid |-> l, abortPort |-> p, maxRecvSize |-> m]
    <3>1. \A e, l, p, m \in Seq(Nat) :
            R(e, l, p, m) \in [{"error", "lid", "abortPort", "maxRecvSize"} -> Seq(Nat)]
        OBVIOUS
    <3>2. Lid \in Seq(Nat) /\ \A n \in Nat : Bytes(n) \in Seq(Nat)
        BY DEF Lid, Bytes
    <3>3. create_link_1_svc = R(Bytes(0), Lid, Bytes(666), Bytes(1024))
            \/ create_link_1_svc = R(Bytes(3), Bytes(0), Bytes(666), Bytes(1024))
        BY DEF create_link_1_svc
    <3> HIDE DEF R, F
    <3>4. R(Bytes(0), Lid, Bytes(666), Bytes(1024)) \in [F -> Seq(Nat)]
        BY <3>1, <3>2, ResultFields DEF F
    <3>5. R(Bytes(3), Bytes(0), Bytes(666), Bytes(1024)) \in [F -> Seq(Nat)]
        BY <3>1, <3>2, ResultFields DEF F
    <3> QED BY <3>3, <3>4, <3>5
  <2>2. create_link_1_svc \in Values(xdr_Create_LinkResp)
      BY <2>1, ResultFields DEF Values
  <2> QED BY <1>1, <2>2, ResultRows DEF Result
<1>2. CASE proc = "device_write"
  <2>1. args.data \in Seq(Nat)
      BY <1>2, ResultFields, ResultRows DEF Values
  <2>2. Len(args.data) \in Nat
      BY <2>1
  <2>3. device_write_1_svc \in [Fields(xdr_Device_WriteResp) -> Seq(Nat)]
    <3> DEFINE R(e, n) == [error |-> e, size |-> n]
    <3>1. \A e, n \in Seq(Nat) : R(e, n) \in [{"error", "size"} -> Seq(Nat)]
        OBVIOUS
    <3>2. \A n \in Nat : Bytes(n) \in Seq(Nat)
        BY DEF Bytes
    <3> DEFINE st == IF args.lid = Lid THEN 0 ELSE 4
    <3>3. st \in Nat /\ device_write_1_svc = R(Bytes(st), Bytes(Len(args.data)))
        BY DEF device_write_1_svc
    <3> HIDE DEF R, st
    <3> QED BY <2>2, <3>1, <3>2, <3>3, ResultFields
  <2>4. device_write_1_svc \in Values(xdr_Device_WriteResp)
      BY <2>3, ResultFields DEF Values
  <2> QED BY <1>2, <2>4, ResultRows DEF Result
<1>3. CASE proc = "device_read"
  <2> DEFINE v == [error |-> Bytes(0), reason |-> Bytes(4), data |-> device_info]
  <2>1. device_info \in Seq(Nat) /\ Len(device_info) = 2 /\ Bytes(0) \in Seq(Nat) /\ Bytes(4) \in Seq(Nat)
      BY DEF device_info, Bytes
  <2>2. v \in [{"error", "reason", "data"} -> Seq(Nat)] /\ v.data = device_info
      BY <2>1
  <2>3. v \in Values(xdr_Device_ReadResp)
    <3> HIDE DEF v
    <3> QED BY <2>1, <2>2, ResultFields, LimitIsNat DEF Values
  <2>4. result.device_read \in Values(xdr_Device_ReadResp)
      BY <1>3, ResultRows DEF ResultInv
  <2>5. device_read_1_svc \in Values(xdr_Device_ReadResp)
      BY <2>3, <2>4 DEF device_read_1_svc
  <2> QED BY <1>3, <2>5, ResultRows DEF Result
<1>4. CASE proc \notin {"create_link", "device_write", "device_read"}
  <2>1. Result = result[proc]
      BY <1>4 DEF Result
  <2> QED BY <2>1 DEF ResultInv
<1> QED BY <1>1, <1>2, <1>3, <1>4

LEMMA HandleInv ==
  ASSUME IInv, Handle
  PROVE  IInv'
<1>1. /\ stage = "handle" /\ stage' = "reply" /\ result' = [result EXCEPT ![proc] = Result]
      /\ returned' = Result /\ UNCHANGED <<call, wire, proc, args, memory, reply>>
    BY DEF Handle
<1>2. /\ call # None /\ call \in Opened /\ wire = None /\ reply = None /\ proc = call.proc
      /\ proc \in Known /\ memory \subseteq Opaques(Table[proc].arg) /\ args = call.args
    BY <1>1 DEF IInv, CallInv, StageInv
<1>3. Result \in Values(Table[proc].res)
    BY <1>2, OpenedCall, ResultIsValue DEF IInv
<1>4. DOMAIN result = Known
    BY DEF IInv, ResultInv
<1>5. CallInv'
    BY <1>1, <1>2 DEF CallInv
<1>6. ResultInv'
    BY <1>1, <1>2, <1>3, <1>4 DEF IInv, ResultInv
<1>7. StageInv'
    BY <1>1, <1>2, <1>4 DEF StageInv
<1> QED BY <1>5, <1>6, <1>7 DEF IInv

LEMMA SendReplyInv ==
  ASSUME IInv, NEW way \in Way, SendReply(way)
  PROVE  IInv'
<1>1. /\ stage = "reply" /\ stage' = "freeargs"
      /\ UNCHANGED <<call, wire, proc, args, memory, result, returned>>
    BY DEF SendReply
<1>2. /\ call # None /\ call \in Opened /\ wire = None /\ reply = None /\ proc = call.proc
      /\ proc \in Known /\ memory \subseteq Opaques(Table[proc].arg) /\ returned = result[proc]
    BY <1>1 DEF IInv, CallInv, StageInv
<1>3. returned \in Values(Table[proc].res) /\ returned # None
    BY <1>2, SomeResult DEF IInv, ResultInv
<1> DEFINE body == Encode(Table[proc].res, returned, way)
<1>4. body \in Seq(Seq(Nat))
    BY <1>2, <1>3, Rows, EncodeType DEF GoodRoutine
<1>5. Replies("ok", proc, body) \/ Replies("systemerr", proc, <<>>)
    BY <1>3 DEF SendReply
<1>6. call' # None => reply' # None
  <2>1. proc \in Procs
      BY <1>2, OpenedCall
  <2> HIDE DEF body
  <2>2. [status |-> "ok", proc |-> proc, body |-> body] # None
      BY <1>4, <2>1, SomeReply
  <2>3. [status |-> "systemerr", proc |-> proc, body |-> <<>>] # None
      BY <2>1, SomeRefusal
  <2> QED BY <1>5, <2>2, <2>3 DEF Replies
<1>7. Answers(reply, call)'
  <2>1. CASE Replies("ok", proc, body)
    <3>1. reply'.status = "ok" /\ reply'.proc = proc /\ reply'.body = body
      <4> HIDE DEF body
      <4> QED BY <2>1 DEF Replies
    <3> QED BY <1>1, <1>2, <1>3, <3>1 DEF Answers
  <2>2. CASE Replies("systemerr", proc, <<>>)
    <3>1. reply'.status = "systemerr"
        BY <2>2 DEF Replies
    <3> QED BY <3>1 DEF Answers
  <2> QED BY <1>5, <2>1, <2>2
<1>8. CallInv'
    BY <1>1, <1>2, <1>7 DEF CallInv
<1>9. ResultInv'
    BY <1>1 DEF IInv, ResultInv
<1>10. StageInv'
    BY <1>1, <1>2, <1>6 DEF StageInv
<1> QED BY <1>8, <1>9, <1>10 DEF IInv

LEMMA FreeArgsInv ==
  ASSUME IInv, FreeArgs
  PROVE  IInv'
<1>1. /\ stage = "freeargs" /\ stage' = "idle" /\ memory' = memory \ Frees(Table[proc].arg)
      /\ UNCHANGED <<call, wire, result, returned, reply>>
    BY DEF FreeArgs
<1>2. /\ proc \in Known /\ memory \subseteq Opaques(Table[proc].arg)
      /\ call # None => wire # None \/ reply # None
    BY <1>1 DEF IInv, StageInv
<1>3. memory' = {}
    BY <1>1, <1>2, Rows DEF IsRoutine
<1>4. CallInv'
    BY <1>1 DEF IInv, CallInv, Answers, Carries
<1>5. ResultInv'
    BY <1>1 DEF IInv, ResultInv
<1>6. StageInv'
    BY <1>1, <1>2, <1>3 DEF StageInv
<1> QED BY <1>4, <1>5, <1>6 DEF IInv

LEMMA NextInv == IInv /\ [Next]_vars => IInv'
<1> SUFFICES ASSUME IInv, [Next]_vars PROVE IInv'
    OBVIOUS
<1>1. CASE \E m \in Asked, cut \in Cut, way \in Way : Calls(m, cut, way)
    BY <1>1, CallsInv
<1>2. CASE TakesReply
    BY <1>2, TakesReplyInv
<1>3. CASE svc_run
    BY <1>3, DispatchInv, GetArgsInv, HandleInv, SendReplyInv, FreeArgsInv DEF svc_run
<1>4. CASE UNCHANGED vars
    BY <1>4 DEF vars, IInv, CallInv, ResultInv, StageInv, Answers, Carries
<1> QED BY <1>1, <1>2, <1>3, <1>4 DEF Next

-----------------------------------------------------------------------------
(* The theorems of the specification.                                          *)

\* The inductive invariant: one call at a time goes through svc_run's stages (CallInv,
\* StageInv) and every static result can be encoded (ResultInv).
THEOREM Invariance == Spec => []IInv
<1> QED BY InitInv, NextInv, PTL DEF Spec

\* A handler is called with what the client has sent, for any calls and however each
\* side codes its blocks.
THEOREM HandlerIsRight == Spec => []HandlerGetsWhatWasSent
<1>1. IInv => HandlerGetsWhatWasSent
    BY DEF IInv, StageInv, HandlerGetsWhatWasSent
<1> QED BY <1>1, Invariance, PTL

\* The client decodes from the answer what the handler has returned, and is only refused
\* what it has asked for wrongly.
THEOREM ClientIsRight == Spec => []ClientGetsResult
<1>1. IInv => ClientGetsResult
  <2> SUFFICES ASSUME IInv, reply # None PROVE ClientGetsResult
      BY DEF ClientGetsResult
  <2>1. Answers(reply, call)
      BY DEF IInv, CallInv
  <2>2. CASE reply.status = "noproc"
      BY <2>1, <2>2 DEF Answers, ClientGetsResult
  <2>3. CASE reply.status = "decode"
      BY <2>1, <2>3 DEF Answers, ClientGetsResult
  <2>4. CASE reply.status = "ok" /\ reply.proc \in Known
    <3>1. call.proc \in Known /\ returned \in Values(Table[call.proc].res)
        BY <2>1, <2>4 DEF Answers
    <3>2. PICK a \in Way : reply.body = Encode(Table[call.proc].res, returned, a)
        BY <2>1, <2>4 DEF Answers
    <3>3. ASSUME NEW way \in Way
          PROVE  GivesBack(Decode(Table[call.proc].res, reply.body, way), returned, Len(reply.body))
        BY Zenon, <3>1, <3>2, ResultDecodes
    <3> QED BY <2>4, <3>3 DEF ClientGetsResult, GivesBack
  <2>5. CASE ~(reply.status \in {"noproc", "decode"}) /\ ~(reply.status = "ok" /\ reply.proc \in Known)
      BY <2>5 DEF ClientGetsResult
  <2> QED BY <2>2, <2>3, <2>4, <2>5
<1> QED BY <1>1, Invariance, PTL

\* FreeArgs gives back all that GetArgs has allocated for a call it could decode.
THEOREM FreesArguments == Spec => []ArgumentsAreFreed
<1>1. IInv => ArgumentsAreFreed
    BY DEF IInv, StageInv, ArgumentsAreFreed
<1> QED BY <1>1, Invariance, PTL

\* The server never waits for a next call with the last one unanswered.
THEOREM AnswersCalls == Spec => []CallsAreAnswered
<1>1. IInv => CallsAreAnswered
    BY DEF IInv, StageInv, CallsAreAnswered
<1> QED BY <1>1, Invariance, PTL
=============================================================================
