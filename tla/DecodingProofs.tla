----------------------------- MODULE DecodingProofs -----------------------------
(***************************************************************************)
(* What a process decodes, for every batch, stream and vocabulary: a batch *)
(* decoded on the calling thread returns with everything emitted, the text *)
(* of a stream is the decoding of its bytes, and the paged decode kernel's *)
(* output is the reference's. Induction is over sets, and the recursive    *)
(* functions of the modules and of the library are shown to exist by       *)
(* extending them.                                                         *)
(***************************************************************************)
EXTENDS DirectGeneration, PagedDecode,
        FiniteSetTheorems, SequenceTheorems, WellFoundedInduction, TLAPS

-------------------------------------------------------------------------------
(* Induction, the property being a set.                                    *)
LEMMA Induction ==
  ASSUME NEW S, 0 \in S, \A n \in Nat : n \in S => n + 1 \in S
  PROVE  \A n \in Nat : n \in S
<1> DEFINE R == {ss \in Nat \X Nat : ss[1] < ss[2]}
<1>1. IsWellFoundedOn(R, Nat)
  BY NatLessThanWellFounded DEF OpToRel
<1>2. SUFFICES ASSUME NEW T, T \subseteq Nat, T # {}, T = Nat \ S PROVE FALSE
  OBVIOUS
<1>3. PICK n \in T : \A m \in T : <<m, n>> \notin R
  <2> HIDE DEF R
  <2> QED BY <1>1, <1>2, WFMin
<1>4. n \in Nat /\ n # 0 /\ n - 1 \in Nat /\ (n - 1) + 1 = n
  BY <1>2, <1>3
<1>5. <<n - 1, n>> \in Nat \X Nat /\ <<n - 1, n>>[1] = n - 1 /\ <<n - 1, n>>[2] = n
  BY <1>4
<1>6. <<n - 1, n>> \in R
  BY <1>4, <1>5
<1>7. n - 1 \in S
  BY <1>2, <1>3, <1>4, <1>6
<1> QED
  BY <1>2, <1>3, <1>4, <1>7

(* FlattenSeq, one piece after another: a recursive function on the places *)
(* of a sequence exists because one can be extended by a place.            *)
Flattening(f, pieces, n) ==
  f = [i \in 1 .. n |-> IF i = 1 THEN pieces[i] ELSE f[i - 1] \o pieces[i]]

LEMMA FlatteningAt ==
  ASSUME NEW f, NEW pieces, NEW n \in Nat, Flattening(f, pieces, n), NEW i \in 1 .. n
  PROVE  f[i] = IF i = 1 THEN pieces[i] ELSE f[i - 1] \o pieces[i]
BY DEF Flattening

LEMMA FlatteningBy ==
  ASSUME NEW n \in Nat, NEW pieces, NEW f, DOMAIN f = 1 .. n, f = [i \in DOMAIN f |-> f[i]],
         \A i \in 1 .. n : f[i] = IF i = 1 THEN pieces[i] ELSE f[i - 1] \o pieces[i]
  PROVE  Flattening(f, pieces, n)
BY DEF Flattening

LEMMA FlatteningExists ==
  ASSUME NEW pieces
  PROVE  \A n \in Nat : \E f : Flattening(f, pieces, n)
<1> DEFINE S == {n \in Nat : \E f : Flattening(f, pieces, n)}
<1>1. 0 \in S
  <2> PICK f : f = [i \in 1 .. 0 |-> pieces[i]]
    OBVIOUS
  <2>1. DOMAIN f = 1 .. 0 /\ f = [i \in DOMAIN f |-> f[i]] /\ 0 \in Nat
    OBVIOUS
  <2>2. ~\E i : i \in 1 .. 0
    OBVIOUS
  <2>3. Flattening(f, pieces, 0)
    BY ONLY <2>1, <2>2, FlatteningBy
  <2> QED BY <2>3
<1>2. ASSUME NEW n \in Nat, n \in S PROVE n + 1 \in S
  <2>1. PICK f : Flattening(f, pieces, n)
    BY <1>2
  <2> PICK last : last = IF n + 1 = 1 THEN pieces[n + 1] ELSE f[n] \o pieces[n + 1]
    OBVIOUS
  <2> PICK g : g = [i \in 1 .. n + 1 |-> IF i = n + 1 THEN last ELSE f[i]]
    OBVIOUS
  <2>2. ASSUME NEW i \in 1 .. n + 1
        PROVE  g[i] = IF i = 1 THEN pieces[i] ELSE g[i - 1] \o pieces[i]
    <3>1. CASE i = n + 1
      BY <3>1
    <3>2. CASE i # n + 1
      <4>1. i \in 1 .. n
        BY <3>2
      <4>2. f[i] = IF i = 1 THEN pieces[i] ELSE f[i - 1] \o pieces[i]
        BY <2>1, <4>1, FlatteningAt
      <4>3. g[i] = f[i] /\ (i # 1 => g[i - 1] = f[i - 1])
        BY <4>1
      <4> QED BY <4>2, <4>3
    <3> QED BY <3>1, <3>2
  <2> PICK m \in Nat : m = n + 1
    OBVIOUS
  <2>4. DOMAIN g = 1 .. m /\ g = [i \in DOMAIN g |-> g[i]]
    OBVIOUS
  <2>5. \A i \in 1 .. m : g[i] = IF i = 1 THEN pieces[i] ELSE g[i - 1] \o pieces[i]
    BY <2>2
  <2>6. Flattening(g, pieces, m)
    BY ONLY <2>4, <2>5, m \in Nat, FlatteningBy
  <2>3. Flattening(g, pieces, n + 1)
    BY <2>6
  <2> QED BY <2>3
<1>3. \A n \in Nat : n \in S
  <2> HIDE DEF S
  <2> QED BY <1>1, <1>2, Induction
<1> QED
  BY <1>3

LEMMA FlattenSeqIs ==
  ASSUME NEW pieces, Len(pieces) \in Nat \ {0}
  PROVE  \E f : Flattening(f, pieces, Len(pieces)) /\ FlattenSeq(pieces) = f[Len(pieces)]
<1> PICK f : f = CHOOSE g : Flattening(g, pieces, Len(pieces))
  OBVIOUS
<1>1. Flattening(f, pieces, Len(pieces))
  BY FlatteningExists
<1>2. FlattenSeq(pieces) = f[Len(pieces)]
  BY DEF FlattenSeq, Flattening
<1> QED
  BY <1>1, <1>2

(* Two such functions agree where both are defined.                        *)
LEMMA FlatteningSame ==
  ASSUME NEW pieces, NEW others, NEW n \in Nat, NEW m \in Nat,
         NEW f, Flattening(f, pieces, n), NEW g, Flattening(g, others, m),
         n <= m, \A i \in 1 .. n : pieces[i] = others[i]
  PROVE  \A i \in 1 .. n : f[i] = g[i]
<1> DEFINE S == {i \in Nat : i \in 1 .. n => f[i] = g[i]}
<1>1. 0 \in S
  OBVIOUS
<1>2. ASSUME NEW i \in Nat, i \in S PROVE i + 1 \in S
  <2> SUFFICES ASSUME i + 1 \in 1 .. n PROVE f[i + 1] = g[i + 1]
    OBVIOUS
  <2> PICK j : j = i + 1
    OBVIOUS
  <2>1. j \in 1 .. n /\ j \in 1 .. m /\ j - 1 = i /\ (j # 1 => i \in 1 .. n)
    OBVIOUS
  <2>2. /\ f[j] = IF j = 1 THEN pieces[j] ELSE f[j - 1] \o pieces[j]
        /\ g[j] = IF j = 1 THEN others[j] ELSE g[j - 1] \o others[j]
    BY <2>1, FlatteningAt
  <2>3. j # 1 => f[j - 1] = g[j - 1]
    BY <1>2, <2>1
  <2> QED
    BY <2>1, <2>2, <2>3
<1>3. \A i \in Nat : i \in S
  <2> HIDE DEF S
  <2> QED BY <1>1, <1>2, Induction
<1> QED
  BY <1>3

LEMMA FlattenAppend ==
  ASSUME NEW S, NEW pieces \in Seq(Seq(S)), NEW piece \in Seq(S)
  PROVE  /\ FlattenSeq(pieces) \in Seq(S)
         /\ FlattenSeq(Append(pieces, piece)) = FlattenSeq(pieces) \o piece
<1> PICK n \in Nat : n = Len(pieces)
  OBVIOUS
<1> PICK all : all = Append(pieces, piece)
  OBVIOUS
<1> PICK m : m = n + 1
  OBVIOUS
<1>0. m \in Nat \ {0} /\ m - 1 = n /\ m \in 1 .. m /\ n <= m
  OBVIOUS
<1>1. Len(all) = m /\ all[m] = piece /\ \A i \in 1 .. n : all[i] = pieces[i]
  OBVIOUS
<1>2. PICK g : Flattening(g, all, m) /\ FlattenSeq(all) = g[m]
  BY ONLY <1>0, <1>1, FlattenSeqIs
<1>3. g[m] = IF m = 1 THEN piece ELSE g[n] \o piece
  <2>1. g[m] = IF m = 1 THEN all[m] ELSE g[m - 1] \o all[m]
    BY ONLY <1>0, <1>2, FlatteningAt
  <2> QED BY ONLY <1>0, <1>1, <2>1
<1>4. CASE n = 0
  <2>1. pieces = <<>>
    BY <1>4, EmptySeq
  <2>2. FlattenSeq(pieces) = <<>>
    BY ONLY <2>1 DEF FlattenSeq
  <2>3. FlattenSeq(all) = piece
    BY ONLY <1>2, <1>3, <1>4, m = n + 1
  <2>4. <<>> \o piece = piece /\ <<>> \in Seq(S)
    OBVIOUS
  <2> QED BY ONLY <2>2, <2>3, <2>4, all = Append(pieces, piece)
<1>5. CASE n # 0
  <2>1. PICK f : Flattening(f, pieces, n) /\ FlattenSeq(pieces) = f[n]
    BY ONLY <1>5, FlattenSeqIs, n = Len(pieces), n \in Nat
  <2>2. f[n] = g[n]
    <3>1. \A i \in 1 .. n : f[i] = g[i]
      BY ONLY <1>0, <1>1, <1>2, <2>1, FlatteningSame, n \in Nat
    <3> QED BY ONLY <1>5, <3>1, n \in Nat
  <2>3. FlattenSeq(all) = FlattenSeq(pieces) \o piece
    BY ONLY <1>0, <1>2, <1>3, <1>5, <2>1, <2>2, n \in Nat, m = n + 1, all = Append(pieces, piece)
  <2>4. f[n] \in Seq(S)
    <3> DEFINE T == {i \in Nat : i \in 1 .. n => f[i] \in Seq(S)}
    <3>1. 0 \in T
      OBVIOUS
    <3>2. ASSUME NEW i \in Nat, i \in T PROVE i + 1 \in T
      <4> SUFFICES ASSUME i + 1 \in 1 .. n PROVE f[i + 1] \in Seq(S)
        OBVIOUS
      <4> PICK j : j = i + 1
        OBVIOUS
      <4>1. j \in 1 .. n /\ j - 1 = i /\ (j # 1 => i \in 1 .. n) /\ pieces[j] \in Seq(S)
        OBVIOUS
      <4>2. f[j] = IF j = 1 THEN pieces[j] ELSE f[j - 1] \o pieces[j]
        BY ONLY <2>1, <4>1, FlatteningAt, n \in Nat
      <4>3. j # 1 => f[j - 1] \in Seq(S)
        BY <3>2, <4>1
      <4> QED
        BY <4>1, <4>2, <4>3
    <3>3. \A i \in Nat : i \in T
      <4> HIDE DEF T
      <4> QED BY <3>1, <3>2, Induction
    <3> QED
      BY <1>5, <3>3
  <2> QED
    BY <2>1, <2>3, <2>4
<1> QED
  BY <1>4, <1>5

LEMMA FlattenEmpty == FlattenSeq(<<>>) = <<>>
BY DEF FlattenSeq

-------------------------------------------------------------------------------
(* Text that is only ASCII: every token a character of its own.            *)

Letters(n) == [i \in 1 .. n |-> <<"Ascii">>]
AllAscii(s) == \A k \in DOMAIN s : s[k] = "Ascii"

LEMMA AsciiFront ==
  ASSUME NEW s \in Seq(ByteClasses), NEW x, AllAscii(Append(s, x)) PROVE AllAscii(s)
<1> PICK more : more = Append(s, x)
  OBVIOUS
<1>1. \A k \in DOMAIN s : k \in DOMAIN more /\ more[k] = s[k]
  BY ONLY s \in Seq(ByteClasses), more = Append(s, x)
<1> QED BY <1>1 DEF AllAscii

LEMMA AsciiPart ==
  ASSUME NEW s \in Seq(ByteClasses), NEW a \in Nat, NEW b \in a .. Len(s), AllAscii(s)
  PROVE  LET u == SubSeq(s, a + 1, b)
         IN u \in Seq(ByteClasses) /\ Len(u) = b - a /\ AllAscii(u)
<1> PICK u : u = SubSeq(s, a + 1, b)
  OBVIOUS
<1>1. u \in Seq(ByteClasses) /\ Len(u) = b - a
  BY ONLY s \in Seq(ByteClasses), a \in Nat, b \in a .. Len(s), u = SubSeq(s, a + 1, b)
<1>2. ASSUME NEW k \in DOMAIN u PROVE u[k] = "Ascii"
  <2>1. k \in 1 .. b - a
    BY ONLY <1>1, k \in DOMAIN u
  <2>2. u[k] = s[a + k] /\ a + k \in DOMAIN s
    BY ONLY <2>1, s \in Seq(ByteClasses), a \in Nat, b \in a .. Len(s), u = SubSeq(s, a + 1, b)
  <2> QED BY ONLY <2>2, AllAscii(s) DEF AllAscii
<1> QED BY ONLY <1>1, <1>2, u = SubSeq(s, a + 1, b) DEF AllAscii

LEMMA LettersSeq ==
  ASSUME NEW n \in Nat
  PROVE  /\ Letters(n) \in Seq({<<"Ascii">>}) /\ Len(Letters(n)) = n
         /\ Letters(n + 1) = Append(Letters(n), <<"Ascii">>)
<1>1. Letters(n) \in Seq({<<"Ascii">>}) /\ Len(Letters(n)) = n
  BY DEF Letters
<1>2. Letters(n + 1) \in Seq({<<"Ascii">>}) /\ Len(Letters(n + 1)) = n + 1
  BY DEF Letters
<1> PICK s : s = Append(Letters(n), <<"Ascii">>)
  OBVIOUS
<1>3. s \in Seq({<<"Ascii">>}) /\ Len(s) = n + 1
  BY <1>1
<1>4. \A i \in 1 .. n + 1 : s[i] = <<"Ascii">> /\ Letters(n + 1)[i] = <<"Ascii">>
  BY <1>1 DEF Letters
<1> QED
  BY <1>1, <1>2, <1>3, <1>4, SeqEqual

LEMMA LettersPart ==
  ASSUME NEW n \in Nat, NEW k \in 0 .. n
  PROVE  /\ SubSeq(Letters(n), 1, k) = Letters(k)
         /\ SubSeq(Letters(n), k + 1, n) = Letters(n - k)
         /\ Letters(k) \o Letters(n - k) = Letters(n)
<1>1. SubSeq(Letters(n), 1, k) = Letters(k)
  BY DEF Letters
<1>2. SubSeq(Letters(n), k + 1, n) = Letters(n - k)
  BY DEF Letters
<1>3. Letters(k) \o Letters(n - k) = Letters(n)
  BY DEF Letters
<1> QED
  BY <1>1, <1>2, <1>3

LEMMA FlattenLetters ==
  \A n \in Nat : FlattenSeq([i \in 1 .. n |-> <<<<"Ascii">>>>]) = Letters(n)
<1> DEFINE Pieces(n) == [i \in 1 .. n |-> <<<<"Ascii">>>>]
           S == {n \in Nat : FlattenSeq(Pieces(n)) = Letters(n)}
<1>1. 0 \in S
  BY FlattenEmpty DEF Letters
<1>2. ASSUME NEW n \in Nat, n \in S PROVE n + 1 \in S
  <2>1. Pieces(n) \in Seq(Seq({<<"Ascii">>})) /\ <<<<"Ascii">>>> \in Seq({<<"Ascii">>})
    OBVIOUS
  <2>2. Pieces(n + 1) = Append(Pieces(n), <<<<"Ascii">>>>)
    OBVIOUS
  <2>3. FlattenSeq(Pieces(n + 1)) = FlattenSeq(Pieces(n)) \o <<<<"Ascii">>>>
    BY <2>1, <2>2, FlattenAppend
  <2>4. Letters(n) \o <<<<"Ascii">>>> = Append(Letters(n), <<"Ascii">>)
    BY LettersSeq, AppendIsConcat
  <2>5. Letters(n + 1) = Append(Letters(n), <<"Ascii">>)
    BY LettersSeq
  <2>6. FlattenSeq(Pieces(n)) = Letters(n)
    BY <1>2
  <2>7. FlattenSeq(Pieces(n + 1)) = Letters(n + 1)
    <3> HIDE DEF Pieces
    <3> QED BY ONLY <2>3, <2>4, <2>5, <2>6
  <2> QED BY <2>7
<1>3. \A n \in Nat : n \in S
  <2> HIDE DEF S
  <2> QED BY <1>1, <1>2, Induction
<1> QED
  BY <1>3

LEMMA DecodeLetters ==
  ASSUME NEW s \in Seq(ByteClasses), AllAscii(s)
  PROVE  Decode(s) = Letters(Len(s))
<1>1. Decode(s) = FlattenSeq([i \in 1 .. Len(s) |-> <<<<"Ascii">>>>])
  <2>1. \A i \in 1 .. Len(s) : Piece(s, i) = <<<<"Ascii">>>>
    <3> TAKE i \in 1 .. Len(s)
    <3>1. s[i] = "Ascii"
      BY DEF AllAscii
    <3> QED BY ONLY <3>1 DEF Piece
  <2>2. [i \in DOMAIN s |-> Piece(s, i)] = [i \in 1 .. Len(s) |-> <<<<"Ascii">>>>]
    BY <2>1
  <2> QED BY ONLY <2>2 DEF Decode
<1> QED
  BY <1>1, FlattenLetters

-------------------------------------------------------------------------------
(* A fold over the places of a sequence, from the last to the first: the   *)
(* recursive function the library's fold chooses exists.                   *)

LEMMA GreatestNumber ==
  ASSUME NEW n \in Nat, NEW s \in SUBSET (1 .. n), s # {}
  PROVE  Max(s) \in s /\ \A x \in s : Max(s) >= x
<1> DEFINE S == {k \in Nat : \A u \in SUBSET (1 .. k) : u # {} => \E x \in u : \A y \in u : x >= y}
<1>1. 0 \in S
  <2>1. \A u \in SUBSET (1 .. 0) : u = {}
    OBVIOUS
  <2> QED BY <2>1
<1>2. ASSUME NEW k \in Nat, k \in S PROVE k + 1 \in S
  <2> SUFFICES ASSUME NEW u \in SUBSET (1 .. k + 1), u # {} PROVE \E x \in u : \A y \in u : x >= y
    OBVIOUS
  <2>1. CASE k + 1 \in u
    BY <2>1
  <2>2. CASE k + 1 \notin u
    <3>1. u \in SUBSET (1 .. k)
      BY <2>2
    <3> QED BY <1>2, <3>1
  <2> QED BY <2>1, <2>2
<1>3. \A k \in Nat : k \in S
  <2> HIDE DEF S
  <2> QED BY <1>1, <1>2, Induction
<1>4. \E x \in s : \A y \in s : x >= y
  BY <1>3
<1> QED
  BY <1>4 DEF Max

LEMMA UptoIs ==
  ASSUME NEW n \in Nat, NEW k \in 1 .. n
  PROVE  /\ 1 .. k \in SUBSET (1 .. n) /\ 1 .. k # {}
         /\ Max(1 .. k) = k /\ (1 .. k) \ {k} = 1 .. k - 1
<1>1. 1 .. k \in SUBSET (1 .. n) /\ k \in 1 .. k
  OBVIOUS
<1>2. Max(1 .. k) \in 1 .. k /\ \A x \in 1 .. k : Max(1 .. k) >= x
  BY <1>1, GreatestNumber
<1>3. Max(1 .. k) = k
  BY <1>1, <1>2
<1>4. (1 .. k) \ {k} = 1 .. k - 1
  OBVIOUS
<1> QED
  BY <1>1, <1>3, <1>4

FoldsOver(F, V, base, n, H) ==
  /\ F \in [SUBSET (1 .. n) -> V] /\ F[{}] = base
  /\ \A s \in SUBSET (1 .. n) : s # {} => F[s] = H[<<F[s \ {Max(s)}], Max(s)>>]

LEMMA FoldExists ==
  ASSUME NEW V, NEW base \in V, NEW n \in Nat, NEW H \in [V \X (1 .. n) -> V]
  PROVE  \E F : FoldsOver(F, V, base, n, H)
<1> DEFINE S == {k \in Nat : k <= n => \E F : FoldsOver(F, V, base, k, H)}
<1>1. 0 \in S
  <2> PICK F : F = [s \in SUBSET (1 .. 0) |-> base]
    OBVIOUS
  <2>1. \A s \in SUBSET (1 .. 0) : s = {}
    OBVIOUS
  <2>2. F \in [SUBSET (1 .. 0) -> V] /\ F[{}] = base
    OBVIOUS
  <2>3. FoldsOver(F, V, base, 0, H)
    BY ONLY <2>1, <2>2 DEF FoldsOver
  <2> QED BY <2>3
<1>2. ASSUME NEW k \in Nat, k \in S PROVE k + 1 \in S
  <2> SUFFICES ASSUME k + 1 <= n PROVE \E F : FoldsOver(F, V, base, k + 1, H)
    OBVIOUS
  <2>1. PICK F : FoldsOver(F, V, base, k, H)
    BY <1>2
  <2> PICK m : m = k + 1
    OBVIOUS
  <2>2. m \in 1 .. n /\ m \in Nat /\ m \notin 1 .. k /\ (1 .. m) \ {m} = 1 .. k
    OBVIOUS
  <2> PICK G : G = [s \in SUBSET (1 .. m) |-> IF m \in s THEN H[<<F[s \ {m}], m>>] ELSE F[s]]
    OBVIOUS
  <2>3. F \in [SUBSET (1 .. k) -> V] /\ F[{}] = base
    BY ONLY <2>1 DEF FoldsOver
  <2>4. ASSUME NEW s \in SUBSET (1 .. m), m \in s
        PROVE  G[s] \in V /\ G[s] = H[<<G[s \ {Max(s)}], Max(s)>>]
    <3>1. Max(s) = m
      <4>1. Max(s) \in s /\ \A x \in s : Max(s) >= x
        BY <2>2, <2>4, GreatestNumber
      <4> PICK x : x = Max(s)
        OBVIOUS
      <4>2. x \in 1 .. m /\ x >= m
        BY ONLY <2>4, <4>1, x = Max(s), s \in SUBSET (1 .. m)
      <4> QED BY ONLY <2>2, <4>2, x = Max(s)
    <3>2. s \ {m} \in SUBSET (1 .. k) /\ s \ {m} \in SUBSET (1 .. m) /\ m \notin s \ {m}
      BY <2>2
    <3>3. G[s \ {m}] = F[s \ {m}]
      BY <3>2
    <3>4. G[s] = H[<<F[s \ {m}], m>>]
      BY <2>4
    <3>5. F[s \ {m}] \in V
      BY ONLY <2>3, <3>2
    <3>6. H[<<F[s \ {m}], m>>] \in V
      BY ONLY <2>2, <3>5, H \in [V \X (1 .. n) -> V]
    <3> QED BY ONLY <3>1, <3>3, <3>4, <3>6
  <2>5. ASSUME NEW s \in SUBSET (1 .. m), m \notin s
        PROVE  G[s] = F[s] /\ s \in SUBSET (1 .. k)
    BY <2>2, <2>5
  <2>6. ASSUME NEW s \in SUBSET (1 .. m), m \notin s, s # {}
        PROVE  G[s] = H[<<G[s \ {Max(s)}], Max(s)>>]
    <3>1. F[s] = H[<<F[s \ {Max(s)}], Max(s)>>]
      BY ONLY <2>1, <2>5, <2>6, s \in SUBSET (1 .. m) DEF FoldsOver
    <3>2. s \ {Max(s)} \in SUBSET (1 .. m) /\ m \notin s \ {Max(s)}
      BY <2>6
    <3> QED BY ONLY <2>5, <2>6, <3>1, <3>2, s \in SUBSET (1 .. m)
  <2>7. \A s \in SUBSET (1 .. m) : G[s] \in V
    <3> TAKE s \in SUBSET (1 .. m)
    <3>1. CASE m \in s
      BY ONLY <2>4, <3>1, s \in SUBSET (1 .. m)
    <3>2. CASE m \notin s
      BY ONLY <2>3, <2>5, <3>2, s \in SUBSET (1 .. m)
    <3> QED BY <3>1, <3>2
  <2>8. G[{}] = base
    <3>1. {} \in SUBSET (1 .. m) /\ m \notin {}
      OBVIOUS
    <3> QED BY ONLY <2>3, <2>5, <3>1
  <2>9. G \in [SUBSET (1 .. m) -> V]
    BY <2>7
  <2>10. FoldsOver(G, V, base, m, H)
    BY ONLY <2>4, <2>6, <2>8, <2>9 DEF FoldsOver
  <2> QED BY ONLY <2>10, m = k + 1
<1>3. \A k \in Nat : k \in S
  <2> HIDE DEF S
  <2> QED BY <1>1, <1>2, Induction
<1> QED
  BY <1>3

LEMMA SizeLetters ==
  ASSUME NEW n \in Nat PROVE Size(Letters(n)) = n
<1> DEFINE Folded(F) == F = [s \in SUBSET (1 .. n) |->
             IF s = {} THEN 0 ELSE F[s \ {Max(s)}] + Width(Letters(n)[Max(s)])]
<1>1. \A k \in 1 .. n : Width(Letters(n)[k]) = 1
  BY DEF Letters, Width, Replacement
<1>2. \E F : Folded(F)
  <2> PICK H : H = [x \in Nat \X (1 .. n) |-> x[1] + 1]
    OBVIOUS
  <2>1. H \in [Nat \X (1 .. n) -> Nat] /\ 0 \in Nat
    OBVIOUS
  <2>2. PICK F : FoldsOver(F, Nat, 0, n, H)
    BY <2>1, FoldExists
  <2>3. ASSUME NEW s \in SUBSET (1 .. n), s # {}
        PROVE  F[s] = F[s \ {Max(s)}] + Width(Letters(n)[Max(s)])
    <3>1. Max(s) \in 1 .. n
      BY <2>3, GreatestNumber
    <3>2. F[s] = H[<<F[s \ {Max(s)}], Max(s)>>] /\ F[s \ {Max(s)}] \in Nat
      BY <2>2, <2>3 DEF FoldsOver
    <3> QED BY <1>1, <3>1, <3>2
  <2>4. F \in [SUBSET (1 .. n) -> Nat] /\ F[{}] = 0
    BY <2>2 DEF FoldsOver
  <2>5. F = [s \in SUBSET (1 .. n) |->
             IF s = {} THEN 0 ELSE F[s \ {Max(s)}] + Width(Letters(n)[Max(s)])]
    BY ONLY <2>3, <2>4
  <2> QED BY <2>5
<1>3. PICK F : Folded(F) /\ Size(Letters(n)) = F[1 .. n]
  <2>1. DOMAIN Letters(n) = 1 .. n
    BY DEF Letters
  <2>2. Size(Letters(n)) = (CHOOSE F : Folded(F))[1 .. n]
    BY ONLY <2>1 DEF Size, FoldLeft, MapThenFoldSet
  <2> QED BY ONLY <1>2, <2>2
<1> DEFINE S == {k \in Nat : k <= n => F[1 .. k] = k}
<1>4. 0 \in S
  <2>1. {} \in SUBSET (1 .. n) /\ 1 .. 0 = {}
    OBVIOUS
  <2>2. F[{}] = 0
    BY ONLY <1>3, <2>1
  <2> QED BY <2>1, <2>2
<1>5. ASSUME NEW k \in Nat, k \in S PROVE k + 1 \in S
  <2> SUFFICES ASSUME k + 1 <= n PROVE F[1 .. k + 1] = k + 1
    OBVIOUS
  <2> PICK m : m = k + 1
    OBVIOUS
  <2>1. m \in 1 .. n /\ m - 1 = k
    OBVIOUS
  <2>2. /\ 1 .. m \in SUBSET (1 .. n) /\ 1 .. m # {}
        /\ Max(1 .. m) = m /\ (1 .. m) \ {m} = 1 .. m - 1
    BY <2>1, UptoIs
  <2>3. F[1 .. m] = F[(1 .. m) \ {Max(1 .. m)}] + Width(Letters(n)[Max(1 .. m)])
    BY ONLY <1>3, <2>2
  <2>4. F[1 .. m] = F[1 .. k] + 1
    BY ONLY <1>1, <2>1, <2>2, <2>3
  <2>5. F[1 .. k] = k
    BY <1>5
  <2> QED BY <2>4, <2>5
<1>6. \A k \in Nat : k \in S
  <2> HIDE DEF S
  <2> QED BY <1>4, <1>5, Induction
<1>7. n <= n => F[1 .. n] = n
  BY ONLY <1>6, n \in Nat
<1> QED
  BY ONLY <1>3, <1>7, n \in Nat

LEMMA FromLetters ==
  ASSUME NEW n \in Nat, NEW k \in 0 .. n
  PROVE  From(Letters(n), k) = Letters(n - k)
<1> DEFINE Cut(j) == Size(SubSeq(Letters(n), 1, j)) = k
<1>1. \A j \in 0 .. n : Size(SubSeq(Letters(n), 1, j)) = j
  <2> TAKE j \in 0 .. n
  <2>1. SubSeq(Letters(n), 1, j) = Letters(j) /\ j \in Nat
    BY LettersPart
  <2> QED BY ONLY <2>1, SizeLetters
<1>2. Len(Letters(n)) = n
  BY LettersSeq
<1>3. \A j \in 0 .. n : Cut(j) <=> j = k
  BY <1>1
<1>4. \E j \in 0 .. n : Cut(j)
  BY <1>3
<1>5. (CHOOSE j \in 0 .. n : Cut(j)) = k
  <2> HIDE DEF Cut
  <2> QED BY <1>3, <1>4
<1>6. From(Letters(n), k) = SubSeq(Letters(n), 1 + k, n)
  BY <1>2, <1>4, <1>5 DEF From
<1>7. 1 + k = k + 1
  OBVIOUS
<1> QED
  BY <1>6, <1>7, LettersPart

(* What is new in an ASCII text is what has not been emitted.              *)
LEMMA NewTextLetters ==
  ASSUME NEW s \in Seq(ByteClasses), AllAscii(s), NEW k \in 0 .. Len(s)
  PROVE  NewText(s, k) = Letters(Len(s) - k)
<1> PICK n \in Nat : n = Len(s)
  OBVIOUS
<1> PICK start : start = IF k > Overlap THEN k - Overlap ELSE 0
  OBVIOUS
<1>1. start \in 0 .. k /\ k \in 0 .. n
  BY DEF Overlap
<1>2. ASSUME NEW m \in start .. n
      PROVE  Decode(SubSeq(s, start + 1, m)) = Letters(m - start)
  <2> PICK u : u = SubSeq(s, start + 1, m)
    OBVIOUS
  <2>1. start \in Nat /\ m \in start .. Len(s)
    BY <1>1
  <2>2. u \in Seq(ByteClasses) /\ Len(u) = m - start /\ AllAscii(u)
    BY ONLY <2>1, AsciiPart, s \in Seq(ByteClasses), AllAscii(s), u = SubSeq(s, start + 1, m)
  <2> QED BY ONLY <2>2, DecodeLetters, u = SubSeq(s, start + 1, m)
<1>3. NewText(s, k) = From(Decode(SubSeq(s, start + 1, n)), Size(Decode(SubSeq(s, start + 1, k))))
  BY DEF NewText
<1>4. Decode(SubSeq(s, start + 1, n)) = Letters(n - start)
  BY <1>1, <1>2
<1>5. Size(Decode(SubSeq(s, start + 1, k))) = k - start
  BY <1>1, <1>2, SizeLetters
<1> PICK a \in Nat : a = n - start
  BY <1>1
<1> PICK b \in 0 .. a : b = k - start
  BY <1>1
<1>6. From(Letters(a), b) = Letters(a - b)
  BY FromLetters
<1>7. a - b = n - k
  BY ONLY <1>1, n \in Nat, a = n - start, b = k - start
<1> QED
  BY ONLY <1>3, <1>4, <1>5, <1>6, <1>7, n = Len(s), a = n - start, b = k - start

-------------------------------------------------------------------------------
(* A batch. The token of a sequence whose outcome has not been looked at   *)
(* yet is due; what a sequence has generated is what its decode thread has *)
(* taken, what is in the channel, and what is due.                         *)

StepOutcomes == ByteClasses \cup {"Skipped", "Stop", "Failed"}
Turn(i) == Len(outcomes) - Cardinality(seqs) + i
Due(i) ==
  IF phase = "Updating" /\ Turn(i) >= 1 /\ outcomes[Turn(i)] \in Vocabulary
  THEN <<outcomes[Turn(i)]>> ELSE <<>>

DirectTypes ==
  /\ context \in Nat
  /\ Cardinality(seqs) \in Nat \ {0} /\ seqs = 1 .. Cardinality(seqs)
  /\ generated \in [seqs -> Seq(ByteClasses)] /\ channel \in [seqs -> Seq(ByteClasses)]
  /\ buffer \in [seqs -> Seq(ByteClasses)] /\ shownUpTo \in [seqs -> Nat]
  /\ shown = [i \in seqs |-> shown[i]] /\ thread \in [seqs -> {"Up", "Died", "Ended"}]
  /\ outcomes \in Seq(StepOutcomes) /\ Len(outcomes) <= Cardinality(seqs)
  /\ finished \subseteq seqs /\ lanes \subseteq seqs /\ closed \subseteq seqs
  /\ phase \in {"Start", "Rounds", "Updating", "Finishing", "Returned"}
  /\ result \in {"None", "Ok", "Err", "Panicked"}

Flows(i) == generated[i] = (buffer[i] \o channel[i]) \o Due(i)

(* Of a text that is ASCII so far, all has been shown, or, with a context, *)
(* all that was full.                                                      *)
Spoken(i) ==
  /\ shownUpTo[i] <= Len(buffer[i])
  /\ AllAscii(buffer[i]) =>
       /\ shown[i] = Letters(IF context = 0 THEN Len(buffer[i]) ELSE shownUpTo[i])
       /\ context > 0 => Len(buffer[i]) - shownUpTo[i] < context

Streaming(i) ==
  /\ thread[i] # "Died" => Flows(i) /\ Spoken(i)
  /\ thread[i] = "Died" => context = 0 /\ ~AllWhole
  /\ thread[i] = "Ended" => channel[i] = <<>> /\ i \in closed

DriverOK ==
  /\ phase = "Returned" <=> result # "None"
  /\ phase \in {"Start", "Rounds", "Updating"} => closed = {}
  /\ phase = "Start" => lanes = {}
  /\ phase \in {"Start", "Rounds", "Finishing"} => outcomes = <<>>
  /\ phase = "Finishing" =>
       /\ lanes = {}
       /\ \E k \in 0 .. Cardinality(seqs) :
            closed = 1 .. k /\ \A j \in 1 .. k - 1 : thread[j] = "Ended"

BatchOver ==
  /\ result = "Ok" => \A i \in seqs : thread[i] = "Ended"
  /\ result \in {"Ok", "Err"} => lanes = {}
  /\ result = "Panicked" => Cardinality(seqs) > Lanes \/ (context = 0 /\ ~AllWhole)

BatchInv ==
  /\ DirectTypes /\ DriverOK /\ BatchOver
  /\ result \in {"None", "Ok"} => \A i \in seqs : Streaming(i)

LEMMA DirectStarts == DirectInit => BatchInv
<1> SUFFICES ASSUME DirectInit PROVE BatchInv
  OBVIOUS
<1> PICK n \in 1 .. MaxBatch :
       /\ seqs = 1 .. n
       /\ generated = [i \in 1 .. n |-> <<>>] /\ rounds = [i \in 1 .. n |-> 0]
       /\ channel = [i \in 1 .. n |-> <<>>] /\ thread = [i \in 1 .. n |-> "Up"]
       /\ buffer = [i \in 1 .. n |-> <<>>] /\ shownUpTo = [i \in 1 .. n |-> 0]
       /\ shown = [i \in 1 .. n |-> <<>>]
  BY DEF DirectInit
<1>1. n \in Nat \ {0}
  BY DirectAssumption
<1>2. Cardinality(seqs) = n
  BY <1>1, FS_Interval
<1>3. /\ phase = "Start" /\ finished = {} /\ lanes = {} /\ outcomes = <<>> /\ closed = {}
      /\ result = "None" /\ context \in Nat
  BY DirectAssumption DEF DirectInit
<1>4. DirectTypes
  BY <1>1, <1>2, <1>3 DEF DirectTypes
<1>5. DriverOK /\ BatchOver
  BY <1>3 DEF DriverOK, BatchOver
<1>6. ASSUME NEW i \in seqs PROVE Streaming(i)
  <2>1. Flows(i)
    BY <1>3 DEF Flows, Due
  <2>2. Spoken(i)
    <3>1. Letters(0) = <<>>
      BY DEF Letters
    <3>2. Len(buffer[i]) = 0 /\ shownUpTo[i] = 0 /\ shown[i] = <<>>
      OBVIOUS
    <3> QED BY <1>3, <3>1, <3>2 DEF Spoken
  <2> QED BY <2>1, <2>2 DEF Streaming
<1> QED
  BY <1>4, <1>5, <1>6 DEF BatchInv

LEMMA ThreadKeeps ==
  ASSUME BatchInv, NEW i \in seqs, thread[i] = "Up", UNCHANGED <<context, driverVars>>,
         NEW next \in {"Up", "Died", "Ended"}, thread' = [thread EXCEPT ![i] = next],
         DirectTypes', \A j \in seqs : j # i => /\ channel'[j] = channel[j] /\ buffer'[j] = buffer[j]
                                               /\ shown'[j] = shown[j]
                                               /\ shownUpTo'[j] = shownUpTo[j],
         result = "None" => Streaming(i)'
  PROVE  BatchInv'
<1>1. /\ seqs' = seqs /\ phase' = phase /\ generated' = generated /\ lanes' = lanes
      /\ outcomes' = outcomes /\ closed' = closed /\ result' = result /\ context' = context
  BY DEF driverVars
<1>2. /\ DriverOK /\ BatchOver /\ DirectTypes
      /\ result \in {"None", "Ok"} => \A j \in seqs : Streaming(j)
  BY DEF BatchInv
<1>3. thread \in [seqs -> {"Up", "Died", "Ended"}] /\ seqs = 1 .. Cardinality(seqs)
      /\ Cardinality(seqs) \in Nat
  BY <1>2 DEF DirectTypes
<1>4. \A j \in seqs : thread[j] = "Ended" => thread'[j] = "Ended"
  BY <1>3
<1>5. result # "Ok"
  BY <1>2 DEF BatchOver
<1>6. BatchOver'
  BY <1>1, <1>2, <1>5 DEF BatchOver, AllWhole
<1>7. DriverOK'
  <2>1. ASSUME phase = "Finishing"
        PROVE  \E k \in 0 .. Cardinality(seqs) :
                 closed = 1 .. k /\ \A j \in 1 .. k - 1 : thread'[j] = "Ended"
    <3>1. PICK k \in 0 .. Cardinality(seqs) :
            closed = 1 .. k /\ \A j \in 1 .. k - 1 : thread[j] = "Ended"
      BY <1>2, <2>1 DEF DriverOK
    <3>2. \A j \in 1 .. k - 1 : j \in seqs
      BY <1>3
    <3> QED BY <1>4, <3>1, <3>2
  <2> QED
    BY <1>1, <1>2, <2>1 DEF DriverOK
<1>8. ASSUME result = "None", NEW j \in seqs, j # i PROVE Streaming(j)'
  <2>1. Streaming(j)
    BY <1>2, <1>8
  <2>2. thread'[j] = thread[j] /\ Due(j)' = Due(j) /\ AllWhole' = AllWhole
    BY <1>1, <1>3, <1>8 DEF Due, Turn, AllWhole
  <2> QED
    BY <1>1, <1>8, <2>1, <2>2 DEF Streaming, Flows, Spoken
<1> QED
  BY <1>1, <1>5, <1>6, <1>7, <1>8 DEF BatchInv

LEMMA BatchFacts ==
  ASSUME BatchInv
  PROVE  DirectTypes /\ DriverOK /\ BatchOver
         /\ (result \in {"None", "Ok"} => \A j \in seqs : Streaming(j))
BY DEF BatchInv

LEMMA TakeHead ==
  ASSUME NEW S, NEW b \in Seq(S), NEW c \in Seq(S), c # <<>>
  PROVE  /\ Head(c) \in S /\ Tail(c) \in Seq(S) /\ Append(b, Head(c)) \in Seq(S)
         /\ Append(b, Head(c)) \o Tail(c) = b \o c
<1>1. Head(c) \in S /\ Tail(c) \in Seq(S) /\ Len(c) \in Nat \ {0}
  BY EmptySeq
<1>2. Append(b, Head(c)) \in Seq(S)
  BY <1>1
<1> PICK left : left = Append(b, Head(c)) \o Tail(c)
  OBVIOUS
<1> PICK right : right = b \o c
  OBVIOUS
<1>3. left \in Seq(S) /\ right \in Seq(S) /\ Len(left) = Len(right)
  BY <1>1, <1>2
<1>4. \A k \in 1 .. Len(left) : left[k] = right[k]
  BY <1>1, <1>2
<1>5. left = right
  BY <1>3, <1>4, SeqEqual
<1> QED
  BY <1>1, <1>2, <1>5

(* A token of its channel becomes the last one a thread has taken.         *)
LEMMA TakesToken ==
  ASSUME BatchInv, NEW i \in seqs, thread[i] = "Up", channel[i] # <<>>,
         UNCHANGED <<context, driverVars, thread>>,
         NEW token, token = Head(channel[i]), NEW tokens, tokens = Append(buffer[i], token),
         buffer' = [buffer EXCEPT ![i] = tokens], channel' = [channel EXCEPT ![i] = Tail(@)],
         NEW more, shown' = [shown EXCEPT ![i] = more],
         NEW upTo \in Nat, shownUpTo' = [shownUpTo EXCEPT ![i] = upTo],
         result = "None" =>
           /\ upTo <= Len(tokens)
           /\ AllAscii(tokens) => /\ more = Letters(IF context = 0 THEN Len(tokens) ELSE upTo)
                                  /\ context > 0 => Len(tokens) - upTo < context
  PROVE  BatchInv'
<1>1. /\ seqs' = seqs /\ phase' = phase /\ generated' = generated /\ lanes' = lanes
      /\ outcomes' = outcomes /\ closed' = closed /\ result' = result /\ context' = context
      /\ thread' = thread /\ finished' = finished
  BY DEF driverVars
<1>2. DirectTypes
  BY BatchFacts
<1>3. /\ channel \in [seqs -> Seq(ByteClasses)] /\ buffer \in [seqs -> Seq(ByteClasses)]
      /\ shownUpTo \in [seqs -> Nat] /\ shown = [j \in seqs |-> shown[j]]
      /\ thread \in [seqs -> {"Up", "Died", "Ended"}]
  BY <1>2 DEF DirectTypes
<1>4. channel[i] \in Seq(ByteClasses) /\ buffer[i] \in Seq(ByteClasses)
  BY <1>3
<1>5. token \in ByteClasses /\ Tail(channel[i]) \in Seq(ByteClasses) /\ tokens \in Seq(ByteClasses)
      /\ tokens \o Tail(channel[i]) = buffer[i] \o channel[i]
  <2> PICK b \in Seq(ByteClasses), c \in Seq(ByteClasses) : b = buffer[i] /\ c = channel[i]
    BY <1>4
  <2>1. /\ Head(c) \in ByteClasses /\ Tail(c) \in Seq(ByteClasses)
        /\ Append(b, Head(c)) \in Seq(ByteClasses)
        /\ Append(b, Head(c)) \o Tail(c) = b \o c
    BY ONLY TakeHead, c # <<>>, b \in Seq(ByteClasses), c \in Seq(ByteClasses)
  <2> QED
    BY ONLY <2>1, b = buffer[i], c = channel[i], token = Head(channel[i]),
            tokens = Append(buffer[i], token)
<1>6. /\ channel' \in [seqs -> Seq(ByteClasses)] /\ buffer' \in [seqs -> Seq(ByteClasses)]
      /\ shownUpTo' \in [seqs -> Nat] /\ shown' = [j \in seqs |-> shown'[j]]
      /\ channel'[i] = Tail(channel[i]) /\ buffer'[i] = tokens /\ shown'[i] = more
      /\ shownUpTo'[i] = upTo
      /\ \A j \in seqs : j # i => /\ channel'[j] = channel[j] /\ buffer'[j] = buffer[j]
                                  /\ shown'[j] = shown[j] /\ shownUpTo'[j] = shownUpTo[j]
  BY <1>3, <1>5
<1>7. DirectTypes'
  BY <1>1, <1>2, <1>6 DEF DirectTypes
<1>8. ASSUME result = "None" PROVE Streaming(i)'
  <2>1. Flows(i)
    BY <1>8, BatchFacts DEF Streaming
  <2>2. Due(i)' = Due(i)
    BY <1>1 DEF Due, Turn
  <2>3. Flows(i)'
    BY <1>1, <1>5, <1>6, <2>1, <2>2 DEF Flows
  <2>4. Spoken(i)'
    BY <1>1, <1>6, <1>8 DEF Spoken
  <2> QED
    BY <1>1, <2>3, <2>4 DEF Streaming
<1>9. thread' = [thread EXCEPT ![i] = "Up"]
  BY <1>1, <1>3
<1> QED
  BY <1>6, <1>7, <1>8, <1>9, ThreadKeeps

LEMMA ProcessKept ==
  ASSUME BatchInv, NEW i \in seqs, Process(i) PROVE BatchInv'
<1> PICK token : token = Head(channel[i])
  OBVIOUS
<1> PICK tokens : tokens = Append(buffer[i], token)
  OBVIOUS
<1> PICK new : new = Decoded(i, tokens)
  OBVIOUS
<1> PICK upTo : upTo = IF new = <<>> THEN shownUpTo[i] ELSE Len(tokens)
  OBVIOUS
<1>1. /\ thread[i] = "Up" /\ channel[i] # <<>> /\ context > 0
      /\ buffer' = [buffer EXCEPT ![i] = tokens] /\ channel' = [channel EXCEPT ![i] = Tail(@)]
      /\ shown' = [shown EXCEPT ![i] = shown[i] \o new]
      /\ shownUpTo' = [shownUpTo EXCEPT ![i] = upTo]
      /\ UNCHANGED <<context, driverVars, thread>>
  BY DEF Process
<1>2. /\ buffer[i] \in Seq(ByteClasses) /\ channel[i] \in Seq(ByteClasses) /\ shownUpTo[i] \in Nat
      /\ context \in Nat
  BY BatchFacts DEF DirectTypes
<1>3. tokens \in Seq(ByteClasses) /\ Len(tokens) = Len(buffer[i]) + 1
  BY <1>1, <1>2
<1>4. upTo \in Nat
  BY <1>2, <1>3
<1>5. ASSUME result = "None"
      PROVE  /\ upTo <= Len(tokens)
             /\ AllAscii(tokens) => shown[i] \o new = Letters(upTo) /\ Len(tokens) - upTo < context
  <2>1. Spoken(i)
    BY <1>1, <1>5, BatchFacts DEF Streaming
  <2>2. upTo \in Nat /\ upTo <= Len(tokens)
    BY <1>2, <1>3, <2>1 DEF Spoken
  <2>3. ASSUME AllAscii(tokens)
        PROVE  shown[i] \o new = Letters(upTo) /\ Len(tokens) - upTo < context
    <3>1. AllAscii(buffer[i])
      BY ONLY <1>2, <2>3, AsciiFront, tokens = Append(buffer[i], token)
    <3>2. shown[i] = Letters(shownUpTo[i])
      BY <1>1, <2>1, <3>1 DEF Spoken
    <3> PICK n \in Nat : n = Len(tokens)
      BY <1>3
    <3> PICK k \in 0 .. n : k = shownUpTo[i]
      BY <1>2, <1>3, <2>1 DEF Spoken
    <3>3. CASE n - k < context
      <4>1. new = <<>>
        BY <3>3 DEF Decoded
      <4>2. upTo = k
        BY <4>1
      <4>3. Letters(k) \o <<>> = Letters(k)
        BY LettersSeq
      <4> QED BY <3>2, <3>3, <4>1, <4>2, <4>3
    <3>4. CASE ~(n - k < context)
      <4>1. new = NewText(tokens, k)
        BY <3>4 DEF Decoded
      <4>2. new = Letters(n - k)
        BY <1>3, <2>3, <4>1, NewTextLetters
      <4>3. n - k \in Nat \ {0}
        BY <1>1, <1>2, <3>4
      <4>4. new # <<>>
        BY <4>2, <4>3, LettersSeq
      <4>5. upTo = n
        BY <4>4
      <4>6. Letters(k) \o Letters(n - k) = Letters(n)
        BY LettersPart
      <4>7. n - n < context
        BY <1>1
      <4> QED BY <3>2, <4>2, <4>5, <4>6, <4>7
    <3> QED BY <3>3, <3>4
  <2> QED
    BY <2>2, <2>3
<1> PICK more : more = shown[i] \o new
  OBVIOUS
<1>6. context # 0
  BY <1>1, <1>2
<1>7. result = "None" =>
        /\ upTo <= Len(tokens)
        /\ AllAscii(tokens) => /\ more = Letters(IF context = 0 THEN Len(tokens) ELSE upTo)
                               /\ context > 0 => Len(tokens) - upTo < context
  BY ONLY <1>5, <1>6, more = shown[i] \o new
<1> QED
  BY <1>1, <1>4, <1>7, TakesToken

LEMMA ProcessAloneKept ==
  ASSUME BatchInv, NEW i \in seqs, ProcessAlone(i) PROVE BatchInv'
<1> PICK tokens : tokens = Append(buffer[i], "Ascii")
  OBVIOUS
<1> PICK more : more = Append(shown[i], <<"Ascii">>)
  OBVIOUS
<1> PICK upTo : upTo = shownUpTo[i]
  OBVIOUS
<1>1. /\ thread[i] = "Up" /\ channel[i] # <<>> /\ context = 0 /\ Head(channel[i]) = "Ascii"
      /\ buffer' = [buffer EXCEPT ![i] = tokens] /\ channel' = [channel EXCEPT ![i] = Tail(@)]
      /\ shown' = [shown EXCEPT ![i] = more]
      /\ UNCHANGED <<context, driverVars, thread, shownUpTo>>
  BY DEF ProcessAlone
<1>2. buffer[i] \in Seq(ByteClasses) /\ shownUpTo \in [seqs -> Nat]
  BY BatchFacts DEF DirectTypes
<1>3. Len(tokens) = Len(buffer[i]) + 1 /\ upTo \in Nat
      /\ shownUpTo' = [shownUpTo EXCEPT ![i] = upTo]
  BY <1>1, <1>2
<1>4. ASSUME result = "None"
      PROVE  /\ upTo <= Len(tokens)
             /\ AllAscii(tokens) => more = Letters(Len(tokens))
  <2>1. Spoken(i)
    BY <1>1, <1>4, BatchFacts DEF Streaming
  <2>2. ASSUME AllAscii(tokens) PROVE more = Letters(Len(tokens))
    <3>1. AllAscii(buffer[i])
      BY ONLY <1>2, <2>2, AsciiFront, tokens = Append(buffer[i], "Ascii")
    <3>2. shown[i] = Letters(Len(buffer[i]))
      BY <1>1, <2>1, <3>1 DEF Spoken
    <3> PICK n \in Nat : n = Len(buffer[i])
      BY <1>2
    <3>3. Letters(n + 1) = Append(Letters(n), <<"Ascii">>)
      BY LettersSeq
    <3> QED BY <1>3, <3>2, <3>3
  <2> QED
    BY <1>2, <1>3, <2>1, <2>2 DEF Spoken
<1> PICK token : token = Head(channel[i])
  OBVIOUS
<1>5. token = Head(channel[i]) /\ tokens = Append(buffer[i], token)
  BY <1>1
<1>7. result = "None" =>
        /\ upTo <= Len(tokens)
        /\ AllAscii(tokens) => /\ more = Letters(IF context = 0 THEN Len(tokens) ELSE upTo)
                               /\ context > 0 => Len(tokens) - upTo < context
  BY ONLY <1>1, <1>4
<1> QED
  BY <1>1, <1>3, <1>5, <1>7, TakesToken

LEMMA MiddleIsIn ==
  ASSUME NEW S, NEW b \in Seq(S), NEW c \in Seq(S), NEW d \in Seq(S), c # <<>>
  PROVE  \E k \in DOMAIN ((b \o c) \o d) : ((b \o c) \o d)[k] = Head(c)
<1> PICK e : e = b \o c
  OBVIOUS
<1> PICK k : k = Len(b) + 1
  OBVIOUS
<1>1. Len(c) \in Nat \ {0} /\ Head(c) = c[1]
  BY EmptySeq
<1>2. e \in Seq(S) /\ k \in 1 .. Len(e) /\ e[k] = c[1]
  BY <1>1
<1>3. k \in DOMAIN (e \o d) /\ (e \o d)[k] = e[k]
  BY <1>2
<1> QED
  BY <1>1, <1>2, <1>3

LEMMA ThreadPanicsKept ==
  ASSUME BatchInv, NEW i \in seqs, ThreadPanics(i) PROVE BatchInv'
<1>1. /\ thread[i] = "Up" /\ channel[i] # <<>> /\ context = 0 /\ Head(channel[i]) # "Ascii"
      /\ thread' = [thread EXCEPT ![i] = "Died"] /\ channel' = [channel EXCEPT ![i] = <<>>]
      /\ UNCHANGED <<context, driverVars, buffer, shownUpTo, shown>>
  BY DEF ThreadPanics
<1>2. /\ DirectTypes /\ channel \in [seqs -> Seq(ByteClasses)]
      /\ buffer \in [seqs -> Seq(ByteClasses)] /\ thread \in [seqs -> {"Up", "Died", "Ended"}]
      /\ generated \in [seqs -> Seq(ByteClasses)]
  BY BatchFacts DEF DirectTypes
<1>3. /\ channel' \in [seqs -> Seq(ByteClasses)] /\ thread' \in [seqs -> {"Up", "Died", "Ended"}]
      /\ thread'[i] = "Died" /\ \A j \in seqs : j # i => channel'[j] = channel[j]
  BY <1>1, <1>2
<1>4. DirectTypes'
  BY <1>1, <1>2, <1>3 DEF DirectTypes, driverVars
<1>5. ASSUME result = "None" PROVE Streaming(i)'
  <2>1. Flows(i)
    BY <1>1, <1>5, BatchFacts DEF Streaming
  <2>2. Due(i) \in Seq(ByteClasses)
    BY DirectAssumption DEF Due
  <2> PICK b \in Seq(ByteClasses), c \in Seq(ByteClasses), d \in Seq(ByteClasses) :
         b = buffer[i] /\ c = channel[i] /\ d = Due(i)
    BY <1>2, <2>2
  <2>4. generated[i] = (b \o c) \o d
    BY <2>1 DEF Flows
  <2>5. PICK k \in DOMAIN generated[i] : generated[i][k] = Head(c)
    <3>1. c # <<>>
      BY <1>1
    <3>2. \E k \in DOMAIN ((b \o c) \o d) : ((b \o c) \o d)[k] = Head(c)
      BY ONLY <3>1, MiddleIsIn, b \in Seq(ByteClasses), c \in Seq(ByteClasses),
              d \in Seq(ByteClasses)
    <3> QED BY ONLY <2>4, <3>2
  <2>8. ~AllWhole
    BY <1>1, <2>5 DEF AllWhole
  <2>9. ~AllWhole'
    BY <1>1, <2>8 DEF AllWhole, driverVars
  <2> QED
    BY <1>1, <1>3, <2>9 DEF Streaming
<1> QED
  BY <1>1, <1>3, <1>4, <1>5, ThreadKeeps

LEMMA ThreadEndsKept ==
  ASSUME BatchInv, NEW i \in seqs, ThreadEnds(i) PROVE BatchInv'
<1>1. /\ thread[i] = "Up" /\ channel[i] = <<>> /\ i \in closed
      /\ thread' = [thread EXCEPT ![i] = "Ended"]
      /\ UNCHANGED <<context, driverVars, channel, buffer, shownUpTo, shown>>
  BY DEF ThreadEnds
<1>2. DirectTypes /\ thread \in [seqs -> {"Up", "Died", "Ended"}]
  BY BatchFacts DEF DirectTypes
<1>3. thread' \in [seqs -> {"Up", "Died", "Ended"}] /\ thread'[i] = "Ended"
  BY <1>1, <1>2
<1>4. DirectTypes'
  BY <1>1, <1>2, <1>3 DEF DirectTypes, driverVars
<1>5. ASSUME result = "None" PROVE Streaming(i)'
  <2>1. Flows(i) /\ Spoken(i)
    BY <1>1, <1>5, BatchFacts DEF Streaming
  <2>2. Due(i)' = Due(i)
    BY <1>1 DEF Due, Turn, driverVars
  <2>3. Flows(i)' /\ Spoken(i)'
    BY <1>1, <2>1, <2>2 DEF Flows, Spoken, driverVars
  <2> QED
    BY <1>1, <1>3, <2>3 DEF Streaming, driverVars
<1> QED
  BY <1>1, <1>4, <1>5, ThreadKeeps

(* The driver: the threads stand still.                                    *)
DriverStep == UNCHANGED <<context, seqs, threadVars>>

LEMMA DriverKeeps ==
  ASSUME BatchInv, DriverStep, DirectTypes', DriverOK', BatchOver', ~AllWhole => ~AllWhole',
         closed \subseteq closed', result' \in {"None", "Ok"} => result = "None",
         \A j \in seqs : thread[j] = "Ended" => channel'[j] = channel[j],
         \A j \in seqs : result' \in {"None", "Ok"} /\ thread[j] # "Died" /\ Flows(j) => Flows(j)'
  PROVE  BatchInv'
<1>1. /\ context' = context /\ seqs' = seqs /\ thread' = thread /\ buffer' = buffer
      /\ shownUpTo' = shownUpTo /\ shown' = shown
  BY DEF DriverStep, threadVars
<1>2. ASSUME result' \in {"None", "Ok"}, NEW j \in seqs PROVE Streaming(j)'
  <2>1. Streaming(j)
    BY <1>2, BatchFacts
  <2>2. thread[j] # "Died" => Flows(j)'
    BY <1>2, <2>1 DEF Streaming
  <2>3. Spoken(j) => Spoken(j)'
    BY <1>1 DEF Spoken
  <2> QED
    BY <1>1, <2>1, <2>2, <2>3 DEF Streaming
<1> QED
  BY <1>1, <1>2 DEF BatchInv

LEMMA NothingDue ==
  ASSUME DirectTypes, phase # "Updating" \/ outcomes = <<>>, NEW j \in seqs
  PROVE  Due(j) = <<>>
<1>1. CASE phase # "Updating"
  BY <1>1 DEF Due
<1>2. CASE outcomes = <<>>
  <2>1. Len(outcomes) = 0 /\ j \in 1 .. Cardinality(seqs) /\ Cardinality(seqs) \in Nat
    BY <1>2 DEF DirectTypes
  <2>2. ~(Turn(j) >= 1)
    BY <2>1 DEF Turn
  <2> QED BY <2>2 DEF Due
<1> QED
  BY <1>1, <1>2

LEMMA HereIn ==
  ASSUME DirectTypes, outcomes # <<>>
  PROVE  Here \in seqs /\ Turn(Here) = 1
<1>1. Len(outcomes) \in 1 .. Cardinality(seqs) /\ Cardinality(seqs) \in Nat
      /\ seqs = 1 .. Cardinality(seqs)
  BY EmptySeq DEF DirectTypes
<1> QED
  BY <1>1 DEF Here, Turn

LEMMA ClosedIs ==
  ASSUME DirectTypes, DriverOK, phase = "Finishing"
  PROVE  \E k \in 0 .. Cardinality(seqs) :
           /\ closed = 1 .. k /\ Cardinality(closed) = k /\ (closed = {} <=> k = 0)
           /\ (k # 0 => Finishing = k) /\ \A j \in 1 .. k - 1 : thread[j] = "Ended"
<1>1. PICK k \in 0 .. Cardinality(seqs) :
        closed = 1 .. k /\ \A j \in 1 .. k - 1 : thread[j] = "Ended"
  BY DEF DriverOK
<1>2. k \in Nat /\ Cardinality(seqs) \in Nat
  BY DEF DirectTypes
<1>3. Cardinality(1 .. k) = k /\ (1 .. k = {} <=> k = 0)
  <2>1. Cardinality(1 .. k) = IF 1 > k THEN 0 ELSE k - 1 + 1
    BY <1>2, FS_Interval
  <2>2. k # 0 => 1 \in 1 .. k
    BY <1>2
  <2>3. k = 0 => 1 .. k = {}
    OBVIOUS
  <2> QED BY ONLY <1>2, <2>1, <2>2, <2>3, k \in 0 .. Cardinality(seqs)
<1>4. k # 0 => Finishing = k
  BY <1>1, <1>3 DEF Finishing
<1> QED
  BY <1>1, <1>3, <1>4

LEMMA PanicsKept ==
  ASSUME BatchInv, DriverStep, Panics,
         Cardinality(seqs) > Lanes \/ (context = 0 /\ ~AllWhole)
  PROVE  BatchInv'
<1>1. /\ result' = "Panicked" /\ phase' = "Returned" /\ closed' = seqs
      /\ UNCHANGED <<generated, rounds, finished, lanes, outcomes, channel>>
      /\ UNCHANGED <<context, seqs, thread, buffer, shownUpTo, shown>>
  BY DEF Panics, Return, DriverStep, threadVars
<1>2. DirectTypes'
  BY <1>1, BatchFacts DEF DirectTypes
<1>3. DriverOK' /\ BatchOver'
  BY <1>1 DEF DriverOK, BatchOver, AllWhole
<1> QED
  BY <1>1, <1>2, <1>3 DEF BatchInv

LEMMA AnyPanicKept ==
  ASSUME BatchInv, TooMany \/ UpdatePanics \/ JoinPanics PROVE BatchInv'
<1>1. DriverStep /\ Panics
  BY DEF TooMany, UpdatePanics, JoinPanics, DriverStep
<1>2. DirectTypes /\ DriverOK /\ (result = "None" => \A j \in seqs : Streaming(j))
  BY BatchFacts
<1>3. CASE TooMany
  <2>1. Cardinality(seqs) > Lanes
    BY <1>3 DEF TooMany
  <2> QED BY <1>1, <2>1, PanicsKept
<1>4. CASE UpdatePanics
  <2>1. Here \in seqs /\ thread[Here] = "Died" /\ result = "None"
    BY <1>2, <1>4, HereIn DEF UpdatePanics, DriverOK, DirectTypes
  <2>2. context = 0 /\ ~AllWhole
    BY <1>2, <2>1 DEF Streaming
  <2> QED BY <1>1, <2>2, PanicsKept
<1>5. CASE JoinPanics
  <2>1. phase = "Finishing" /\ closed # {} /\ thread[Finishing] = "Died" /\ result = "None"
    BY <1>2, <1>5 DEF JoinPanics, DriverOK, DirectTypes
  <2>2. PICK k \in 0 .. Cardinality(seqs) : k # 0 /\ Finishing = k
    BY <1>2, <2>1, ClosedIs
  <2>3. Finishing \in seqs
    BY <1>2, <2>2 DEF DirectTypes
  <2>4. context = 0 /\ ~AllWhole
    BY <1>2, <2>1, <2>3 DEF Streaming
  <2> QED BY <1>1, <2>4, PanicsKept
<1> QED
  BY <1>3, <1>4, <1>5

LEMMA BatchBeginKept == ASSUME BatchInv, Begin PROVE BatchInv'
<1>1. /\ phase = "Start" /\ lanes' = {} /\ phase' = "Rounds" /\ DriverStep
      /\ UNCHANGED <<generated, rounds, finished, outcomes, closed, result, channel>>
      /\ UNCHANGED <<context, seqs, thread, buffer, shownUpTo, shown>>
  BY DEF Begin, DriverStep, threadVars
<1>2. DirectTypes /\ DriverOK /\ BatchOver
  BY BatchFacts
<1>3. DirectTypes'
  BY <1>1, <1>2 DEF DirectTypes
<1>4. DriverOK' /\ BatchOver'
  BY <1>1, <1>2 DEF DriverOK, BatchOver, AllWhole
<1>5. ASSUME NEW j \in seqs PROVE Flows(j) => Flows(j)'
  <2>1. Due(j) = <<>> /\ Due(j)' = <<>>
    BY <1>1 DEF Due
  <2> QED BY <1>1, <2>1 DEF Flows
<1>6. result = "None" /\ (~AllWhole => ~AllWhole')
  BY <1>1, <1>2 DEF DriverOK, DirectTypes, AllWhole
<1> QED
  BY <1>1, <1>3, <1>4, <1>5, <1>6, DriverKeeps

LEMMA CompleteKept == ASSUME BatchInv, Complete PROVE BatchInv'
<1>1. /\ phase = "Rounds" /\ lanes' = LanesReleased /\ phase' = "Finishing" /\ DriverStep
      /\ UNCHANGED <<generated, rounds, finished, outcomes, closed, result, channel>>
      /\ UNCHANGED <<context, seqs, thread, buffer, shownUpTo, shown>>
  BY DEF Complete, DriverStep, threadVars
<1>2. DirectTypes /\ DriverOK /\ BatchOver
  BY BatchFacts
<1>3. lanes' = {}
  BY <1>1, <1>2 DEF LanesReleased, DirectTypes
<1>4. DirectTypes'
  BY <1>1, <1>2, <1>3 DEF DirectTypes
<1>5. DriverOK' /\ BatchOver'
  <2>1. closed = 1 .. 0 /\ 0 \in 0 .. Cardinality(seqs) /\ \A j \in 1 .. 0 - 1 : thread[j] = "Ended"
    BY <1>1, <1>2 DEF DriverOK, DirectTypes
  <2> QED
    BY <1>1, <1>2, <1>3, <2>1 DEF DriverOK, BatchOver, AllWhole
<1>6. ASSUME NEW j \in seqs PROVE Flows(j) => Flows(j)'
  <2>1. Due(j) = <<>> /\ Due(j)' = <<>>
    BY <1>1 DEF Due
  <2> QED BY <1>1, <2>1 DEF Flows
<1>7. result = "None" /\ (~AllWhole => ~AllWhole')
  BY <1>1, <1>2 DEF DriverOK, DirectTypes, AllWhole
<1> QED
  BY <1>1, <1>4, <1>5, <1>6, <1>7, DriverKeeps

LEMMA EndRoundKept == ASSUME BatchInv, EndRound PROVE BatchInv'
<1>1. /\ phase = "Updating" /\ outcomes = <<>> /\ phase' = "Rounds" /\ DriverStep
      /\ UNCHANGED <<generated, rounds, finished, lanes, outcomes, closed, result, channel>>
      /\ UNCHANGED <<context, seqs, thread, buffer, shownUpTo, shown>>
  BY DEF EndRound, DriverStep, threadVars
<1>2. DirectTypes /\ DriverOK /\ BatchOver
  BY BatchFacts
<1>3. DirectTypes'
  BY <1>1, <1>2 DEF DirectTypes
<1>4. DriverOK' /\ BatchOver'
  BY <1>1, <1>2 DEF DriverOK, BatchOver, AllWhole
<1>5. ASSUME NEW j \in seqs PROVE Flows(j) => Flows(j)'
  <2>1. Due(j) = <<>>
    BY <1>1, <1>2, NothingDue
  <2>2. Due(j)' = <<>>
    BY <1>1 DEF Due
  <2> QED BY <1>1, <2>1, <2>2 DEF Flows
<1>6. result = "None" /\ (~AllWhole => ~AllWhole')
  BY <1>1, <1>2 DEF DriverOK, DirectTypes, AllWhole
<1> QED
  BY <1>1, <1>3, <1>4, <1>5, <1>6, DriverKeeps

LEMMA FailKept == ASSUME BatchInv, Fail PROVE BatchInv'
<1>1. /\ phase = "Updating" /\ lanes' = LanesReleased /\ closed' = seqs
      /\ result' = "Err" /\ phase' = "Returned"
      /\ UNCHANGED <<generated, rounds, finished, outcomes, channel>>
      /\ UNCHANGED <<context, seqs, thread, buffer, shownUpTo, shown>>
  BY DEF Fail, Return, threadVars
<1>2. DirectTypes /\ DriverOK /\ BatchOver
  BY BatchFacts
<1>3. lanes' = {}
  BY <1>1, <1>2 DEF LanesReleased, DirectTypes
<1>4. DirectTypes'
  BY <1>1, <1>2, <1>3 DEF DirectTypes
<1>5. DriverOK' /\ BatchOver'
  BY <1>1, <1>3 DEF DriverOK, BatchOver
<1> QED
  BY <1>1, <1>4, <1>5 DEF BatchInv

LEMMA CloseChannelKept == ASSUME BatchInv, CloseChannel PROVE BatchInv'
<1>1. /\ phase = "Finishing"
      /\ closed = {} \/ (thread[Finishing] = "Ended" /\ closed # seqs)
      /\ closed' = closed \cup {Cardinality(closed) + 1} /\ DriverStep
      /\ UNCHANGED <<phase, generated, rounds, finished, lanes, outcomes, result, channel>>
      /\ UNCHANGED <<context, seqs, thread, buffer, shownUpTo, shown>>
  BY DEF CloseChannel, DriverStep, threadVars
<1>2. DirectTypes /\ DriverOK /\ BatchOver
  BY BatchFacts
<1> PICK n \in Nat \ {0} : n = Cardinality(seqs)
  BY <1>2 DEF DirectTypes
<1>3. seqs = 1 .. n
  BY <1>2 DEF DirectTypes
<1>4. PICK k \in 0 .. n :
        /\ closed = 1 .. k /\ Cardinality(closed) = k /\ (closed = {} <=> k = 0)
        /\ (k # 0 => Finishing = k) /\ \A j \in 1 .. k - 1 : thread[j] = "Ended"
  BY <1>1, <1>2, ClosedIs
<1> PICK m : m = k + 1
  OBVIOUS
<1>5. k # n
  BY <1>1, <1>3, <1>4
<1>6. m \in 0 .. n /\ closed' = 1 .. m
  BY <1>1, <1>4, <1>5
<1>7. \A j \in 1 .. m - 1 : thread[j] = "Ended"
  <2> TAKE j \in 1 .. m - 1
  <2>1. j \in 1 .. k - 1 \/ (j = k /\ k # 0)
    OBVIOUS
  <2>2. k # 0 => thread[k] = "Ended"
    BY <1>1, <1>4
  <2> QED BY <1>4, <2>1, <2>2
<1>8. DirectTypes'
  <2>1. ASSUME NEW e \in 1 .. m PROVE e \in 1 .. n
    <3>1. m \in 0 .. n
      BY <1>6
    <3> QED BY ONLY <3>1, n \in Nat \ {0}, e \in 1 .. m
  <2>2. closed' \subseteq seqs
    BY <1>3, <1>6, <2>1
  <2> QED BY <1>1, <1>2, <2>2 DEF DirectTypes
<1>9. DriverOK' /\ BatchOver'
  BY <1>1, <1>2, <1>6, <1>7 DEF DriverOK, BatchOver, AllWhole
<1>10. ASSUME NEW j \in seqs PROVE Flows(j) => Flows(j)'
  <2>1. Due(j) = <<>> /\ Due(j)' = <<>>
    BY <1>1 DEF Due
  <2> QED BY <1>1, <2>1 DEF Flows
<1>11. result = "None" /\ (~AllWhole => ~AllWhole')
  BY <1>1, <1>2 DEF DriverOK, DirectTypes, AllWhole
<1> QED
  BY <1>1, <1>8, <1>9, <1>10, <1>11, DriverKeeps

LEMMA SucceedKept == ASSUME BatchInv, Succeed PROVE BatchInv'
<1>1. /\ phase = "Finishing" /\ closed = seqs /\ thread[Finishing] = "Ended"
      /\ result' = "Ok" /\ phase' = "Returned" /\ DriverStep
      /\ UNCHANGED <<generated, rounds, finished, lanes, outcomes, closed, channel>>
      /\ UNCHANGED <<context, seqs, thread, buffer, shownUpTo, shown>>
  BY DEF Succeed, Joined, Return, DriverStep, threadVars
<1>2. DirectTypes /\ DriverOK /\ BatchOver
  BY BatchFacts
<1> PICK n \in Nat \ {0} : n = Cardinality(seqs)
  BY <1>2 DEF DirectTypes
<1>3. seqs = 1 .. n
  BY <1>2 DEF DirectTypes
<1>4. PICK k \in 0 .. n :
        /\ closed = 1 .. k /\ (k # 0 => Finishing = k) /\ \A j \in 1 .. k - 1 : thread[j] = "Ended"
  BY <1>1, <1>2, ClosedIs
<1>5. k = n
  BY <1>1, <1>3, <1>4
<1>6. \A j \in seqs : thread[j] = "Ended"
  <2> TAKE j \in seqs
  <2>1. j \in 1 .. k - 1 \/ j = k
    BY <1>3, <1>5
  <2> QED BY <1>1, <1>4, <1>5, <2>1
<1>7. DirectTypes'
  BY <1>1, <1>2 DEF DirectTypes
<1>8. DriverOK' /\ BatchOver'
  BY <1>1, <1>2, <1>6 DEF DriverOK, BatchOver
<1>9. ASSUME NEW j \in seqs PROVE Flows(j) => Flows(j)'
  <2>1. Due(j) = <<>> /\ Due(j)' = <<>>
    BY <1>1 DEF Due
  <2> QED BY <1>1, <2>1 DEF Flows
<1>10. result = "None" /\ (~AllWhole => ~AllWhole')
  BY <1>1, <1>2 DEF DriverOK, DirectTypes, AllWhole
<1> QED
  BY <1>1, <1>7, <1>8, <1>9, <1>10, DriverKeeps

LEMMA TurnsPass ==
  ASSUME DirectTypes, outcomes # <<>>, phase = "Updating", UNCHANGED <<phase, seqs>>,
         outcomes' = Tail(outcomes), NEW j \in seqs
  PROVE  /\ j # Here => Due(j)' = Due(j)
         /\ j = Here => /\ Due(j)' = <<>>
                        /\ Due(j) = IF Head(outcomes) \in Vocabulary THEN <<Head(outcomes)>> ELSE <<>>
<1> PICK n \in Nat \ {0} : n = Cardinality(seqs)
  BY DEF DirectTypes
<1> PICK s \in Seq(StepOutcomes) : s = outcomes
  BY DEF DirectTypes
<1>1. j \in 1 .. n /\ Len(s) \in 1 .. n /\ Head(s) = s[1]
  BY EmptySeq DEF DirectTypes
<1> PICK k \in Int : k = Len(s) - n + j
  BY <1>1
<1>2. k <= Len(s) /\ (k = 1 <=> j = Here) /\ Turn(j) = k
  BY <1>1 DEF Here, Turn
<1>3. Turn(j)' = k - 1 /\ Len(Tail(s)) = Len(s) - 1
  <2>1. Len(Tail(s)) = Len(s) - 1
    BY <1>1
  <2>2. Turn(j)' = Len(Tail(s)) - n + j
    BY DEF Turn
  <2> QED BY ONLY <1>1, <2>1, <2>2, k = Len(s) - n + j, n \in Nat
<1>4. CASE k = 1
  <2>1. ~(Turn(j)' >= 1)
    BY <1>3, <1>4
  <2>2. Due(j)' = <<>>
    BY <2>1 DEF Due
  <2>3. Due(j) = IF s[1] \in Vocabulary THEN <<s[1]>> ELSE <<>>
    BY <1>2, <1>4 DEF Due
  <2> QED BY <1>1, <1>2, <1>4, <2>2, <2>3
<1>5. CASE k >= 2
  <2>1. k - 1 \in 1 .. Len(Tail(s)) /\ Tail(s)[k - 1] = s[k]
    BY <1>1, <1>2, <1>3, <1>5
  <2> PICK l : l = k - 1
    OBVIOUS
  <2>2. Turn(j)' = l /\ l >= 1 /\ outcomes'[l] = s[k] /\ phase' = "Updating"
    BY <1>3, <1>5, <2>1
  <2>3. Due(j)' = IF s[k] \in Vocabulary THEN <<s[k]>> ELSE <<>>
    BY ONLY <2>2 DEF Due
  <2>4. Due(j) = IF s[k] \in Vocabulary THEN <<s[k]>> ELSE <<>>
    BY <1>2, <1>5 DEF Due
  <2> QED BY <1>2, <1>5, <2>3, <2>4
<1>6. CASE k <= 0
  <2>1. ~(Turn(j)' >= 1) /\ ~(Turn(j) >= 1) /\ j # Here
    BY <1>2, <1>3, <1>6
  <2>2. Due(j)' = <<>> /\ Due(j) = <<>>
    BY <2>1 DEF Due
  <2> QED BY <2>1, <2>2
<1> QED
  BY <1>4, <1>5, <1>6

LEMMA PassOverKept == ASSUME BatchInv, PassOver PROVE BatchInv'
<1>1. /\ phase = "Updating" /\ outcomes # <<>> /\ Head(outcomes) \in {"Skipped", "Stop"}
      /\ outcomes' = Tail(outcomes) /\ DriverStep
      /\ UNCHANGED <<phase, generated, rounds, finished, lanes, closed, result, channel>>
      /\ UNCHANGED <<context, seqs, thread, buffer, shownUpTo, shown>>
  BY DEF PassOver, Next1, DriverStep, threadVars
<1>2. DirectTypes /\ DriverOK /\ BatchOver
  BY BatchFacts
<1>3. DirectTypes'
  <2>1. outcomes \in Seq(StepOutcomes) /\ Len(outcomes) <= Cardinality(seqs)
        /\ Cardinality(seqs) \in Nat
    BY <1>2 DEF DirectTypes
  <2>2. outcomes' \in Seq(StepOutcomes) /\ Len(outcomes') <= Cardinality(seqs)
    BY <1>1, <2>1
  <2> QED BY <1>1, <1>2, <2>2 DEF DirectTypes
<1>4. DriverOK' /\ BatchOver'
  BY <1>1, <1>2 DEF DriverOK, BatchOver, AllWhole
<1>5. ASSUME NEW j \in seqs PROVE Flows(j) => Flows(j)'
  <2>1. Head(outcomes) \notin Vocabulary
    BY <1>1, DirectAssumption DEF ByteClasses, Continuation
  <2>2. Due(j)' = Due(j)
    BY <1>1, <1>2, <2>1, TurnsPass
  <2> QED BY <1>1, <2>2 DEF Flows
<1>6. result = "None" /\ (~AllWhole => ~AllWhole')
  BY <1>1, <1>2 DEF DriverOK, DirectTypes, AllWhole
<1> QED
  BY <1>1, <1>3, <1>4, <1>5, <1>6, DriverKeeps

LEMMA GoesIn ==
  ASSUME NEW S, NEW b \in Seq(S), NEW c \in Seq(S), NEW x \in S
  PROVE  (b \o c) \o <<x>> = (b \o Append(c, x)) \o <<>>
<1>1. Append(c, x) = c \o <<x>>
  BY AppendIsConcat
<1>2. (b \o c) \o <<x>> = b \o (c \o <<x>>)
  BY ConcatAssociative
<1>3. b \o Append(c, x) \in Seq(S)
  OBVIOUS
<1>4. (b \o Append(c, x)) \o <<>> = b \o Append(c, x)
  BY <1>3, ConcatEmptySeq
<1> QED
  BY <1>1, <1>2, <1>4

LEMMA UpdateKept == ASSUME BatchInv, Update PROVE BatchInv'
<1>1. /\ phase = "Updating" /\ outcomes # <<>> /\ Head(outcomes) \in Vocabulary
      /\ thread[Here] = "Up" /\ channel' = [channel EXCEPT ![Here] = Append(@, Head(outcomes))]
      /\ outcomes' = Tail(outcomes) /\ DriverStep
      /\ UNCHANGED <<phase, generated, rounds, finished, lanes, closed, result>>
      /\ UNCHANGED <<context, seqs, thread, buffer, shownUpTo, shown>>
  BY DEF Update, Next1, DriverStep, threadVars
<1>2. DirectTypes /\ DriverOK /\ BatchOver
  BY BatchFacts
<1> PICK here \in seqs : here = Here
  BY <1>1, <1>2, HereIn
<1> PICK x \in ByteClasses : x = Head(outcomes)
  BY <1>1, DirectAssumption
<1>3. channel \in [seqs -> Seq(ByteClasses)] /\ buffer \in [seqs -> Seq(ByteClasses)]
  BY <1>2 DEF DirectTypes
<1>4. /\ channel' \in [seqs -> Seq(ByteClasses)] /\ channel'[here] = Append(channel[here], x)
      /\ \A j \in seqs : j # here => channel'[j] = channel[j]
  BY <1>1, <1>3
<1>5. DirectTypes'
  <2>1. outcomes \in Seq(StepOutcomes) /\ Len(outcomes) <= Cardinality(seqs)
        /\ Cardinality(seqs) \in Nat
    BY <1>2 DEF DirectTypes
  <2>2. outcomes' \in Seq(StepOutcomes) /\ Len(outcomes') <= Cardinality(seqs)
    BY <1>1, <2>1
  <2> QED BY <1>1, <1>2, <1>4, <2>2 DEF DirectTypes
<1>6. DriverOK' /\ BatchOver'
  BY <1>1, <1>2 DEF DriverOK, BatchOver, AllWhole
<1>7. ASSUME NEW j \in seqs, Flows(j) PROVE Flows(j)'
  <2>1. CASE j # here
    <3>1. Due(j)' = Due(j)
      BY <1>1, <1>2, <2>1, TurnsPass
    <3> QED BY <1>1, <1>4, <1>7, <2>1, <3>1 DEF Flows
  <2>2. CASE j = here
    <3>1. Due(j)' = <<>> /\ Due(j) = <<x>>
      BY <1>1, <1>2, <2>2, TurnsPass
    <3>2. generated[j] = (buffer[j] \o channel[j]) \o <<x>>
      BY <1>7, <3>1 DEF Flows
    <3>3. generated[j] = (buffer[j] \o Append(channel[j], x)) \o <<>>
      <4> PICK b \in Seq(ByteClasses), c \in Seq(ByteClasses) : b = buffer[j] /\ c = channel[j]
        BY <1>3
      <4>1. (b \o c) \o <<x>> = (b \o Append(c, x)) \o <<>>
        BY ONLY GoesIn, b \in Seq(ByteClasses), c \in Seq(ByteClasses), x \in ByteClasses
      <4> QED BY ONLY <3>2, <4>1, b = buffer[j], c = channel[j]
    <3> QED BY <1>1, <1>4, <2>2, <3>1, <3>3 DEF Flows
  <2> QED BY <2>1, <2>2
<1>8. \A j \in seqs : thread[j] = "Ended" => channel'[j] = channel[j]
  BY <1>1, <1>4
<1>9. result = "None" /\ (~AllWhole => ~AllWhole')
  BY <1>1, <1>2 DEF DriverOK, DirectTypes, AllWhole
<1> QED
  BY <1>1, <1>5, <1>6, <1>7, <1>8, <1>9, DriverKeeps

LEMMA RoundKept == ASSUME BatchInv, Round PROVE BatchInv'
<1>1. PICK o \in [seqs \ finished -> Vocabulary \cup {"Stop", "Failed"}] :
        /\ outcomes' = [i \in seqs |-> IF i \in finished THEN "Skipped" ELSE o[i]]
        /\ generated' = [i \in seqs |-> IF i \in finished \/ o[i] \notin Vocabulary
                                        THEN generated[i] ELSE Append(generated[i], o[i])]
        /\ finished' \subseteq seqs
  BY DEF Round
<1>2. /\ phase = "Rounds" /\ lanes' = seqs /\ phase' = "Updating" /\ DriverStep
      /\ UNCHANGED <<closed, result, channel>>
      /\ UNCHANGED <<context, seqs, thread, buffer, shownUpTo, shown>>
  BY DEF Round, DriverStep, threadVars
<1>3. DirectTypes /\ DriverOK /\ BatchOver
  BY BatchFacts
<1> PICK n \in Nat \ {0} : n = Cardinality(seqs)
  BY <1>3 DEF DirectTypes
<1>4. seqs = 1 .. n /\ generated \in [seqs -> Seq(ByteClasses)]
  BY <1>3 DEF DirectTypes
<1>5. outcomes' \in Seq(StepOutcomes) /\ Len(outcomes') = n
  <2>1. \A i \in seqs : outcomes'[i] \in StepOutcomes
    BY <1>1, DirectAssumption DEF StepOutcomes
  <2>2. outcomes' \in [1 .. n -> StepOutcomes]
    BY <1>1, <1>4, <2>1
  <2> QED BY <2>2
<1>6. ASSUME NEW j \in seqs
      PROVE  /\ generated'[j] = generated[j] \o Due(j)' /\ generated'[j] \in Seq(ByteClasses)
             /\ Due(j) = <<>>
  <2>1. Turn(j)' = j /\ j >= 1
    <3>1. Turn(j)' = Len(outcomes') - n + j
      BY <1>2 DEF Turn
    <3>2. j \in 1 .. n
      BY <1>4
    <3> QED BY ONLY <1>5, <3>1, <3>2, n \in Nat \ {0}
  <2>2. Due(j)' = IF outcomes'[j] \in Vocabulary THEN <<outcomes'[j]>> ELSE <<>>
    BY <1>2, <2>1 DEF Due
  <2>3. generated[j] \in Seq(ByteClasses)
    BY <1>4
  <2>4. CASE j \in finished \/ o[j] \notin Vocabulary
    <3>1. outcomes'[j] \notin Vocabulary
      BY <1>1, <2>4, DirectAssumption DEF ByteClasses, Continuation
    <3>2. generated'[j] = generated[j]
      BY <1>1, <2>4
    <3>3. Due(j)' = <<>> /\ Due(j) = <<>>
      BY <1>2, <2>2, <3>1 DEF Due
    <3>4. generated[j] \o <<>> = generated[j]
      BY <2>3, ConcatEmptySeq
    <3> QED BY <2>3, <3>2, <3>3, <3>4
  <2>5. CASE ~(j \in finished \/ o[j] \notin Vocabulary)
    <3>1. outcomes'[j] = o[j] /\ o[j] \in Vocabulary /\ o[j] \in ByteClasses
      BY <1>1, <2>5, DirectAssumption
    <3>2. generated'[j] = Append(generated[j], o[j])
      BY <1>1, <2>5
    <3>3. Append(generated[j], o[j]) = generated[j] \o <<o[j]>>
          /\ Append(generated[j], o[j]) \in Seq(ByteClasses)
      BY <2>3, <3>1, AppendIsConcat
    <3> QED BY <1>2, <2>2, <3>1, <3>2, <3>3 DEF Due
  <2> QED BY <2>4, <2>5
<1>7. generated' \in [seqs -> Seq(ByteClasses)]
  BY <1>1, <1>6
<1>8. DirectTypes'
  BY <1>1, <1>2, <1>3, <1>5, <1>7 DEF DirectTypes
<1>9. result = "None"
  BY <1>2, <1>3 DEF DriverOK, DirectTypes
<1>10. DriverOK' /\ BatchOver'
  BY <1>2, <1>3, <1>9 DEF DriverOK, BatchOver
<1>11. ASSUME NEW j \in seqs, Flows(j) PROVE Flows(j)'
  <2>1. generated[j] = (buffer[j] \o channel[j]) \o <<>>
    BY <1>6, <1>11 DEF Flows
  <2>2. buffer[j] \o channel[j] \in Seq(ByteClasses)
    BY <1>3 DEF DirectTypes
  <2>3. generated[j] = buffer[j] \o channel[j]
    BY ONLY <2>1, <2>2, ConcatEmptySeq
  <2> QED BY <1>2, <1>6, <2>3 DEF Flows
<1>12. ~AllWhole => ~AllWhole'
  <2> SUFFICES ASSUME NEW i \in seqs, NEW k \in DOMAIN generated[i], generated[i][k] # "Ascii"
               PROVE  ~AllWhole'
    BY DEF AllWhole
  <2>1. generated[i] \in Seq(ByteClasses)
    BY <1>4
  <2>2. generated'[i] = generated[i] \/ generated'[i] = Append(generated[i], o[i])
    BY <1>1
  <2> PICK was \in Seq(ByteClasses) : was = generated[i]
    BY <2>1
  <2>4. \A x : k \in DOMAIN Append(was, x) /\ Append(was, x)[k] = was[k]
    BY ONLY k \in DOMAIN generated[i], was = generated[i], was \in Seq(ByteClasses)
  <2>3. k \in DOMAIN generated'[i] /\ generated'[i][k] = generated[i][k]
    BY ONLY <2>2, <2>4, k \in DOMAIN generated[i], was = generated[i]
  <2> QED BY <1>2, <2>3 DEF AllWhole
<1> QED
  BY <1>2, <1>8, <1>9, <1>10, <1>11, <1>12, DriverKeeps

LEMMA BatchInvKept ==
  ASSUME BatchInv, [DirectNext]_directVars PROVE BatchInv'
<1>1. CASE Driver
  BY <1>1, AnyPanicKept, BatchBeginKept, RoundKept, UpdateKept, PassOverKept, EndRoundKept, FailKept,
     CompleteKept, CloseChannelKept, SucceedKept DEF Driver
<1>2. ASSUME NEW i \in seqs, DecodeThread(i) PROVE BatchInv'
  BY <1>2, ProcessKept, ProcessAloneKept, ThreadPanicsKept, ThreadEndsKept DEF DecodeThread
<1>3. CASE UNCHANGED directVars
  <2>1. /\ UNCHANGED <<context, seqs, phase, generated, finished, lanes, outcomes, closed, result>>
        /\ UNCHANGED <<channel, thread, buffer, shownUpTo, shown>>
    BY <1>3 DEF directVars, driverVars, threadVars
  <2>2. DirectTypes' /\ DriverOK' /\ BatchOver'
    BY <2>1, BatchFacts DEF DirectTypes, DriverOK, BatchOver, AllWhole
  <2>3. ASSUME NEW j \in seqs PROVE Streaming(j) => Streaming(j)'
    <3>1. Due(j)' = Due(j) /\ AllWhole' = AllWhole
      BY <2>1 DEF Due, Turn, AllWhole
    <3> QED BY <2>1, <3>1 DEF Streaming, Flows, Spoken
  <2> QED
    BY <2>1, <2>2, <2>3, BatchFacts DEF BatchInv
<1> QED
  BY <1>1, <1>2, <1>3 DEF DirectNext

LEMMA BatchReturns == BatchInv => ReturnsComplete
<1> SUFFICES ASSUME BatchInv PROVE ReturnsComplete
  OBVIOUS
<1>1. DirectTypes /\ DriverOK /\ BatchOver
      /\ (result = "Ok" => \A j \in seqs : Streaming(j))
  BY BatchFacts
<1>2. PanicsForACause
  BY <1>1 DEF PanicsForACause, BatchOver
<1>3. result \in {"Ok", "Err"} => lanes = {}
  BY <1>1 DEF BatchOver
<1>4. ASSUME result = "Ok", NEW i \in seqs
      PROVE  buffer[i] = generated[i] /\ Spoken(i)
  <2>1. thread[i] = "Ended" /\ Streaming(i)
    BY <1>1, <1>4 DEF BatchOver
  <2>2. channel[i] = <<>> /\ Flows(i) /\ Spoken(i)
    BY <2>1 DEF Streaming
  <2>3. Due(i) = <<>>
    BY <1>1, <1>4, NothingDue DEF DriverOK
  <2>4. buffer[i] \in Seq(ByteClasses)
    BY <1>1 DEF DirectTypes
  <2>5. (buffer[i] \o <<>>) \o <<>> = buffer[i]
    BY <2>4, ConcatEmptySeq
  <2> QED BY <2>2, <2>3, <2>5 DEF Flows
<1>5. ASSUME result = "Ok", AllWhole, NEW i \in seqs
      PROVE  /\ IsPrefix(shown[i], Decode(generated[i]))
             /\ Len(generated[i]) - Len(shown[i]) < (IF context = 0 THEN 1 ELSE context)
  <2>1. buffer[i] = generated[i] /\ Spoken(i)
    BY <1>4, <1>5
  <2>2. generated[i] \in Seq(ByteClasses) /\ AllAscii(generated[i]) /\ context \in Nat
        /\ shownUpTo[i] \in Nat
    BY <1>1, <1>5 DEF DirectTypes, AllWhole, AllAscii
  <2> PICK n \in Nat : n = Len(generated[i])
    BY <2>2
  <2> PICK k \in 0 .. n : k = IF context = 0 THEN n ELSE shownUpTo[i]
    BY <2>1, <2>2 DEF Spoken
  <2>3. Decode(generated[i]) = Letters(n)
    BY <2>2, DecodeLetters
  <2>4. shown[i] = Letters(k)
    BY <2>1, <2>2 DEF Spoken
  <2>5. Len(Letters(n)) = n /\ Len(Letters(k)) = k
    <3>1. \A h \in Nat : Len(Letters(h)) = h
      BY LettersSeq
    <3>2. k \in Nat
      BY ONLY n \in Nat, k \in 0 .. n
    <3> QED BY ONLY <3>1, <3>2, n \in Nat
  <2>6. SubSeq(Letters(n), 1, k) = Letters(k)
    BY LettersPart
  <2>7. SubSeq(Letters(k), 1, k) = Letters(k)
    <3>1. k \in Nat /\ k \in 0 .. k
      OBVIOUS
    <3> QED BY ONLY <3>1, LettersPart
  <2>8. IsPrefix(Letters(k), Letters(n))
    BY <2>5, <2>6, <2>7 DEF IsPrefix
  <2>9. n - k < (IF context = 0 THEN 1 ELSE context)
    BY <2>1, <2>2 DEF Spoken
  <2> QED BY <2>3, <2>4, <2>5, <2>8, <2>9
<1> QED
  BY <1>2, <1>3, <1>4, <1>5 DEF ReturnsComplete

(* Whatever the model produces and however the decode threads fall behind, *)
(* a batch that returns has freed its slots; a success has put every token *)
(* through its decode thread and emitted the text but for what a context   *)
(* holds back; and a panic has a cause (generate_batch, push_tokens).      *)
THEOREM BatchAlwaysComplete == DirectSpec => []ReturnsComplete
<1>1. BatchInv /\ [DirectNext]_directVars => BatchInv'
  BY BatchInvKept
<1> QED
  BY <1>1, DirectStarts, BatchReturns, PTL DEF DirectSpec

-------------------------------------------------------------------------------
(* The first character of some bytes: what from_utf8 matches of it.        *)

(* A lead and some of what may follow it.                                  *)
Begins(c) ==
  /\ c \in Seq(ByteClasses) /\ Len(c) \in 1 .. 1 + Len(Follow(c[1]))
  /\ c[1] \notin Continuation \cup {"Invalid"}
  /\ \A i \in 1 .. Len(c) - 1 : c[i + 1] \in Follow(c[1])[i]

LEMMA FollowIs ==
  ASSUME NEW lead \in ByteClasses
  PROVE  /\ Follow(lead) \in Seq(SUBSET Continuation) /\ Len(Follow(lead)) \in 0 .. 3
         /\ \A i \in 1 .. Len(Follow(lead)) : "High" \in Follow(lead)[i]
<1> PICK C : C = Continuation
  OBVIOUS
<1>0. "High" \in C /\ {"High"} \in SUBSET C
  BY DEF Continuation
<1>1. CASE lead \notin {"Lead2", "E0", "Lead3", "Lead4"}
  <2>1. Follow(lead) = <<>>
    BY <1>1 DEF Follow
  <2> QED BY <2>1
<1>2. CASE lead = "Lead2"
  <2>1. Follow(lead) = <<C>>
    BY <1>2 DEF Follow
  <2> QED BY <1>0, <2>1
<1>3. CASE lead = "E0"
  <2>1. Follow(lead) = <<{"High"}, C>>
    BY <1>3 DEF Follow
  <2> QED BY <1>0, <2>1
<1>4. CASE lead = "Lead3"
  <2>1. Follow(lead) = <<C, C>>
    BY <1>4 DEF Follow
  <2> QED BY <1>0, <2>1
<1>5. CASE lead = "Lead4"
  <2>1. Follow(lead) = <<C, C, C>>
    BY <1>5 DEF Follow
  <2> QED BY <1>0, <2>1
<1> QED
  BY <1>1, <1>2, <1>3, <1>4, <1>5

LEMMA GreatestOfFour ==
  ASSUME NEW u \in SUBSET (0 .. 3), u # {} PROVE \E k \in u : \A l \in u : l <= k
<1>1. CASE 3 \in u
  BY ONLY <1>1, u \in SUBSET (0 .. 3)
<1>2. CASE 3 \notin u /\ 2 \in u
  <2>1. \A l \in u : l <= 2
    BY <1>2
  <2> QED BY <1>2, <2>1
<1>3. CASE 3 \notin u /\ 2 \notin u /\ 1 \in u
  <2>1. \A l \in u : l <= 1
    BY <1>3
  <2> QED BY <1>3, <2>1
<1>4. CASE 3 \notin u /\ 2 \notin u /\ 1 \notin u
  <2>1. \A l \in u : l = 0
    BY <1>4
  <2>2. 0 \in u
    BY ONLY <2>1, u # {}
  <2>3. \A l \in u : l <= 0
    BY ONLY <2>1
  <2> QED BY ONLY <2>2, <2>3
<1> QED
  BY <1>1, <1>2, <1>3, <1>4

(* Some bytes and how many of them match.                                  *)
Matches(s, n) ==
  /\ n \in 1 .. Len(s) /\ n - 1 <= Len(Follow(s[1]))
  /\ \A i \in 1 .. n - 1 : s[i + 1] \in Follow(s[1])[i]
  /\ n < Len(s) /\ n <= Len(Follow(s[1])) => s[n + 1] \notin Follow(s[1])[n]

LEMMA MatchingIs ==
  ASSUME NEW s \in Seq(ByteClasses), s # <<>>
  PROVE  Matches(s, Matching(s))
<1> PICK follow \in Seq(SUBSET Continuation) : follow = Follow(s[1]) /\ Len(follow) \in 0 .. 3
  BY FollowIs
<1> PICK ok : ok = {k \in 0 .. Len(follow) :
                      k < Len(s) /\ \A i \in 1 .. k : s[i + 1] \in follow[i]}
  OBVIOUS
<1>1. 0 \in ok /\ ok \in SUBSET (0 .. 3)
  OBVIOUS
<1> PICK k : k = CHOOSE j \in ok : \A l \in ok : l <= j
  OBVIOUS
<1>2. k \in ok /\ \A l \in ok : l <= k
  <2>1. \E j \in ok : \A l \in ok : l <= j
    BY ONLY <1>1, GreatestOfFour
  <2> QED BY ONLY <2>1, k = CHOOSE j \in ok : \A l \in ok : l <= j
<1>3. Matching(s) = 1 + k
  BY DEF Matching
<1>4. k \in 0 .. Len(follow) /\ k < Len(s) /\ \A i \in 1 .. k : s[i + 1] \in follow[i]
  BY ONLY <1>2, ok = {j \in 0 .. Len(follow) :
                        j < Len(s) /\ \A i \in 1 .. j : s[i + 1] \in follow[i]}
<1> PICK n : n = 1 + k
  OBVIOUS
<1> PICK size : size = Len(s)
  OBVIOUS
<1>5. k \in 0 .. 3 /\ size \in Nat /\ n \in 1 .. size /\ n - 1 = k
  <2>1. k \in 0 .. 3
    BY <1>1, <1>2
  <2>2. size \in Nat
    OBVIOUS
  <2> QED BY ONLY <1>4, <2>1, <2>2, n = 1 + k, size = Len(s)
<1>6. ASSUME n < size, n <= Len(follow), s[n + 1] \in follow[n] PROVE FALSE
  <2>1. \A i \in 1 .. n : i \in 1 .. k \/ i = n
    BY ONLY <1>5
  <2>2. \A i \in 1 .. n : s[i + 1] \in follow[i]
    BY ONLY <1>4, <1>6, <2>1
  <2>3. n \in 0 .. Len(follow)
    <3> PICK most \in 0 .. 3 : most = Len(follow)
      OBVIOUS
    <3> QED BY ONLY <1>5, <1>6, most \in 0 .. 3, most = Len(follow)
  <2>4. n \in ok
    BY ONLY <1>6, <2>2, <2>3, size = Len(s),
       ok = {j \in 0 .. Len(follow) : j < Len(s) /\ \A i \in 1 .. j : s[i + 1] \in follow[i]}
  <2>5. n <= k
    BY ONLY <1>2, <2>4
  <2> QED BY ONLY <1>5, <2>5, n = 1 + k
<1>7. Matches(s, n)
  <2> PICK most \in 0 .. 3 : most = Len(follow)
    OBVIOUS
  <2>1. /\ n \in 1 .. size /\ n - 1 <= most
        /\ \A i \in 1 .. n - 1 : s[i + 1] \in follow[i]
        /\ n < size /\ n <= most => s[n + 1] \notin follow[n]
    BY ONLY <1>4, <1>5, <1>6, most \in 0 .. 3, most = Len(follow)
  <2> QED BY ONLY <2>1, size = Len(s), most = Len(follow), follow = Follow(s[1]) DEF Matches
<1> QED
  BY ONLY <1>3, <1>7, n = 1 + k

LEMMA WellFormedBegins ==
  ASSUME NEW c \in WellFormed PROVE Begins(c) /\ Len(c) = 1 + Len(Follow(c[1]))
<1> PICK C : C = Continuation
  OBVIOUS
<1>0. /\ "High" \in C /\ C \subseteq ByteClasses
      /\ {"Ascii", "Lead2", "E0", "Lead3", "Lead4"} \subseteq ByteClasses
      /\ {"Ascii", "Lead2", "E0", "Lead3", "Lead4"} \cap (C \cup {"Invalid"}) = {}
  BY DEF Continuation, ByteClasses
<1>1. CASE c = <<"Ascii">>
  <2>1. Follow("Ascii") = <<>>
    BY DEF Follow
  <2> QED BY <1>0, <1>1, <2>1 DEF Begins
<1>2. CASE c \in {"Lead2"} \X C
  <2> PICK a \in C : c = <<"Lead2", a>>
    BY <1>2
  <2>1. Follow(c[1]) = <<C>>
    BY DEF Follow
  <2>2. c \in Seq(ByteClasses) /\ Len(c) = 2 /\ Len(Follow(c[1])) = 1
    BY <1>0, <2>1
  <2>3. \A i \in 1 .. 1 : c[i + 1] \in Follow(c[1])[i]
    BY <2>1
  <2>4. c[1] \notin Continuation \cup {"Invalid"}
    BY <1>0
  <2>5. Len(c) - 1 = 1 /\ Len(c) \in 1 .. 1 + Len(Follow(c[1]))
    BY ONLY <2>2
  <2> QED BY ONLY <2>2, <2>3, <2>4, <2>5 DEF Begins
<1>3. CASE c \in {"E0"} \X {"High"} \X C
  <2> PICK a \in C : c = <<"E0", "High", a>>
    BY <1>3
  <2>1. Follow(c[1]) = <<{"High"}, C>>
    BY DEF Follow
  <2>2. c \in Seq(ByteClasses) /\ Len(c) = 3 /\ Len(Follow(c[1])) = 2
    BY <1>0, <2>1
  <2>3. \A i \in 1 .. 2 : c[i + 1] \in Follow(c[1])[i]
    BY <2>1
  <2>4. c[1] \notin Continuation \cup {"Invalid"}
    BY <1>0
  <2>5. Len(c) - 1 = 2 /\ Len(c) \in 1 .. 1 + Len(Follow(c[1]))
    BY ONLY <2>2
  <2> QED BY ONLY <2>2, <2>3, <2>4, <2>5 DEF Begins
<1>4. CASE c \in {"Lead3"} \X C \X C
  <2> PICK a \in C, b \in C : c = <<"Lead3", a, b>>
    BY <1>4
  <2>1. Follow(c[1]) = <<C, C>>
    BY DEF Follow
  <2>2. c \in Seq(ByteClasses) /\ Len(c) = 3 /\ Len(Follow(c[1])) = 2
    BY <1>0, <2>1
  <2>3. \A i \in 1 .. 2 : c[i + 1] \in Follow(c[1])[i]
    BY <2>1
  <2>4. c[1] \notin Continuation \cup {"Invalid"}
    BY <1>0
  <2>5. Len(c) - 1 = 2 /\ Len(c) \in 1 .. 1 + Len(Follow(c[1]))
    BY ONLY <2>2
  <2> QED BY ONLY <2>2, <2>3, <2>4, <2>5 DEF Begins
<1>5. CASE c \in {"Lead4"} \X C \X C \X C
  <2> PICK a \in C, b \in C, d \in C : c = <<"Lead4", a, b, d>>
    BY <1>5
  <2>1. Follow(c[1]) = <<C, C, C>>
    BY DEF Follow
  <2>2. c \in Seq(ByteClasses) /\ Len(c) = 4 /\ Len(Follow(c[1])) = 3
    BY <1>0, <2>1
  <2>3. \A i \in 1 .. 3 : c[i + 1] \in Follow(c[1])[i]
    BY <2>1
  <2>4. c[1] \notin Continuation \cup {"Invalid"}
    BY <1>0
  <2>5. Len(c) - 1 = 3 /\ Len(c) \in 1 .. 1 + Len(Follow(c[1]))
    BY ONLY <2>2
  <2> QED BY ONLY <2>2, <2>3, <2>4, <2>5 DEF Begins
<1> QED
  BY <1>1, <1>2, <1>3, <1>4, <1>5 DEF WellFormed

LEMMA SmallSeq ==
  ASSUME NEW S, NEW s \in Seq(S)
  PROVE  /\ Len(s) = 1 => s = <<s[1]>>
         /\ Len(s) = 2 => s = <<s[1], s[2]>>
         /\ Len(s) = 3 => s = <<s[1], s[2], s[3]>>
         /\ Len(s) = 4 => s = <<s[1], s[2], s[3], s[4]>>
OBVIOUS

LEMMA BeginsWellFormed ==
  ASSUME NEW c, Begins(c), Len(c) = 1 + Len(Follow(c[1])) PROVE c \in WellFormed
<1> PICK C : C = Continuation
  OBVIOUS
<1> PICK s \in Seq(ByteClasses) : s = c
  BY DEF Begins
<1> PICK lead \in ByteClasses : lead = s[1]
  BY DEF Begins
<1>0. /\ Len(s) = 1 + Len(Follow(lead)) /\ lead \notin Continuation \cup {"Invalid"}
      /\ \A i \in 1 .. Len(s) - 1 : s[i + 1] \in Follow(lead)[i]
  BY DEF Begins
<1>1. CASE lead = "Ascii"
  <2>1. Follow(lead) = <<>> /\ Len(<<>>) = 0
    BY <1>1 DEF Follow
  <2>3. Len(s) = 1
    BY ONLY <1>0, <2>1
  <2>2. s = <<"Ascii">>
    BY <1>1, <2>3, SmallSeq
  <2> QED BY <2>2 DEF WellFormed
<1>2. CASE lead = "Lead2"
  <2>1. Follow(lead) = <<C>>
    BY <1>2 DEF Follow
  <2>0. Len(<<C>>) = 1
    OBVIOUS
  <2>4. Len(s) = 2 /\ Len(s) - 1 = 1
    BY ONLY <1>0, <2>0, <2>1
  <2>5. \A i \in 1 .. 1 : s[i + 1] \in Follow(lead)[i]
    BY ONLY <1>0, <2>4
  <2>6. s[1 + 1] \in Follow(lead)[1]
    BY ONLY <2>5
  <2>2. Len(s) = 2 /\ s[2] \in C
    BY <2>1, <2>4, <2>6
  <2>3. s = <<"Lead2", s[2]>>
    BY <1>2, <2>2, SmallSeq
  <2> QED BY <2>2, <2>3 DEF WellFormed
<1>3. CASE lead = "E0"
  <2>1. Follow(lead) = <<{"High"}, C>>
    BY <1>3 DEF Follow
  <2>0. Len(<<{"High"}, C>>) = 2
    OBVIOUS
  <2>4. Len(s) = 3 /\ Len(s) - 1 = 2
    BY ONLY <1>0, <2>0, <2>1
  <2>5. \A i \in 1 .. 2 : s[i + 1] \in Follow(lead)[i]
    BY ONLY <1>0, <2>4
  <2>6. s[1 + 1] \in Follow(lead)[1] /\ s[2 + 1] \in Follow(lead)[2]
    BY ONLY <2>5
  <2>2. Len(s) = 3 /\ s[2] = "High" /\ s[3] \in C
    BY <2>1, <2>4, <2>6
  <2>3. s = <<"E0", s[2], s[3]>>
    BY <1>3, <2>2, SmallSeq
  <2> QED BY <2>2, <2>3 DEF WellFormed
<1>4. CASE lead = "Lead3"
  <2>1. Follow(lead) = <<C, C>>
    BY <1>4 DEF Follow
  <2>0. Len(<<C, C>>) = 2
    OBVIOUS
  <2>4. Len(s) = 3 /\ Len(s) - 1 = 2
    BY ONLY <1>0, <2>0, <2>1
  <2>5. \A i \in 1 .. 2 : s[i + 1] \in Follow(lead)[i]
    BY ONLY <1>0, <2>4
  <2>6. s[1 + 1] \in Follow(lead)[1] /\ s[2 + 1] \in Follow(lead)[2]
    BY ONLY <2>5
  <2>2. Len(s) = 3 /\ s[2] \in C /\ s[3] \in C
    BY <2>1, <2>4, <2>6
  <2>3. s = <<"Lead3", s[2], s[3]>>
    BY <1>4, <2>2, SmallSeq
  <2> QED BY <2>2, <2>3 DEF WellFormed
<1>5. CASE lead = "Lead4"
  <2>1. Follow(lead) = <<C, C, C>>
    BY <1>5 DEF Follow
  <2>0. Len(<<C, C, C>>) = 3
    OBVIOUS
  <2>4. Len(s) = 4 /\ Len(s) - 1 = 3
    BY ONLY <1>0, <2>0, <2>1
  <2>5. \A i \in 1 .. 3 : s[i + 1] \in Follow(lead)[i]
    BY ONLY <1>0, <2>4
  <2>6. s[1 + 1] \in Follow(lead)[1] /\ s[2 + 1] \in Follow(lead)[2] /\ s[3 + 1] \in Follow(lead)[3]
    BY ONLY <2>5
  <2>2. Len(s) = 4 /\ s[2] \in C /\ s[3] \in C /\ s[4] \in C
    BY <2>1, <2>4, <2>6
  <2>3. s = <<"Lead4", s[2], s[3], s[4]>>
    BY <1>5, <2>2, SmallSeq
  <2> QED BY <2>2, <2>3 DEF WellFormed
<1> QED
  BY <1>0, <1>1, <1>2, <1>3, <1>4, <1>5 DEF ByteClasses

LEMMA BeginningsBegin ==
  ASSUME NEW c \in Beginnings PROVE Begins(c) /\ Len(c) < 1 + Len(Follow(c[1]))
<1>1. PICK d \in WellFormed : \E k \in 1 .. Len(d) - 1 : c = SubSeq(d, 1, k)
  BY DEF Beginnings
<1>2. PICK k \in 1 .. Len(d) - 1 : c = SubSeq(d, 1, k)
  BY <1>1
<1>3. Begins(d) /\ Len(d) = 1 + Len(Follow(d[1]))
  BY WellFormedBegins
<1>4. d \in Seq(ByteClasses) /\ k \in 1 .. Len(d) /\ k < Len(d)
  BY <1>3 DEF Begins
<1>5. c \in Seq(ByteClasses) /\ Len(c) = k /\ \A i \in 1 .. k : c[i] = d[i]
  BY ONLY <1>2, <1>4
<1>6. c[1] = d[1] /\ \A i \in 1 .. k - 1 : i \in 1 .. Len(d) - 1 /\ c[i + 1] = d[i + 1]
  BY ONLY <1>4, <1>5
<1>7. \A i \in 1 .. Len(c) - 1 : c[i + 1] \in Follow(c[1])[i]
  BY <1>3, <1>5, <1>6 DEF Begins
<1> QED BY <1>3, <1>4, <1>5, <1>6, <1>7 DEF Begins

LEMMA BeginsBeginning ==
  ASSUME NEW c, Begins(c), Len(c) < 1 + Len(Follow(c[1])) PROVE c \in Beginnings
<1> PICK s \in Seq(ByteClasses) : s = c /\ Len(s) >= 1
  BY DEF Begins
<1> PICK lead \in ByteClasses : lead = s[1]
  OBVIOUS
<1> PICK follow \in Seq(SUBSET Continuation), m \in 0 .. 3 :
      /\ follow = Follow(lead) /\ m = Len(follow)
      /\ \A i \in 1 .. m : "High" \in follow[i]
  BY FollowIs
<1> PICK n \in 1 .. m : n = Len(s)
  OBVIOUS
<1>1. /\ lead \notin Continuation \cup {"Invalid"}
      /\ \A i \in 1 .. n - 1 : s[i + 1] \in follow[i]
  BY DEF Begins
<1> PICK d : d = [i \in 1 .. 1 + m |-> IF i <= n THEN s[i] ELSE "High"]
  OBVIOUS
<1>2. d \in Seq(ByteClasses) /\ Len(d) = 1 + m /\ d[1] = lead
  <2>1. "High" \in ByteClasses
    BY DEF ByteClasses, Continuation
  <2>2. d \in [1 .. 1 + m -> ByteClasses]
    BY <2>1
  <2> QED BY <2>2
<1>3. ASSUME NEW i \in 1 .. m PROVE d[i + 1] \in follow[i]
  <2>1. CASE i < n
    BY <1>1, <2>1
  <2>2. CASE i >= n
    <3>1. d[i + 1] = "High"
      BY <2>2
    <3> QED BY <3>1
  <2> QED BY <2>1, <2>2
<1>4. d \in WellFormed
  <2>1. \A i \in 1 .. Len(d) - 1 : d[i + 1] \in Follow(d[1])[i]
    BY <1>2, <1>3
  <2>2. Len(d) = 1 + Len(Follow(d[1])) /\ Len(d) \in 1 .. 1 + Len(Follow(d[1]))
    BY <1>2
  <2>3. Begins(d)
    BY ONLY <1>1, <1>2, <2>1, <2>2 DEF Begins
  <2> QED BY ONLY <2>2, <2>3, BeginsWellFormed
<1>5. SubSeq(d, 1, n) \in Seq(ByteClasses) /\ Len(SubSeq(d, 1, n)) = n
      /\ \A i \in 1 .. n : SubSeq(d, 1, n)[i] = s[i]
  BY <1>2
<1>6. SubSeq(d, 1, n) = s
  BY ONLY <1>5, SeqEqual, s \in Seq(ByteClasses), n = Len(s)
<1>7. n \in 1 .. Len(d) - 1
  BY ONLY <1>2, n \in 1 .. m, m \in 0 .. 3
<1> QED BY ONLY <1>4, <1>6, <1>7, s = c DEF Beginnings

LEMMA BeginningGrows ==
  ASSUME NEW c \in Seq(ByteClasses), c # <<>>, NEW x,
         Append(c, x) \in Beginnings \cup WellFormed
  PROVE  c \in Beginnings
<1> PICK d : d = Append(c, x)
  OBVIOUS
<1>1. Begins(d)
  BY BeginningsBegin, WellFormedBegins
<1>2. Len(d) = Len(c) + 1 /\ Len(c) >= 1 /\ \A i \in 1 .. Len(c) : d[i] = c[i]
  BY EmptySeq
<1>3. d[1] = c[1] /\ Len(c) < 1 + Len(Follow(c[1])) /\ Len(c) \in 1 .. 1 + Len(Follow(c[1]))
  <2> PICK n \in Nat : n = Len(c)
    OBVIOUS
  <2>1. d[1] = c[1]
    BY <1>2
  <2>2. c[1] \in ByteClasses
    BY <1>2
  <2> PICK m \in 0 .. 3 : m = Len(Follow(c[1]))
    BY <2>2, FollowIs
  <2>3. n + 1 \in 1 .. 1 + m
    BY <1>1, <1>2, <2>1 DEF Begins
  <2> QED
    BY <1>2, <2>1, <2>3
<1>4. \A i \in 1 .. Len(c) - 1 : c[i + 1] \in Follow(c[1])[i]
  <2> TAKE i \in 1 .. Len(c) - 1
  <2>1. i \in 1 .. Len(d) - 1 /\ d[i + 1] = c[i + 1]
    BY <1>2
  <2> QED BY <1>1, <1>3, <2>1 DEF Begins
<1>5. c[1] \notin Continuation \cup {"Invalid"}
  BY <1>1, <1>3 DEF Begins
<1> QED
  BY <1>3, <1>4, <1>5, BeginsBeginning DEF Begins

LEMMA BeginningNotWhole == ASSUME NEW c \in Beginnings PROVE c \notin WellFormed
<1>1. Len(c) < 1 + Len(Follow(c[1])) /\ Begins(c)
  BY BeginningsBegin
<1>2. c[1] \in ByteClasses
  BY <1>1 DEF Begins
<1> PICK m \in 0 .. 3 : m = Len(Follow(c[1]))
  BY <1>2, FollowIs
<1>3. Len(c) # 1 + Len(Follow(c[1]))
  BY <1>1
<1> QED
  BY <1>3, WellFormedBegins

(* What a character returned says of the bytes it stands for, `here` of    *)
(* them being up to its end.                                               *)
Stands(c, here, s, over) ==
  IF c.ok THEN c.bytes \in WellFormed
  ELSE /\ c.bytes \in Beginnings \/ Len(c.bytes) = 1
       /\ c.bytes \notin WellFormed
       /\ here = Len(s) \/ Append(c.bytes, s[here + 1]) \notin Beginnings \cup WellFormed
       /\ here = Len(s) /\ c.bytes \in Beginnings => over

LEMMA FirstChar ==
  ASSUME NEW s \in Seq(ByteClasses), s # <<>>, NEW n, Matches(s, n)
  PROVE  /\ Incomplete(s, n) => s \in Beginnings
         /\ ~Incomplete(s, n) => Stands(Char(SubSeq(s, 1, n), Valid(s, n)), n, s, FALSE)
<1> PICK lead \in ByteClasses : lead = s[1]
  BY EmptySeq
<1> PICK m \in 0 .. 3 : m = Len(Follow(lead))
  BY FollowIs
<1> PICK size \in Nat : size = Len(s)
  OBVIOUS
<1>1. /\ n \in 1 .. size /\ n - 1 <= m /\ \A i \in 1 .. n - 1 : s[i + 1] \in Follow(lead)[i]
      /\ n < size /\ n <= m => s[n + 1] \notin Follow(lead)[n]
  BY DEF Matches
<1> PICK c : c = SubSeq(s, 1, n)
  OBVIOUS
<1>2. c \in Seq(ByteClasses) /\ Len(c) = n /\ c[1] = lead /\ \A i \in 1 .. n : c[i] = s[i]
  BY <1>1
<1>3. Valid(s, n) <=> lead \notin Continuation \cup {"Invalid"} /\ n = 1 + m
  BY DEF Valid
<1>4. lead \notin Continuation \cup {"Invalid"} => Begins(c)
  <2>1. \A i \in 1 .. n - 1 : c[i + 1] = s[i + 1]
    BY <1>1, <1>2
  <2>2. Len(c) \in 1 .. 1 + Len(Follow(c[1]))
    BY <1>1, <1>2
  <2> QED BY <1>1, <1>2, <2>1, <2>2 DEF Begins
<1>5. Valid(s, n) => c \in WellFormed
  BY <1>2, <1>3, <1>4, BeginsWellFormed
<1>6. lead \in Continuation \cup {"Invalid"} => m = 0 /\ n = 1
  <2> SUFFICES ASSUME lead \in Continuation \cup {"Invalid"} PROVE m = 0 /\ n = 1
    OBVIOUS
  <2>1. Follow(lead) = <<>>
    BY DEF Follow, Continuation
  <2>2. m = 0
    BY <2>1
  <2> QED BY <1>1, <2>2
<1>7. ~Valid(s, n) => /\ c \notin WellFormed
                      /\ lead \notin Continuation \cup {"Invalid"} => c \in Beginnings /\ n <= m
                      /\ lead \in Continuation \cup {"Invalid"} => c \notin Beginnings
  <2> SUFFICES ASSUME ~Valid(s, n)
               PROVE /\ c \notin WellFormed
                     /\ lead \notin Continuation \cup {"Invalid"} => c \in Beginnings /\ n <= m
                     /\ lead \in Continuation \cup {"Invalid"} => c \notin Beginnings
    OBVIOUS
  <2>1. CASE lead \in Continuation \cup {"Invalid"}
    BY <1>2, <2>1, WellFormedBegins, BeginningsBegin DEF Begins
  <2>2. CASE lead \notin Continuation \cup {"Invalid"}
    <3>1. n <= m
      BY <1>1, <1>3, <2>2
    <3>2. Len(c) < 1 + Len(Follow(c[1]))
      BY <1>2, <3>1
    <3>3. c \in Beginnings
      BY <1>4, <2>2, <3>2, BeginsBeginning
    <3> QED BY <2>2, <3>1, <3>3, BeginningNotWhole
  <2> QED BY <2>1, <2>2
<1>8. Incomplete(s, n) <=> ~Valid(s, n) /\ n = size /\ Follow(lead) # <<>>
  BY DEF Incomplete
<1>9. m = 0 <=> Follow(lead) = <<>>
  BY FollowIs, EmptySeq
<1>10. ASSUME Incomplete(s, n) PROVE s \in Beginnings
  <2>1. c = s
    BY <1>2, <1>8, <1>10, SeqEqual
  <2>2. lead \notin Continuation \cup {"Invalid"}
    BY <1>6, <1>8, <1>9, <1>10
  <2> QED BY <1>7, <1>8, <1>10, <2>1, <2>2
<1>11. ASSUME ~Incomplete(s, n), ~Valid(s, n) PROVE Stands(Char(c, FALSE), n, s, FALSE)
  <2>1. c \in Beginnings \/ Len(c) = 1
    BY <1>2, <1>6, <1>7, <1>11
  <2>2. n = Len(s) => c \notin Beginnings
    BY <1>1, <1>7, <1>8, <1>9, <1>11
  <2>3. ASSUME n # Len(s) PROVE Append(c, s[n + 1]) \notin Beginnings \cup WellFormed
    <3>1. n < size
      BY <1>1, <2>3
    <3> PICK d : d = Append(c, s[n + 1])
      OBVIOUS
    <3>2. SUFFICES ASSUME d \in Beginnings \cup WellFormed PROVE FALSE
      OBVIOUS
    <3>3. c # <<>>
      BY <1>1, <1>2
    <3>4. c \in Beginnings
      BY <1>2, <3>2, <3>3, BeginningGrows
    <3>5. lead \notin Continuation \cup {"Invalid"} /\ n <= m
      BY <1>7, <1>11, <3>4
    <3>6. Begins(d)
      BY <3>2, BeginningsBegin, WellFormedBegins
    <3>7. d[n + 1] = s[n + 1] /\ Len(d) = n + 1 /\ d[1] = lead
      BY <1>1, <1>2
    <3>8. n \in 1 .. Len(d) - 1
      BY <1>1, <3>7
    <3>9. d[n + 1] \in Follow(d[1])[n]
      BY <3>6, <3>8 DEF Begins
    <3> QED BY <1>1, <3>1, <3>5, <3>7, <3>9
  <2> QED BY <1>7, <1>11, <2>1, <2>2, <2>3 DEF Stands, Char
<1>12. ASSUME Valid(s, n) PROVE Stands(Char(c, TRUE), n, s, FALSE)
  BY <1>5, <1>12 DEF Stands, Char
<1>13. Valid(s, n) \in BOOLEAN
  BY DEF Valid
<1> QED
  BY <1>10, <1>11, <1>12, <1>13

-------------------------------------------------------------------------------
(* The bytes a text stands for.                                            *)

Chars == [bytes : Seq(ByteClasses), ok : BOOLEAN]

LEMMA CharBytes ==
  ASSUME NEW c \in Chars PROVE c.bytes \in Seq(ByteClasses)
BY DEF Chars

LEMMA BytesOfAppend ==
  ASSUME NEW t \in Seq(Chars), NEW c \in Chars
  PROVE  /\ BytesOf(t) \in Seq(ByteClasses) /\ BytesOf(<<>>) = <<>>
         /\ BytesOf(Append(t, c)) = BytesOf(t) \o c.bytes
<1> PICK p : p = [i \in DOMAIN t |-> t[i].bytes]
  OBVIOUS
<1> PICK u : u = Append(t, c)
  OBVIOUS
<1> PICK q : q = [i \in DOMAIN u |-> u[i].bytes]
  OBVIOUS
<1> PICK n \in Nat : n = Len(t)
  OBVIOUS
<1>1. p \in Seq(Seq(ByteClasses)) /\ Len(p) = n /\ c.bytes \in Seq(ByteClasses)
  <2>1. ASSUME NEW i \in 1 .. n PROVE t[i].bytes \in Seq(ByteClasses)
    <3>1. t[i] \in Chars
      OBVIOUS
    <3> QED BY ONLY <3>1, CharBytes
  <2>2. p \in [1 .. n -> Seq(ByteClasses)]
    BY <2>1
  <2> QED BY <2>2, CharBytes
<1>2. q = Append(p, c.bytes)
  <2>1. u \in Seq(Chars) /\ Len(u) = n + 1 /\ \A i \in 1 .. n + 1 : u[i] = IF i = n + 1 THEN c ELSE t[i]
    OBVIOUS
  <2>6. ASSUME NEW i \in 1 .. n + 1 PROVE u[i].bytes \in Seq(ByteClasses)
    <3>1. u[i] \in Chars
      BY ONLY <2>1, i \in 1 .. n + 1, n \in Nat, u \in Seq(Chars)
    <3> QED BY ONLY <3>1, CharBytes
  <2>7. DOMAIN u = 1 .. n + 1
    BY ONLY <2>1, n \in Nat
  <2>2. q \in [1 .. n + 1 -> Seq(ByteClasses)]
    BY ONLY <2>6, <2>7, q = [i \in DOMAIN u |-> u[i].bytes]
  <2>3. q \in Seq(Seq(ByteClasses)) /\ Len(q) = n + 1
    BY <2>2
  <2>4. Append(p, c.bytes) \in Seq(Seq(ByteClasses)) /\ Len(Append(p, c.bytes)) = n + 1
    BY <1>1
  <2>5. \A i \in 1 .. n + 1 : q[i] = Append(p, c.bytes)[i]
    BY <1>1, <2>1
  <2> QED BY ONLY <2>3, <2>4, <2>5, SeqEqual
<1>3. FlattenSeq(p) \in Seq(ByteClasses) /\ FlattenSeq(q) = FlattenSeq(p) \o c.bytes
  BY ONLY <1>1, <1>2, FlattenAppend
<1>4. BytesOf(t) = FlattenSeq(p) /\ BytesOf(u) = FlattenSeq(q)
  BY DEF BytesOf
<1>5. BytesOf(<<>>) = <<>>
  <2>1. [i \in DOMAIN <<>> |-> <<>>[i].bytes] = <<>>
    OBVIOUS
  <2> QED BY ONLY <2>1, FlattenEmpty DEF BytesOf
<1> QED
  BY <1>3, <1>4, <1>5

LEMMA BytesAssociative ==
  ASSUME NEW x \in Seq(ByteClasses), NEW y \in Seq(ByteClasses), NEW z \in Seq(ByteClasses)
  PROVE  (x \o y) \o z = x \o (y \o z)
BY ConcatAssociative

LEMMA CharsAssociative ==
  ASSUME NEW x \in Seq(Chars), NEW y \in Seq(Chars), NEW z \in Seq(Chars)
  PROVE  (x \o y) \o z = x \o (y \o z)
BY ConcatAssociative

LEMMA BytesOfConcat ==
  ASSUME NEW t \in Seq(Chars), NEW u \in Seq(Chars)
  PROVE  BytesOf(t \o u) = BytesOf(t) \o BytesOf(u)
<1> DEFINE S == {n \in Nat : \A v \in Seq(Chars) : Len(v) = n =>
                               BytesOf(t \o v) = BytesOf(t) \o BytesOf(v)}
<1>0. [bytes |-> <<>>, ok |-> TRUE] \in Chars
  BY DEF Chars
<1>1. 0 \in S
  <2> SUFFICES ASSUME NEW v \in Seq(Chars), Len(v) = 0
               PROVE  BytesOf(t \o v) = BytesOf(t) \o BytesOf(v)
    OBVIOUS
  <2>1. v = <<>>
    BY EmptySeq
  <2>2. t \o v = t /\ BytesOf(v) = <<>> /\ BytesOf(t) \in Seq(ByteClasses)
    BY <1>0, <2>1, BytesOfAppend, ConcatEmptySeq
  <2> QED BY <2>2, ConcatEmptySeq
<1>2. ASSUME NEW n \in Nat, n \in S PROVE n + 1 \in S
  <2> SUFFICES ASSUME NEW v \in Seq(Chars), Len(v) = n + 1
               PROVE  BytesOf(t \o v) = BytesOf(t) \o BytesOf(v)
    OBVIOUS
  <2>1. v # <<>>
    OBVIOUS
  <2>2. PICK w \in Seq(Chars), c \in Chars : v = Append(w, c)
    BY <2>1, SequenceEmptyOrAppend
  <2>3. Len(w) = n
    BY <2>2
  <2>4. BytesOf(t \o w) = BytesOf(t) \o BytesOf(w)
    BY <1>2, <2>3
  <2>5. t \o v = Append(t \o w, c) /\ t \o w \in Seq(Chars)
    BY <2>2
  <2>6. BytesOf(t \o v) = (BytesOf(t) \o BytesOf(w)) \o c.bytes
    BY ONLY <2>4, <2>5, BytesOfAppend, c \in Chars
  <2>7. BytesOf(v) = BytesOf(w) \o c.bytes
    BY ONLY <2>2, BytesOfAppend
  <2>8. BytesOf(t) \in Seq(ByteClasses) /\ BytesOf(w) \in Seq(ByteClasses)
        /\ c.bytes \in Seq(ByteClasses)
    BY BytesOfAppend, CharBytes
  <2>9. (BytesOf(t) \o BytesOf(w)) \o c.bytes = BytesOf(t) \o (BytesOf(w) \o c.bytes)
    BY ONLY <2>8, BytesAssociative
  <2> QED BY ONLY <2>6, <2>7, <2>9
<1>3. \A n \in Nat : n \in S
  <2> HIDE DEF S
  <2> QED BY <1>1, <1>2, Induction
<1>4. Len(u) \in S
  BY <1>3
<1> QED
  BY <1>4

Splits(S, t, i) ==
  \E u \in Seq(S), v \in Seq(S) :
    t = u \o v /\ u = SubSeq(t, 1, i) /\ v = SubSeq(t, i + 1, Len(t)) /\ Len(u) = i

LEMMA SplitAt ==
  ASSUME NEW S, NEW t \in Seq(S), NEW i \in 1 .. Len(t) PROVE Splits(S, t, i)
<1> PICK n \in Nat : n = Len(t)
  OBVIOUS
<1> PICK u : u = SubSeq(t, 1, i)
  OBVIOUS
<1> PICK v : v = SubSeq(t, i + 1, n)
  OBVIOUS
<1>1. u \in Seq(S) /\ Len(u) = i /\ \A j \in 1 .. i : u[j] = t[j]
  OBVIOUS
<1>2. v \in Seq(S) /\ Len(v) = n - i /\ \A j \in 1 .. n - i : v[j] = t[i + j]
  OBVIOUS
<1>3. u \o v \in Seq(S) /\ Len(u \o v) = n
  BY <1>1, <1>2
<1>4. \A j \in 1 .. n : (u \o v)[j] = t[j]
  <2> TAKE j \in 1 .. n
  <2>1. CASE j <= i
    BY <1>1, <1>2, <2>1
  <2>2. CASE j > i
    <3>1. (u \o v)[j] = v[j - i] /\ j - i \in 1 .. n - i /\ i + (j - i) = j
      BY <1>1, <1>2, <2>2
    <3> QED BY <1>2, <3>1
  <2> QED BY <2>1, <2>2
<1>5. t = u \o v
  BY ONLY <1>3, <1>4, SeqEqual, t \in Seq(S), n = Len(t)
<1> QED
  BY ONLY <1>1, <1>2, <1>5, u = SubSeq(t, 1, i), v = SubSeq(t, i + 1, n), n = Len(t) DEF Splits

(* The bytes of a beginning of a text are some of its bytes.               *)
UpTo(t, i) == Len(BytesOf(SubSeq(t, 1, i)))

LEMMA UpToIs ==
  ASSUME NEW t \in Seq(Chars), NEW i \in 1 .. Len(t)
  PROVE  UpTo(t, i) \in Nat /\ UpTo(t, i) <= Len(BytesOf(t)) /\ Len(BytesOf(t)) \in Nat
<1>1. Splits(Chars, t, i)
  BY SplitAt
<1> PICK u \in Seq(Chars), v \in Seq(Chars) : t = u \o v /\ u = SubSeq(t, 1, i)
  BY ONLY <1>1 DEF Splits
<1>0. [bytes |-> <<>>, ok |-> TRUE] \in Chars
  BY DEF Chars
<1>2. BytesOf(t) = BytesOf(u) \o BytesOf(v)
  BY ONLY t = u \o v, BytesOfConcat, u \in Seq(Chars), v \in Seq(Chars)
<1>3. BytesOf(u) \in Seq(ByteClasses) /\ BytesOf(v) \in Seq(ByteClasses)
  BY <1>0, BytesOfAppend
<1>4. Len(BytesOf(u)) \in Nat /\ Len(BytesOf(v)) \in Nat
      /\ Len(BytesOf(t)) = Len(BytesOf(u)) + Len(BytesOf(v))
  BY ONLY <1>2, <1>3
<1> PICK h : h = Len(BytesOf(u))
  OBVIOUS
<1>5. UpTo(t, i) = h
  BY DEF UpTo
<1> QED
  BY ONLY <1>4, <1>5, h = Len(BytesOf(u))

StandsAll(t, s, over) == \A i \in 1 .. Len(t) : Stands(t[i], UpTo(t, i), s, over)

(* More bytes change nothing of what has been returned.                    *)
LEMMA StandsGrows ==
  ASSUME NEW c \in Chars, NEW s \in Seq(ByteClasses), NEW b \in Seq(ByteClasses), b # <<>>,
         NEW here \in 0 .. Len(s), Stands(c, here, s, FALSE)
  PROVE  Stands(c, here, s \o b, FALSE)
<1>1. Len(s \o b) = Len(s) + Len(b) /\ Len(b) \in Nat \ {0} /\ Len(s) \in Nat
  BY EmptySeq
<1>2. here # Len(s \o b)
  BY <1>1
<1>3. CASE here < Len(s)
  <2>1. (s \o b)[here + 1] = s[here + 1] /\ here # Len(s)
    BY <1>3
  <2> QED BY <1>2, <2>1 DEF Stands
<1>4. CASE here = Len(s) /\ ~c.ok
  <2>1. Len(c.bytes) = 1 /\ c.bytes \notin Beginnings /\ c.bytes \notin WellFormed
    BY <1>4 DEF Stands
  <2>2. c.bytes \in Seq(ByteClasses) /\ c.bytes # <<>>
    <3>1. c.bytes \in Seq(ByteClasses)
      BY CharBytes
    <3>2. ASSUME c.bytes = <<>> PROVE Len(c.bytes) = 0
      BY <3>2
    <3> QED BY ONLY <2>1, <3>1, <3>2
  <2>3. Append(c.bytes, (s \o b)[here + 1]) \notin Beginnings \cup WellFormed
    BY <2>1, <2>2, BeginningGrows
  <2> QED BY <1>2, <1>4, <2>1, <2>3 DEF Stands
<1>5. CASE c.ok
  BY <1>5 DEF Stands
<1>6. here < Len(s) \/ here = Len(s)
  BY ONLY <1>1, here \in 0 .. Len(s)
<1> QED
  BY ONLY <1>3, <1>4, <1>5, <1>6

(* Neither do bytes before it.                                             *)
LEMMA StandsAfter ==
  ASSUME NEW c, NEW s \in Seq(ByteClasses), NEW b \in Seq(ByteClasses),
         NEW here \in 0 .. Len(s), Stands(c, here, s, FALSE), NEW there, there = Len(b) + here
  PROVE  Stands(c, there, b \o s, FALSE)
<1>1. Len(b \o s) = Len(b) + Len(s) /\ Len(b) \in Nat /\ Len(s) \in Nat
  OBVIOUS
<1>2. there = Len(b \o s) <=> here = Len(s)
  BY <1>1
<1>3. here # Len(s) => (b \o s)[there + 1] = s[here + 1]
  <2> SUFFICES ASSUME here < Len(s) PROVE (b \o s)[there + 1] = s[here + 1]
    BY <1>1
  <2> PICK k \in 1 .. Len(s) : k = here + 1
    BY <1>1
  <2>1. there + 1 = Len(b) + k
    BY <1>1
  <2>2. (b \o s)[Len(b) + k] = s[k]
    BY <1>1
  <2> QED BY <2>1, <2>2
<1> QED
  BY <1>2, <1>3 DEF Stands

LEMMA BeginsConcat ==
  ASSUME NEW S, NEW x \in Seq(S), NEW w \in Seq(S)
  PROVE  SubSeq(x \o w, 1, Len(x)) = x
<1> PICK y : y = SubSeq(x \o w, 1, Len(x))
  OBVIOUS
<1>1. y \in Seq(S) /\ Len(y) = Len(x) /\ \A j \in 1 .. Len(x) : y[j] = x[j]
  OBVIOUS
<1> QED
  BY <1>1, SeqEqual

Joins(t, u, rest, s) ==
  /\ BytesOf(t \o u) \o rest = BytesOf(t) \o s
  /\ StandsAll(t \o u, BytesOf(t) \o s, FALSE)

LEMMA StandsConcat ==
  ASSUME NEW t \in Seq(Chars), NEW u \in Seq(Chars), NEW rest \in Seq(ByteClasses), NEW s,
         s = BytesOf(u) \o rest, StandsAll(u, s, FALSE), StandsAll(t, BytesOf(t) \o s, FALSE)
  PROVE  Joins(t, u, rest, s)
<1>0. [bytes |-> <<>>, ok |-> TRUE] \in Chars
  BY DEF Chars
<1>1. BytesOf(t) \in Seq(ByteClasses) /\ BytesOf(u) \in Seq(ByteClasses) /\ s \in Seq(ByteClasses)
  BY <1>0, BytesOfAppend
<1>2. BytesOf(t \o u) \o rest = BytesOf(t) \o s
  <2> PICK x \in Seq(ByteClasses), y \in Seq(ByteClasses) : x = BytesOf(t) /\ y = BytesOf(u)
    BY <1>1
  <2>1. (x \o y) \o rest = x \o (y \o rest)
    BY ONLY ConcatAssociative, x \in Seq(ByteClasses), y \in Seq(ByteClasses),
       rest \in Seq(ByteClasses)
  <2>2. BytesOf(t \o u) = BytesOf(t) \o BytesOf(u)
    BY BytesOfConcat
  <2> QED BY <2>1, <2>2
<1>3. ASSUME NEW i \in 1 .. Len(t)
      PROVE  Stands((t \o u)[i], UpTo(t \o u, i), BytesOf(t) \o s, FALSE)
  <2>1. (t \o u)[i] = t[i] /\ SubSeq(t \o u, 1, i) = SubSeq(t, 1, i)
    OBVIOUS
  <2> QED BY <2>1 DEF StandsAll, UpTo
<1>4. ASSUME NEW k \in 1 .. Len(u), NEW i, i = Len(t) + k
      PROVE  Stands((t \o u)[i], UpTo(t \o u, i), BytesOf(t) \o s, FALSE)
  <2>1. (t \o u)[i] = u[k]
    BY <1>4
  <2>6. Splits(Chars, u, k)
    BY SplitAt
  <2> PICK v \in Seq(Chars), w \in Seq(Chars) : u = v \o w /\ v = SubSeq(u, 1, k) /\ Len(v) = k
    BY ONLY <2>6 DEF Splits
  <2>2. SubSeq(t \o u, 1, i) = t \o v
    <3>3. t \o v \in Seq(Chars) /\ Len(t \o v) = i
      BY ONLY ConcatProperties, t \in Seq(Chars), v \in Seq(Chars), Len(v) = k, <1>4
    <3>4. (t \o v) \o w = t \o (v \o w)
      BY ONLY CharsAssociative, t \in Seq(Chars), v \in Seq(Chars), w \in Seq(Chars)
    <3>1. t \o v \in Seq(Chars) /\ t \o u = (t \o v) \o w /\ Len(t \o v) = i
      BY <3>3, <3>4
    <3> PICK x \in Seq(Chars) : x = t \o v
      BY <3>1
    <3>2. SubSeq(x \o w, 1, Len(x)) = x
      BY ONLY BeginsConcat, x \in Seq(Chars), w \in Seq(Chars)
    <3> QED BY <3>1, <3>2
  <2>3. UpTo(t \o u, i) = Len(BytesOf(t)) + UpTo(u, k)
    <3>1. BytesOf(t \o v) = BytesOf(t) \o BytesOf(v) /\ BytesOf(v) \in Seq(ByteClasses)
      BY <1>0, BytesOfConcat, BytesOfAppend
    <3>2. Len(BytesOf(t \o v)) = Len(BytesOf(t)) + Len(BytesOf(v))
      BY ONLY <1>1, <3>1
    <3> QED BY ONLY <2>2, <3>2, v = SubSeq(u, 1, k) DEF UpTo
  <2>4. UpTo(u, k) \in 0 .. Len(s)
    <3>1. UpTo(u, k) \in Nat /\ UpTo(u, k) <= Len(BytesOf(u)) /\ Len(BytesOf(u)) \in Nat
      BY UpToIs
    <3>2. Len(s) = Len(BytesOf(u)) + Len(rest) /\ Len(rest) \in Nat
      BY <1>1
    <3> QED BY ONLY <3>1, <3>2
  <2>5. Stands(u[k], UpTo(u, k), s, FALSE)
    BY DEF StandsAll
  <2> QED BY ONLY <1>1, <2>1, <2>3, <2>4, <2>5, StandsAfter
<1>5. \A i \in 1 .. Len(t \o u) : i \in 1 .. Len(t) \/ \E k \in 1 .. Len(u) : i = Len(t) + k
  <2> TAKE i \in 1 .. Len(t \o u)
  <2>1. Len(t) \in Nat /\ Len(u) \in Nat /\ Len(t \o u) = Len(t) + Len(u)
    OBVIOUS
  <2>2. i \notin 1 .. Len(t) => i - Len(t) \in 1 .. Len(u) /\ i = Len(t) + (i - Len(t))
    BY <2>1
  <2> QED BY <2>2
<1> QED
  BY <1>2, <1>3, <1>4, <1>5 DEF StandsAll, Joins

-------------------------------------------------------------------------------
(* The loop of push: the recursive function exists, level by level, the    *)
(* levels being the lengths.                                               *)

Short(n) == {s \in Seq(ByteClasses) : Len(s) <= n}

After(s) == SubSeq(s, Matching(s) + 1, Len(s))

AssembledFrom(f, s) ==
  IF s = <<>> THEN [text |-> <<>>, rest |-> <<>>]
  ELSE LET n == Matching(s) IN
       IF Incomplete(s, n) THEN [text |-> <<>>, rest |-> s]
       ELSE LET after == f[SubSeq(s, n + 1, Len(s))] IN
            [text |-> <<Char(SubSeq(s, 1, n), Valid(s, n))>> \o after.text, rest |-> after.rest]

Assembles(f, D) == f = [s \in D |-> AssembledFrom(f, s)]

LEMMA AssemblesAt ==
  ASSUME NEW D, NEW f, Assembles(f, D), NEW s \in D PROVE f[s] = AssembledFrom(f, s)
BY DEF Assembles

LEMMA AssemblesBy ==
  ASSUME NEW D, NEW f, DOMAIN f = D, f = [s \in DOMAIN f |-> f[s]],
         \A s \in D : f[s] = AssembledFrom(f, s)
  PROVE  Assembles(f, D)
BY DEF Assembles

LEMMA AfterShorter ==
  ASSUME NEW n \in Nat, NEW s \in Short(n + 1), s # <<>>
  PROVE  After(s) \in Short(n)
<1>1. s \in Seq(ByteClasses) /\ Len(s) <= n + 1
  BY DEF Short
<1> PICK k : k = Matching(s)
  OBVIOUS
<1>2. k \in 1 .. Len(s)
  BY <1>1, MatchingIs DEF Matches
<1>3. SubSeq(s, k + 1, Len(s)) \in Seq(ByteClasses) /\ Len(SubSeq(s, k + 1, Len(s))) = Len(s) - k
  BY <1>1, <1>2
<1>4. Len(SubSeq(s, k + 1, Len(s))) <= n
  BY <1>1, <1>2, <1>3
<1> QED
  BY <1>3, <1>4 DEF After, Short

LEMMA FromSame ==
  ASSUME NEW f, NEW g, NEW s, s = <<>> \/ f[After(s)] = g[After(s)]
  PROVE  AssembledFrom(f, s) = AssembledFrom(g, s)
BY DEF AssembledFrom, After

LEMMA AssemblesExists == \A n \in Nat : \E f : Assembles(f, Short(n))
<1> DEFINE S == {n \in Nat : \E f : Assembles(f, Short(n))}
<1>1. 0 \in S
  <2> PICK f : f = [s \in Short(0) |-> [text |-> <<>>, rest |-> <<>>]]
    OBVIOUS
  <2>1. \A s \in Short(0) : s = <<>>
    BY EmptySeq DEF Short
  <2>2. \A s \in Short(0) : f[s] = AssembledFrom(f, s)
    BY <2>1 DEF AssembledFrom
  <2>3. DOMAIN f = Short(0) /\ f = [s \in DOMAIN f |-> f[s]]
    OBVIOUS
  <2>4. Assembles(f, Short(0))
    BY ONLY <2>2, <2>3, AssemblesBy
  <2> QED BY <2>4
<1>2. ASSUME NEW n \in Nat, n \in S PROVE n + 1 \in S
  <2>1. PICK f : Assembles(f, Short(n))
    BY <1>2
  <2> PICK m \in Nat : m = n + 1
    OBVIOUS
  <2> PICK g : g = [s \in Short(m) |-> AssembledFrom(f, s)]
    OBVIOUS
  <2>2. \A s \in Short(n) : s \in Short(m) /\ g[s] = f[s]
    <3> TAKE s \in Short(n)
    <3>1. s \in Short(m)
      BY DEF Short
    <3> QED BY <2>1, <3>1, AssemblesAt
  <2>3. ASSUME NEW s \in Short(m) PROVE g[s] = AssembledFrom(g, s)
    <3>1. s = <<>> \/ After(s) \in Short(n)
      BY AfterShorter
    <3>2. s = <<>> \/ f[After(s)] = g[After(s)]
      BY <2>2, <3>1
    <3>3. AssembledFrom(f, s) = AssembledFrom(g, s)
      BY ONLY <3>2, FromSame
    <3> QED BY <3>3
  <2>4. DOMAIN g = Short(m) /\ g = [s \in DOMAIN g |-> g[s]]
    OBVIOUS
  <2>5. Assembles(g, Short(m))
    BY ONLY <2>3, <2>4, AssemblesBy
  <2> QED BY <2>5
<1>3. \A n \in Nat : n \in S
  <2> HIDE DEF S
  <2> QED BY <1>1, <1>2, Induction
<1> QED
  BY <1>3

LEMMA AssemblesSame ==
  ASSUME NEW n \in Nat, NEW f, Assembles(f, Short(n)),
         NEW m \in Nat, NEW g, Assembles(g, Short(m))
  PROVE  \A s \in Short(n) \cap Short(m) : f[s] = g[s]
<1> DEFINE S == {k \in Nat : \A s \in Short(n) \cap Short(m) : Len(s) <= k => f[s] = g[s]}
<1>1. 0 \in S
  <2> SUFFICES ASSUME NEW s \in Short(n) \cap Short(m), Len(s) <= 0 PROVE f[s] = g[s]
    OBVIOUS
  <2>1. s = <<>>
    BY EmptySeq DEF Short
  <2>2. AssembledFrom(f, s) = AssembledFrom(g, s)
    BY ONLY <2>1, FromSame
  <2> QED BY <2>2, AssemblesAt
<1>2. ASSUME NEW k \in Nat, k \in S PROVE k + 1 \in S
  <2> SUFFICES ASSUME NEW s \in Short(n) \cap Short(m), Len(s) <= k + 1 PROVE f[s] = g[s]
    OBVIOUS
  <2>1. ASSUME s # <<>> PROVE f[After(s)] = g[After(s)]
    <3>1. After(s) \in Seq(ByteClasses) /\ Len(After(s)) <= k /\ Len(After(s)) <= Len(s)
      <4>1. s \in Seq(ByteClasses) /\ s \in Short(k + 1) /\ Len(s) \in Nat
        BY DEF Short
      <4>2. After(s) \in Short(k)
        BY ONLY <2>1, <4>1, AfterShorter, k \in Nat
      <4> PICK l \in Nat : l + 1 = Len(s)
        BY <2>1, <4>1, EmptySeq
      <4>3. s \in Short(l + 1)
        BY <4>1 DEF Short
      <4>4. After(s) \in Short(l)
        BY ONLY <2>1, <4>3, AfterShorter, l \in Nat
      <4> QED BY <4>2, <4>4 DEF Short
    <3>2. After(s) \in Short(n) \cap Short(m)
      BY <3>1 DEF Short
    <3> QED BY <1>2, <3>1, <3>2
  <2>2. AssembledFrom(f, s) = AssembledFrom(g, s)
    BY ONLY <2>1, FromSame
  <2> QED BY <2>2, AssemblesAt
<1>3. \A k \in Nat : k \in S
  <2> HIDE DEF S
  <2> QED BY <1>1, <1>2, Induction
<1> SUFFICES ASSUME NEW s \in Short(n) \cap Short(m) PROVE f[s] = g[s]
  OBVIOUS
<1>4. Len(s) \in Nat /\ Len(s) <= Len(s)
  BY DEF Short
<1>5. Len(s) \in S
  BY <1>3, <1>4
<1> QED
  BY <1>4, <1>5

Level(n) == CHOOSE f : Assembles(f, Short(n))

LEMMA AssembledIs ==
  ASSUME NEW s \in Seq(ByteClasses) PROVE Assembled[s] = AssembledFrom(Assembled, s)
<1>1. \A n \in Nat : Assembles(Level(n), Short(n))
  BY AssemblesExists DEF Level
<1> PICK F : F = [u \in Seq(ByteClasses) |-> Level(Len(u))[u]]
  OBVIOUS
<1>2. ASSUME NEW u \in Seq(ByteClasses) PROVE F[u] = AssembledFrom(F, u)
  <2> PICK n \in Nat : n = Len(u)
    OBVIOUS
  <2>1. u \in Short(n) /\ Assembles(Level(n), Short(n))
    BY <1>1 DEF Short
  <2>2. F[u] = AssembledFrom(Level(n), u)
    BY <2>1, AssemblesAt
  <2>3. ASSUME u # <<>> PROVE Level(n)[After(u)] = F[After(u)]
    <3> PICK v : v = After(u)
      OBVIOUS
    <3>4. n # 0
      BY <2>3, EmptySeq
    <3>5. n - 1 \in Nat /\ (n - 1) + 1 = n
      BY ONLY <3>4, n \in Nat
    <3> PICK l \in Nat : l + 1 = n
      BY ONLY <3>5
    <3>1. v \in Short(l)
      BY <2>1, <2>3, AfterShorter
    <3> PICK k : k = Len(v)
      OBVIOUS
    <3>2. v \in Seq(ByteClasses) /\ k \in Nat /\ v \in Short(k) /\ v \in Short(n)
      BY <3>1 DEF Short
    <3>3. Level(n)[v] = Level(k)[v]
      BY ONLY <1>1, <3>2, AssemblesSame, n \in Nat
    <3> QED BY <3>2, <3>3
  <2>4. AssembledFrom(Level(n), u) = AssembledFrom(F, u)
    BY ONLY <2>3, FromSame
  <2> QED BY <2>2, <2>4
<1>3. Assembles(F, Seq(ByteClasses))
  <2>1. DOMAIN F = Seq(ByteClasses) /\ F = [u \in DOMAIN F |-> F[u]]
    OBVIOUS
  <2> QED BY ONLY <1>2, <2>1, AssemblesBy
<1>4. Assembled = CHOOSE f : Assembles(f, Seq(ByteClasses))
  BY DEF Assembled, Assembles, AssembledFrom
<1>5. Assembles(Assembled, Seq(ByteClasses))
  BY ONLY <1>3, <1>4
<1> QED
  BY ONLY <1>5, AssemblesAt, s \in Seq(ByteClasses)

(* What the loop makes of some bytes.                                      *)
ReadAs(s, a) ==
  /\ a = [text |-> a.text, rest |-> a.rest]
  /\ a.text \in Seq(Chars) /\ a.rest \in Seq(ByteClasses)
  /\ BytesOf(a.text) \o a.rest = s
  /\ a.rest = <<>> \/ a.rest \in Beginnings
  /\ StandsAll(a.text, s, FALSE)

LEMMA ReadNothing ==
  ASSUME NEW s \in Seq(ByteClasses), s = <<>> \/ s \in Beginnings
  PROVE  ReadAs(s, [text |-> <<>>, rest |-> s])
<1>0. [bytes |-> <<>>, ok |-> TRUE] \in Chars
  BY DEF Chars
<1>1. <<>> \in Seq(Chars) /\ Len(<<>>) = 0
  OBVIOUS
<1>2. BytesOf(<<>>) = <<>> /\ <<>> \o s = s
  BY <1>0, <1>1, BytesOfAppend, ConcatEmptySeq
<1>3. StandsAll(<<>>, s, FALSE)
  BY <1>1 DEF StandsAll
<1> QED
  BY <1>1, <1>2, <1>3 DEF ReadAs

LEMMA ReadFirst ==
  ASSUME NEW s \in Seq(ByteClasses), s # <<>>, NEW n, n = Matching(s), ~Incomplete(s, n),
         NEW a, ReadAs(SubSeq(s, n + 1, Len(s)), a)
  PROVE  ReadAs(s, [text |-> <<Char(SubSeq(s, 1, n), Valid(s, n))>> \o a.text, rest |-> a.rest])
<1>1. Matches(s, n) /\ n \in 1 .. Len(s)
  BY MatchingIs DEF Matches
<1>12. Splits(ByteClasses, s, n)
  BY <1>1, SplitAt
<1> PICK d \in Seq(ByteClasses), b \in Seq(ByteClasses) :
      s = d \o b /\ d = SubSeq(s, 1, n) /\ b = SubSeq(s, n + 1, Len(s)) /\ Len(d) = n
  BY ONLY <1>12 DEF Splits
<1>2. /\ a.text \in Seq(Chars) /\ a.rest \in Seq(ByteClasses) /\ BytesOf(a.text) \o a.rest = b
      /\ a.rest = <<>> \/ a.rest \in Beginnings
      /\ StandsAll(a.text, b, FALSE)
  BY DEF ReadAs
<1> PICK c : c = Char(SubSeq(s, 1, n), Valid(s, n))
  OBVIOUS
<1>3. c \in Chars /\ c.bytes = d
  <2>1. Valid(s, n) \in BOOLEAN
    BY DEF Valid
  <2> QED BY <2>1 DEF Char, Chars
<1>4. Stands(c, n, s, FALSE)
  BY <1>1, FirstChar
<1>13. <<c>> \in Seq(Chars) /\ Len(<<c>>) = 1 /\ <<c>>[1] = c
  <2> PICK x \in Chars : x = c
    BY <1>3
  <2>1. <<x>> \in Seq(Chars) /\ Len(<<x>>) = 1 /\ <<x>>[1] = x
    BY ONLY x \in Chars
  <2> QED BY ONLY <2>1, x = c
<1> PICK t \in Seq(Chars) : t = <<c>> /\ Len(t) = 1 /\ t[1] = c
  BY ONLY <1>13
<1>5. SubSeq(t, 1, 1) = t
  BY SubSeqFull
<1>6. BytesOf(t) = d
  <2>1. t = Append(<<>>, c) /\ <<>> \in Seq(Chars)
    BY <1>3
  <2>2. BytesOf(t) = <<>> \o d
    BY <1>3, <2>1, BytesOfAppend
  <2> QED BY <2>2, ConcatEmptySeq
<1>8. StandsAll(t, BytesOf(t) \o b, FALSE)
  <2>1. UpTo(t, 1) = n
    BY <1>5, <1>6 DEF UpTo
  <2>2. \A i \in 1 .. Len(t) : i = 1
    BY ONLY Len(t) = 1
  <2>3. Stands(t[1], UpTo(t, 1), BytesOf(t) \o b, FALSE)
    BY <1>4, <1>6, <2>1
  <2> QED BY ONLY <2>2, <2>3 DEF StandsAll
<1>9. /\ BytesOf(t \o a.text) \o a.rest = s
      /\ StandsAll(t \o a.text, s, FALSE)
  <2> PICK u \in Seq(Chars), rest \in Seq(ByteClasses) : u = a.text /\ rest = a.rest
    BY <1>2
  <2>1. b = BytesOf(u) \o rest /\ StandsAll(u, b, FALSE)
    BY <1>2
  <2>2. Joins(t, u, rest, b)
    BY ONLY <1>8, <2>1, StandsConcat, t \in Seq(Chars), u \in Seq(Chars), rest \in Seq(ByteClasses)
  <2>3. BytesOf(t \o u) \o rest = s /\ StandsAll(t \o u, s, FALSE)
    <3>1. BytesOf(t) \o b = s
      BY ONLY <1>6, s = d \o b
    <3> QED BY ONLY <2>2, <3>1 DEF Joins
  <2> QED BY ONLY <2>3, u = a.text, rest = a.rest
<1>10. t \o a.text \in Seq(Chars)
  <2> PICK u : u = a.text
    OBVIOUS
  <2>1. u \in Seq(Chars)
    BY ONLY <1>2, u = a.text
  <2>2. t \o u \in Seq(Chars)
    BY ONLY <2>1, t \in Seq(Chars)
  <2> QED BY ONLY <2>2, u = a.text
<1>11. ReadAs(s, [text |-> t \o a.text, rest |-> a.rest])
  BY <1>2, <1>9, <1>10 DEF ReadAs
<1> QED
  BY <1>11

LEMMA AssembledRight ==
  ASSUME NEW s \in Seq(ByteClasses) PROVE ReadAs(s, Assembled[s])
<1> DEFINE S == {k \in Nat : \A u \in Seq(ByteClasses) : Len(u) <= k => ReadAs(u, Assembled[u])}
<1>1. 0 \in S
  <2> SUFFICES ASSUME NEW u \in Seq(ByteClasses), Len(u) <= 0 PROVE ReadAs(u, Assembled[u])
    OBVIOUS
  <2>1. u = <<>>
    BY EmptySeq
  <2>2. AssembledFrom(Assembled, u) = [text |-> <<>>, rest |-> u]
    BY ONLY <2>1 DEF AssembledFrom
  <2> QED BY <2>1, <2>2, AssembledIs, ReadNothing
<1>2. ASSUME NEW k \in Nat, k \in S PROVE k + 1 \in S
  <2> SUFFICES ASSUME NEW u \in Seq(ByteClasses), Len(u) <= k + 1 PROVE ReadAs(u, Assembled[u])
    OBVIOUS
  <2> PICK n : n = Matching(u)
    OBVIOUS
  <2>0. Assembled[u] = AssembledFrom(Assembled, u)
    BY AssembledIs
  <2>1. CASE u = <<>>
    <3>1. AssembledFrom(Assembled, u) = [text |-> <<>>, rest |-> u]
      BY ONLY <2>1 DEF AssembledFrom
    <3> QED BY <2>0, <2>1, <3>1, ReadNothing
  <2>2. CASE u # <<>> /\ Incomplete(u, n)
    <3>1. u \in Beginnings
      BY <2>2, MatchingIs, FirstChar
    <3>2. AssembledFrom(Assembled, u) = [text |-> <<>>, rest |-> u]
      BY ONLY <2>2, n = Matching(u) DEF AssembledFrom
    <3> QED BY <2>0, <3>1, <3>2, ReadNothing
  <2>3. CASE u # <<>> /\ ~Incomplete(u, n)
    <3>1. u \in Short(k + 1)
      BY DEF Short
    <3>2. After(u) \in Short(k)
      BY <2>3, <3>1, AfterShorter
    <3> PICK b \in Seq(ByteClasses) : b = SubSeq(u, n + 1, Len(u)) /\ Len(b) <= k
      BY <3>2 DEF After, Short
    <3>3. ReadAs(b, Assembled[b])
      BY <1>2
    <3>4. AssembledFrom(Assembled, u) =
            [text |-> <<Char(SubSeq(u, 1, n), Valid(u, n))>> \o Assembled[b].text,
             rest |-> Assembled[b].rest]
      BY ONLY <2>3, n = Matching(u), b = SubSeq(u, n + 1, Len(u)) DEF AssembledFrom
    <3>5. ReadAs(u, [text |-> <<Char(SubSeq(u, 1, n), Valid(u, n))>> \o Assembled[b].text,
                   rest |-> Assembled[b].rest])
      BY ONLY <2>3, <3>3, n = Matching(u), b = SubSeq(u, n + 1, Len(u)), u \in Seq(ByteClasses),
         ReadFirst
    <3> QED BY ONLY <2>0, <3>4, <3>5
  <2> QED BY <2>1, <2>2, <2>3
<1>3. \A k \in Nat : k \in S
  <2> HIDE DEF S
  <2> QED BY <1>1, <1>2, Induction
<1>4. Len(s) \in S /\ Len(s) \in Nat
  BY <1>3
<1> QED
  BY <1>4

-------------------------------------------------------------------------------
(* The stream.                                                             *)

BufferInv ==
  /\ text \in Seq(Chars) /\ pending \in Seq(ByteClasses) /\ ended \in BOOLEAN
  /\ BytesOf(text) \o pending = fed
  /\ pending = <<>> \/ pending \in Beginnings
  /\ StandsAll(text, fed, ended)

LEMMA UpToFed ==
  ASSUME BufferInv, NEW i \in 1 .. Len(text) PROVE UpTo(text, i) \in 0 .. Len(fed)
<1>0. [bytes |-> <<>>, ok |-> TRUE] \in Chars
  BY DEF Chars
<1>1. text \in Seq(Chars) /\ pending \in Seq(ByteClasses) /\ fed = BytesOf(text) \o pending
  BY DEF BufferInv
<1>2. BytesOf(text) \in Seq(ByteClasses)
  BY <1>0, <1>1, BytesOfAppend
<1>3. Len(fed) = Len(BytesOf(text)) + Len(pending) /\ Len(pending) \in Nat
  BY <1>1, <1>2
<1>4. UpTo(text, i) \in Nat /\ UpTo(text, i) <= Len(BytesOf(text)) /\ Len(BytesOf(text)) \in Nat
  BY <1>1, UpToIs
<1> QED
  BY ONLY <1>3, <1>4

LEMMA PushKept ==
  ASSUME BufferInv, NEW bytes \in Seq(ByteClasses), bytes # <<>>, Push(bytes) PROVE BufferInv'
<1>1. /\ text \in Seq(Chars) /\ pending \in Seq(ByteClasses) /\ fed = BytesOf(text) \o pending
      /\ StandsAll(text, fed, FALSE) /\ ended = FALSE
  BY DEF BufferInv, Push
<1>12. pending \o bytes \in Seq(ByteClasses)
  BY ONLY <1>1, ConcatProperties, bytes \in Seq(ByteClasses)
<1> PICK s \in Seq(ByteClasses) : s = pending \o bytes
  BY <1>12
<1> PICK a : a = Assembled[s]
  OBVIOUS
<1>2. text' = text \o a.text /\ pending' = a.rest /\ fed' = fed \o bytes /\ ended' = ended
  BY DEF Push
<1>3. ReadAs(s, a)
  BY AssembledRight
<1>4. /\ a.text \in Seq(Chars) /\ a.rest \in Seq(ByteClasses) /\ s = BytesOf(a.text) \o a.rest
      /\ a.rest = <<>> \/ a.rest \in Beginnings
      /\ StandsAll(a.text, s, FALSE)
  BY <1>3 DEF ReadAs
<1>0. [bytes |-> <<>>, ok |-> TRUE] \in Chars
  BY DEF Chars
<1>5. BytesOf(text) \in Seq(ByteClasses) /\ fed \in Seq(ByteClasses)
  BY <1>0, <1>1, BytesOfAppend
<1>6. fed \o bytes = BytesOf(text) \o s
  <2> PICK x \in Seq(ByteClasses), y \in Seq(ByteClasses) : x = BytesOf(text) /\ y = pending
    BY ONLY <1>1, <1>5
  <2>1. (x \o y) \o bytes = x \o (y \o bytes)
    BY ONLY BytesAssociative, x \in Seq(ByteClasses), y \in Seq(ByteClasses),
            bytes \in Seq(ByteClasses)
  <2> QED BY ONLY <1>1, <2>1, x = BytesOf(text), y = pending, s = pending \o bytes
<1>7. StandsAll(text, BytesOf(text) \o s, FALSE)
  <2>1. ASSUME NEW i \in 1 .. Len(text) PROVE Stands(text[i], UpTo(text, i), fed \o bytes, FALSE)
    <3>1. text[i] \in Chars /\ UpTo(text, i) \in 0 .. Len(fed)
      BY <1>1, UpToFed
    <3>2. Stands(text[i], UpTo(text, i), fed, FALSE)
      BY <1>1 DEF StandsAll
    <3> QED BY ONLY <1>5, <3>1, <3>2, StandsGrows, bytes \in Seq(ByteClasses), bytes # <<>>
  <2> QED BY <1>6, <2>1 DEF StandsAll
<1>8. /\ BytesOf(text \o a.text) \o a.rest = BytesOf(text) \o s
      /\ StandsAll(text \o a.text, BytesOf(text) \o s, FALSE)
  <2>4. text \in Seq(Chars) /\ a.text \in Seq(Chars) /\ a.rest \in Seq(ByteClasses)
    BY ONLY <1>1, <1>4
  <2> PICK t : t = text
    OBVIOUS
  <2> PICK u : u = a.text
    OBVIOUS
  <2> PICK rest : rest = a.rest
    OBVIOUS
  <2>5. t \in Seq(Chars) /\ u \in Seq(Chars) /\ rest \in Seq(ByteClasses)
    BY ONLY <2>4, t = text, u = a.text, rest = a.rest
  <2>1. s = BytesOf(u) \o rest /\ StandsAll(u, s, FALSE) /\ StandsAll(t, BytesOf(t) \o s, FALSE)
    BY ONLY <1>4, <1>7, t = text, u = a.text, rest = a.rest
  <2>2. Joins(t, u, rest, s)
    BY ONLY <2>1, <2>5, StandsConcat
  <2>3. BytesOf(t \o u) \o rest = BytesOf(t) \o s /\ StandsAll(t \o u, BytesOf(t) \o s, FALSE)
    BY ONLY <2>2 DEF Joins
  <2> QED BY ONLY <2>3, t = text, u = a.text, rest = a.rest
<1>9. text \o a.text \in Seq(Chars)
  BY ONLY <1>1, <1>4, ConcatProperties
<1>10. BytesOf(text') \o pending' = fed' /\ StandsAll(text', fed', ended')
  BY ONLY <1>1, <1>2, <1>6, <1>8
<1>11. StandsAll(text, fed, ended)' /\ (BytesOf(text) \o pending = fed)'
  BY ONLY <1>10 DEF StandsAll, UpTo, BytesOf
<1> QED
  BY ONLY <1>1, <1>2, <1>4, <1>9, <1>11 DEF BufferInv

LEMMA FinishKept == ASSUME BufferInv, FinishStream PROVE BufferInv'
<1>1. /\ text \in Seq(Chars) /\ pending \in Seq(ByteClasses) /\ fed = BytesOf(text) \o pending
      /\ StandsAll(text, fed, FALSE) /\ (pending = <<>> \/ pending \in Beginnings)
      /\ ended' = TRUE /\ pending' = <<>> /\ fed' = fed
  BY DEF BufferInv, FinishStream
<1>0. [bytes |-> <<>>, ok |-> TRUE] \in Chars
  BY DEF Chars
<1>2. BytesOf(text) \in Seq(ByteClasses) /\ fed \in Seq(ByteClasses) /\ Len(text) \in Nat
  BY <1>0, <1>1, BytesOfAppend
<1>3. \A i \in 1 .. Len(text) : Stands(text[i], UpTo(text, i), fed, TRUE)
  BY <1>1 DEF StandsAll, Stands
<1>4. CASE pending = <<>>
  <2>1. text' = text
    BY <1>4 DEF FinishStream
  <2>2. StandsAll(text, fed, ended)'
    BY <1>1, <1>3, <2>1 DEF StandsAll, UpTo
  <2>3. (BytesOf(text) \o pending = fed)'
    BY <1>1, <1>4, <2>1
  <2> QED BY <1>1, <2>1, <2>2, <2>3 DEF BufferInv
<1>5. CASE pending # <<>>
  <2> PICK c : c = Char(pending, FALSE)
    OBVIOUS
  <2> PICK t : t = Append(text, c)
    OBVIOUS
  <2>1. text' = t
    BY <1>5 DEF FinishStream
  <2>2. c \in Chars /\ c.bytes = pending /\ ~c.ok
    BY <1>1 DEF Char, Chars
  <2>3. t \in Seq(Chars) /\ Len(t) = Len(text) + 1 /\ t[Len(text) + 1] = c
    BY ONLY <1>1, <2>2, AppendProperties, t = Append(text, c)
  <2>4. BytesOf(t) = fed
    BY <1>1, <2>2, BytesOfAppend
  <2>5. ASSUME NEW i \in 1 .. Len(text) PROVE t[i] = text[i] /\ UpTo(t, i) = UpTo(text, i)
    <3>2. t[i] = text[i]
      BY ONLY <1>1, <2>2, AppendProperties, t = Append(text, c), i \in 1 .. Len(text)
    <3>3. t = text \o <<c>> /\ <<c>> \in Seq(Chars)
      BY ONLY <1>1, <2>2, AppendIsConcat, t = Append(text, c)
    <3>4. 1 \in 1 .. Len(text)
      BY ONLY <1>2, i \in 1 .. Len(text)
    <3>5. SubSeq(text \o <<c>>, 1, i) = SubSeq(text, 1, i)
      BY ONLY <1>1, <3>3, <3>4, SubSeqOfConcat1, i \in 1 .. Len(text)
    <3>1. SubSeq(t, 1, i) = SubSeq(text, 1, i) /\ t[i] = text[i]
      BY <3>2, <3>3, <3>5
    <3> QED BY <3>1 DEF UpTo
  <2>6. UpTo(t, Len(text) + 1) = Len(fed)
    <3>1. SubSeq(t, 1, Len(text) + 1) = t
      BY <2>3, SubSeqFull
    <3> QED BY <2>4, <3>1 DEF UpTo
  <2>7. Stands(c, Len(fed), fed, TRUE)
    BY <1>1, <1>5, <2>2, BeginningNotWhole DEF Stands
  <2>8. \A i \in 1 .. Len(t) : Stands(t[i], UpTo(t, i), fed, TRUE)
    <3> TAKE i \in 1 .. Len(t)
    <3>1. i \in 1 .. Len(text) \/ i = Len(text) + 1
      BY ONLY <1>2, <2>3, i \in 1 .. Len(t)
    <3> QED BY <1>3, <2>3, <2>5, <2>6, <2>7, <3>1
  <2>9. StandsAll(text, fed, ended)'
    BY <1>1, <2>1, <2>8 DEF StandsAll, UpTo
  <2>10. (BytesOf(text) \o pending = fed)'
    <3>1. fed \o <<>> = fed
      BY <1>2, ConcatEmptySeq
    <3>2. BytesOf(text') \o pending' = fed'
      BY ONLY <1>1, <2>1, <2>4, <3>1
    <3> QED BY ONLY <3>2 DEF BytesOf
  <2>11. text' \in Seq(Chars) /\ pending' \in Seq(ByteClasses) /\ ended' \in BOOLEAN
         /\ pending' = <<>>
    <3>1. <<>> \in Seq(ByteClasses)
      OBVIOUS
    <3> QED BY ONLY <1>1, <2>1, <2>3, <3>1
  <2> QED BY ONLY <2>9, <2>10, <2>11 DEF BufferInv
<1> QED
  BY <1>4, <1>5

LEMMA BufferStarts == BufferInit => BufferInv
<1> SUFFICES ASSUME BufferInit PROVE BufferInv
  OBVIOUS
<1>1. pending = <<>> /\ text = <<>> /\ fed = <<>> /\ ended = FALSE
  BY DEF BufferInit
<1>2. <<>> \in Seq(ByteClasses)
  OBVIOUS
<1>3. ReadAs(<<>>, [text |-> <<>>, rest |-> <<>>])
  BY <1>2, ReadNothing
<1> QED
  BY <1>1, <1>2, <1>3 DEF ReadAs, BufferInv

LEMMA BufferTextExact == BufferInv => TextExact
<1> SUFFICES ASSUME BufferInv PROVE TextExact
  OBVIOUS
<1>1. /\ text \in Seq(Chars) /\ BytesOf(text) \o pending = fed
      /\ pending = <<>> \/ pending \in Beginnings
      /\ StandsAll(text, fed, ended)
  BY DEF BufferInv
<1>2. DOMAIN text = 1 .. Len(text)
  BY <1>1
<1>3. \A i \in DOMAIN text : Stands(text[i], UpTo(text, i), fed, ended)
  BY <1>1, <1>2 DEF StandsAll
<1> QED
  BY ONLY <1>1, <1>3 DEF TextExact, Stands, UpTo

(* However a stream of bytes is cut into tokens, what the buffer has       *)
(* returned is its decoding, and what it holds back is the beginning of a  *)
(* character (Utf8StreamBuffer, push and finish).                          *)
THEOREM TextAlwaysExact == BufferSpec => []TextExact
<1>1. ASSUME BufferInv, [BufferNext]_bufferVars PROVE BufferInv'
  <2>1. ASSUME NEW b \in Bytes, Push(<<b>>) PROVE BufferInv'
    <3>1. <<b>> \in Seq(ByteClasses) /\ <<b>> # <<>>
      BY ByteAssumption
    <3> QED BY <1>1, <2>1, <3>1, PushKept
  <2>2. ASSUME NEW b \in Bytes, NEW c \in Bytes, Push(<<b, c>>) PROVE BufferInv'
    <3>1. <<b, c>> \in Seq(ByteClasses) /\ <<b, c>> # <<>>
      BY ByteAssumption
    <3> QED BY <1>1, <2>2, <3>1, PushKept
  <2>3. CASE UNCHANGED bufferVars
    BY <1>1, <2>3 DEF bufferVars, BufferInv, StandsAll, UpTo, BytesOf
  <2> QED
    BY <1>1, <2>1, <2>2, <2>3, FinishKept DEF BufferNext
<1> QED
  BY <1>1, BufferStarts, BufferTextExact, PTL DEF BufferSpec

-------------------------------------------------------------------------------
(* The paged decode kernel. A division, and the numbers of one residue.    *)

LEMMA DivisionIs ==
  ASSUME NEW a \in Nat, NEW d \in Nat \ {0}
  PROVE  /\ a \div d \in Nat /\ a % d \in 0 .. d - 1
         /\ a = d * (a \div d) + (a % d) /\ a = (a % d) + (a \div d) * d
OBVIOUS

LEMMA DivisionBy ==
  ASSUME NEW q \in Nat, NEW d \in Nat \ {0}, NEW r \in 0 .. d - 1
  PROVE  (q * d + r) \div d = q /\ (q * d + r) % d = r
OBVIOUS

LEMMA NextResidue ==
  ASSUME NEW d \in Nat \ {0}, NEW b \in Nat
  PROVE  (b + d) % d = b % d
<1> PICK q \in Nat, r \in 0 .. d - 1 : q = b \div d /\ r = b % d /\ b = d * q + r
  BY DivisionIs
<1>1. b + d = (q + 1) * d + r /\ q + 1 \in Nat
  BY ONLY b = d * q + r, q \in Nat, r \in 0 .. d - 1, d \in Nat \ {0}
<1>2. ((q + 1) * d + r) % d = r
  BY ONLY <1>1, DivisionBy, d \in Nat \ {0}, r \in 0 .. d - 1
<1> QED
  BY ONLY <1>1, <1>2, r = b % d

LEMMA OneOfResidue ==
  ASSUME NEW d \in Nat \ {0}, NEW b \in Nat, NEW q \in Nat, b <= q, q < b + d, q % d = b % d
  PROVE  q = b
OBVIOUS

LEMMA BelowBlocks ==
  ASSUME NEW n \in Nat, NEW size \in Nat \ {0}
  PROVE  /\ BlocksFor(n, size) \in Nat
         /\ \A j \in 0 .. n - 1 : j \div size \in 0 .. BlocksFor(n, size) - 1
         /\ \A q \in 0 .. BlocksFor(n, size) - 1 : q * size < n
<1>1. (n + size - 1) \div size \in Nat
  OBVIOUS
<1>2. \A j \in 0 .. n - 1 : j \div size \in 0 .. ((n + size - 1) \div size) - 1
  OBVIOUS
<1>3. \A q \in 0 .. ((n + size - 1) \div size) - 1 : q * size < n
  OBVIOUS
<1> QED
  BY <1>1, <1>2, <1>3 DEF BlocksFor

LEMMA BlocksAtMost ==
  ASSUME NEW n \in Nat, NEW size \in Nat \ {0}, NEW most \in Nat, n <= most
  PROVE  BlocksFor(n, size) <= most
<1> PICK a \in Nat, q \in Nat, r \in 0 .. size - 1 :
      a = n + size - 1 /\ q = a \div size /\ a = size * q + r
  <2>1. n + size - 1 \in Nat
    OBVIOUS
  <2> QED BY <2>1, DivisionIs
<1>1. CASE q > n
  <2>1. size * q >= size * (n + 1) /\ size * (n + 1) = size * n + size
    BY <1>1
  <2>2. size * n >= n
    OBVIOUS
  <2> QED BY ONLY <1>1, <2>1, <2>2, a = n + size - 1, a = size * q + r, n \in Nat,
                  size \in Nat \ {0}, a \in Nat, q \in Nat, r \in 0 .. size - 1
<1>2. CASE q <= n
  BY ONLY <1>2, q = a \div size, a = n + size - 1, n <= most, n \in Nat, q \in Nat,
          most \in Nat DEF BlocksFor
<1> QED
  BY <1>1, <1>2

LEMMA LeastNumber ==
  ASSUME NEW s, s \subseteq Nat, s # {}
  PROVE  Min(s) \in s /\ \A x \in s : Min(s) <= x
<1> DEFINE S == {k \in Nat : (\E x \in s : x <= k) => \E x \in s : \A y \in s : x <= y}
<1>1. 0 \in S
  OBVIOUS
<1>2. ASSUME NEW k \in Nat, k \in S PROVE k + 1 \in S
  <2> SUFFICES ASSUME NEW x \in s, x <= k + 1 PROVE \E z \in s : \A y \in s : z <= y
    OBVIOUS
  <2>1. CASE \E z \in s : z <= k
    BY <1>2, <2>1
  <2>2. CASE ~\E z \in s : z <= k
    BY <2>2
  <2> QED BY <2>1, <2>2
<1>3. \A k \in Nat : k \in S
  <2> HIDE DEF S
  <2> QED BY <1>1, <1>2, Induction
<1>4. \E x \in s : \A y \in s : x <= y
  <2> PICK k : k \in s
    OBVIOUS
  <2>0. k \in Nat
    OBVIOUS
  <2>1. k \in S
    <3> HIDE DEF S
    <3> QED BY <1>3, <2>0
  <2>2. k <= k
    BY ONLY <2>0
  <2> QED BY <2>1, <2>2
<1> QED
  BY <1>4 DEF Min

(* A greatest of finitely many numbers.                                    *)
LEMMA GreatestOf ==
  ASSUME NEW n \in Nat \ {0}, NEW f \in [0 .. n - 1 -> Int]
  PROVE  /\ Max({f[p] : p \in 0 .. n - 1}) \in {f[p] : p \in 0 .. n - 1}
         /\ \A p \in 0 .. n - 1 : f[p] <= Max({f[p2] : p2 \in 0 .. n - 1})
<1> DEFINE S == {k \in Nat : k <= n - 1 => \E q \in 0 .. k : \A p \in 0 .. k : f[p] <= f[q]}
<1>1. 0 \in S
  OBVIOUS
<1>2. ASSUME NEW k \in Nat, k \in S PROVE k + 1 \in S
  <2> SUFFICES ASSUME k + 1 <= n - 1
               PROVE  \E q \in 0 .. k + 1 : \A p \in 0 .. k + 1 : f[p] <= f[q]
    OBVIOUS
  <2>1. PICK q \in 0 .. k : \A p \in 0 .. k : f[p] <= f[q]
    BY <1>2
  <2>2. f[q] \in Int /\ f[k + 1] \in Int /\ \A p \in 0 .. k : f[p] \in Int
    OBVIOUS
  <2>3. \A p \in 0 .. k + 1 : p \in 0 .. k \/ p = k + 1
    OBVIOUS
  <2>4. CASE f[q] <= f[k + 1]
    <3>1. \A p \in 0 .. k + 1 : f[p] <= f[k + 1]
      BY <2>1, <2>2, <2>3, <2>4
    <3> QED BY <3>1
  <2>5. CASE ~(f[q] <= f[k + 1])
    <3>1. \A p \in 0 .. k + 1 : f[p] <= f[q]
      BY <2>1, <2>2, <2>3, <2>5
    <3> QED BY <3>1
  <2> QED BY <2>4, <2>5
<1>3. \A k \in Nat : k \in S
  <2> HIDE DEF S
  <2> QED BY <1>1, <1>2, Induction
<1>4. PICK q \in 0 .. n - 1 : \A p \in 0 .. n - 1 : f[p] <= f[q]
  <2>1. n - 1 \in S /\ n - 1 <= n - 1
    <3> HIDE DEF S
    <3> QED BY <1>3
  <2> QED BY <2>1
<1> PICK T : T = {f[p] : p \in 0 .. n - 1}
  OBVIOUS
<1>5. f[q] \in T /\ \A y \in T : f[q] >= y
  BY <1>4
<1>6. Max(T) \in T /\ \A y \in T : Max(T) >= y
  BY <1>5 DEF Max
<1>7. \A y \in T : y \in Int
  OBVIOUS
<1> QED
  BY ONLY <1>6, <1>7, T = {f[p] : p \in 0 .. n - 1}

-------------------------------------------------------------------------------
(* The launch's numbers.                                                   *)

LEMMA PowersAre == Powers \subseteq Nat /\ 1 \in Powers /\ 2 ^ MaxBits \in Powers
BY DEF Powers, MaxBits

LEMMA FloorsAre ==
  ASSUME NEW n \in Nat \ {0} PROVE FloorPowerOfTwo(n) \in Nat \ {0}
<1> PICK U : U = {x \in Powers : x <= n}
  OBVIOUS
<1> PICK T : T = {x \in 1 .. n : x \in Powers}
  OBVIOUS
<1>1. \A x \in U : x = 0 \/ x \in T
  BY PowersAre
<1>2. 1 \in T /\ T \in SUBSET (1 .. n)
  BY PowersAre
<1>3. Max(T) \in T /\ \A x \in T : Max(T) >= x
  <2>1. T # {}
    BY ONLY <1>2
  <2> QED BY ONLY <1>2, <2>1, GreatestNumber, n \in Nat \ {0}
<1> PICK m \in 1 .. n : m \in Powers /\ \A x \in T : m >= x
  BY ONLY <1>3, T = {x \in 1 .. n : x \in Powers}
<1>4. m \in U /\ \A y \in U : m >= y
  BY ONLY <1>1, m \in 1 .. n, m \in Powers, \A x \in T : m >= x, n \in Nat \ {0},
          U = {x \in Powers : x <= n}
<1>5. Max(U) \in U /\ \A y \in U : Max(U) >= y
  BY ONLY <1>4 DEF Max
<1> PICK g : g = Max(U)
  OBVIOUS
<1>6. g \in Nat
  BY ONLY <1>5, g = Max(U), PowersAre, U = {x \in Powers : x <= n}
<1>7. g >= m
  BY ONLY <1>4, <1>5, g = Max(U)
<1>8. g \in Nat \ {0}
  BY ONLY <1>6, <1>7, m \in 1 .. n, n \in Nat \ {0}
<1> QED
  BY ONLY <1>8, g = Max(U), U = {x \in Powers : x <= n} DEF FloorPowerOfTwo

LEMMA NextAre ==
  ASSUME NEW n \in Nat \ {0}, n <= 2 ^ MaxBits PROVE NextPowerOfTwo(n) \in Nat \ {0}
<1> PICK U : U = {x \in Powers : x >= n}
  OBVIOUS
<1>1. \A x \in U : x \in Nat /\ x >= n
  BY PowersAre
<1>2. U \subseteq Nat
  BY ONLY <1>1
<1>3. U # {}
  <2> PICK m \in Powers : m = 2 ^ MaxBits
    BY ONLY PowersAre
  <2>1. m \in Nat /\ n <= m
    BY PowersAre
  <2>2. m >= n
    BY ONLY <2>1, n \in Nat \ {0}
  <2> QED BY ONLY <2>2, m \in Powers, U = {x \in Powers : x >= n}
<1>4. Min(U) \in U
  BY ONLY <1>2, <1>3, LeastNumber
<1> PICK g : g = Min(U)
  OBVIOUS
<1>5. g \in Nat /\ g >= n
  BY ONLY <1>1, <1>4, g = Min(U)
<1>6. g \in Nat \ {0}
  BY ONLY <1>5, n \in Nat \ {0}
<1> QED
  BY ONLY <1>6, g = Min(U), U = {x \in Powers : x >= n} DEF NextPowerOfTwo

Rounds == DecodeRounds \cup {CheckRound}

LEMMA RoundIs ==
  ASSUME NEW r \in Rounds
  PROVE  /\ r.kvHeads \in Nat \ {0} /\ r.nRep \in Nat \ {0}
         /\ r.headDim \in Nat \ {0} /\ r.blockSize \in Nat \ {0}
         /\ Len(r.lens) \in Nat \ {0} /\ r.lens \in [1 .. Len(r.lens) -> Nat \ {0}]
         /\ r.table \in [1 .. Len(r.table) -> Nat] /\ Len(r.table) \in Nat
         /\ BlocksPerLane(r) \in Nat
<1>1. Decodable(r)
  BY DecodeAssumption DEF Rounds
<1>2. /\ r.kvHeads \in Nat \ {0} /\ r.nRep \in Nat \ {0}
      /\ r.headDim \in Nat \ {0} /\ r.blockSize \in Nat \ {0}
      /\ r.lens \in Seq(Nat \ {0}) /\ r.lens # <<>> /\ r.table \in Seq(Nat)
  BY <1>1 DEF Decodable
<1>3. Len(r.lens) \in Nat \ {0} /\ r.lens \in [1 .. Len(r.lens) -> Nat \ {0}]
  BY <1>2, EmptySeq
<1>4. r.table \in [1 .. Len(r.table) -> Nat] /\ Len(r.table) \in Nat
  BY <1>2
<1>5. BlocksPerLane(r) \in Nat
  BY <1>3, <1>4, DivisionIs DEF BlocksPerLane
<1> QED
  BY <1>2, <1>3, <1>4, <1>5

(* A device whose planes fit it.                                           *)
LEMMA PlaneIs ==
  ASSUME device \in Devices, NEW r \in Rounds, Supported(r)
  PROVE  PlaneDim \in Nat \ {0}
<1>1. device.maxUnits \in Nat /\ device.maxCubeX \in Nat
  BY DecodeAssumption DEF Reported
<1>2. Min({device.maxUnits, device.maxCubeX}) \in Nat
  BY <1>1, LeastNumber
<1> QED
  BY <1>2 DEF Supported, PlaneDim

LEMMA WidthIs ==
  ASSUME device \in Devices, NEW r \in Rounds, Supported(r)
  PROVE  VectorWidth(r) \in Nat \ {0} /\ r.headDim % VectorWidth(r) = 0
<1> DEFINE fits == {w \in device.widths : w <= r.headDim \div PlaneDim /\ r.headDim % w = 0}
<1>1. r.headDim \in Nat \ {0} /\ PlaneDim \in Nat \ {0} /\ device.widths \subseteq Nat \ {0}
  BY RoundIs, PlaneIs, DecodeAssumption DEF Reported
<1> PICK n \in Nat : n = r.headDim \div PlaneDim
  BY <1>1, DivisionIs
<1>2. fits \in SUBSET (1 .. n)
  BY <1>1
<1>3. CASE fits = {}
  <2>1. VectorWidth(r) = 1
    BY <1>3 DEF VectorWidth
  <2>2. r.headDim % 1 = 0
    BY <1>1
  <2> QED BY <2>1, <2>2
<1>4. CASE fits # {}
  <2>1. VectorWidth(r) = Max(fits)
    BY <1>4 DEF VectorWidth
  <2>2. Max(fits) \in fits
    <3> HIDE DEF fits
    <3> QED BY <1>2, <1>4, GreatestNumber
  <2>3. Max(fits) \in Nat \ {0} /\ r.headDim % Max(fits) = 0
    BY <1>1, <2>2
  <2> QED BY ONLY <2>1, <2>3
<1> QED
  BY <1>3, <1>4

LEMMA PlanesAre ==
  ASSUME device \in Devices, NEW r \in Rounds, Supported(r)
  PROVE  PlanesPerCube(r) \in Nat \ {0}
<1>1. /\ device.targetPlanes \in Nat /\ device.targetPlanes <= 2 ^ MaxBits
      /\ device.maxUnits \in Nat /\ device.maxCubeY \in Nat /\ device.shared \in Nat
  BY DecodeAssumption DEF Reported
<1>2. /\ r.kvHeads \in Nat \ {0} /\ r.nRep \in Nat \ {0} /\ r.headDim \in Nat \ {0}
      /\ Len(r.lens) \in Nat \ {0} /\ BlocksPerLane(r) \in Nat
  BY RoundIs
<1>3. PlaneDim \in Nat \ {0} /\ VectorWidth(r) \in Nat \ {0}
  BY PlaneIs, WidthIs
<1> DEFINE cubes == Larger(Len(r.lens) * r.kvHeads, 1)
           asked == Larger(BlocksFor(device.targetPlanes, cubes), 1)
           floats == r.nRep * Dpu(r) * PlaneDim * VectorWidth(r) + 2 * r.nRep
           caps == {NextPowerOfTwo(asked), Larger(BlocksPerLane(r), 1),
                    Larger(device.maxUnits \div PlaneDim, 1), Larger(device.maxCubeY, 1),
                    Larger(device.shared \div (floats * 4), 1), 32}
<1>4. \A n \in Nat : Larger(n, 1) \in Nat \ {0}
  BY DEF Larger
<1>5. cubes \in Nat \ {0}
  <2>1. Len(r.lens) * r.kvHeads \in Nat
    BY ONLY <1>2
  <2> QED BY ONLY <1>4, <2>1
<1>6. asked \in Nat \ {0} /\ asked <= 2 ^ MaxBits
  <2> PICK c \in Nat \ {0} : c = cubes
    BY <1>5
  <2> PICK t \in Nat : t = device.targetPlanes /\ t <= 65536
    BY <1>1 DEF MaxBits
  <2>1. BlocksFor(t, c) \in Nat
    BY ONLY BelowBlocks, t \in Nat, c \in Nat \ {0}
  <2>2. BlocksFor(t, c) <= 65536
    <3>1. t <= 65536 => BlocksFor(t, c) <= 65536
      BY ONLY t \in Nat, c \in Nat \ {0}, BlocksAtMost, 65536 \in Nat
    <3> QED BY ONLY <3>1, t <= 65536
  <2>3. asked = Larger(BlocksFor(t, c), 1)
    OBVIOUS
  <2>4. asked \in Nat \ {0} /\ asked <= 65536
    <3> HIDE DEF asked
    <3> QED BY ONLY <2>1, <2>2, <2>3 DEF Larger
  <2> QED BY ONLY <2>4 DEF MaxBits
<1>7. NextPowerOfTwo(asked) \in Nat \ {0}
  <2> HIDE DEF asked
  <2> QED BY <1>6, NextAre
<1>8. floats \in Nat \ {0}
  <2>1. Dpu(r) \in Nat
    BY <1>2, <1>3, DivisionIs, BelowBlocks DEF Dpu, SlotsOf
  <2> PICK a \in Nat : a = r.nRep * Dpu(r) * PlaneDim * VectorWidth(r)
    <3>1. r.nRep * Dpu(r) \in Nat
      BY <1>2, <2>1
    <3>2. (r.nRep * Dpu(r)) * PlaneDim \in Nat
      BY <1>3, <3>1
    <3>3. ((r.nRep * Dpu(r)) * PlaneDim) * VectorWidth(r) \in Nat
      BY <1>3, <3>2
    <3> QED BY <3>3
  <2> QED BY ONLY <1>2, a \in Nat, a = r.nRep * Dpu(r) * PlaneDim * VectorWidth(r)
<1>9. device.maxUnits \div PlaneDim \in Nat
  BY <1>1, <1>3, DivisionIs
<1>10. device.shared \div (floats * 4) \in Nat
  <2> HIDE DEF floats
  <2>1. floats * 4 \in Nat \ {0}
    BY <1>8
  <2> QED BY <1>1, <2>1, DivisionIs
<1>11. /\ Larger(BlocksPerLane(r), 1) \in Nat \ {0}
       /\ Larger(device.maxUnits \div PlaneDim, 1) \in Nat \ {0}
       /\ Larger(device.maxCubeY, 1) \in Nat \ {0}
       /\ Larger(device.shared \div (floats * 4), 1) \in Nat \ {0}
       /\ 32 \in Nat \ {0}
  <2>1. Larger(BlocksPerLane(r), 1) \in Nat \ {0}
    BY ONLY <1>2, <1>4
  <2>2. Larger(device.maxUnits \div PlaneDim, 1) \in Nat \ {0}
    BY ONLY <1>4, <1>9
  <2>3. Larger(device.maxCubeY, 1) \in Nat \ {0}
    BY ONLY <1>1, <1>4
  <2>4. Larger(device.shared \div (floats * 4), 1) \in Nat \ {0}
    <3> PICK a \in Nat : a = device.shared \div (floats * 4)
      BY ONLY <1>10
    <3> QED BY ONLY <1>4, a \in Nat, a = device.shared \div (floats * 4)
  <2> QED BY ONLY <2>1, <2>2, <2>3, <2>4
<1>12. Min(caps) \in Nat \ {0}
  <2> HIDE DEF asked, floats
  <2>1. \A x \in caps : x \in Nat \ {0}
    BY ONLY <1>7, <1>11
  <2>2. caps # {}
    OBVIOUS
  <2> HIDE DEF caps
  <2>3. caps \subseteq Nat
    BY ONLY <2>1
  <2>4. Min(caps) \in caps
    BY ONLY <2>2, <2>3, LeastNumber
  <2> QED BY ONLY <2>1, <2>4
<1>13. PlanesPerCube(r) = FloorPowerOfTwo(Min(caps))
  BY DEF PlanesPerCube
<1> QED
  <2> HIDE DEF caps
  <2> QED BY <1>12, <1>13, FloorsAre

Grid(slots, w) == {s * w + k : s \in 0 .. slots - 1, k \in 0 .. w - 1}

(* The units of a plane cover a row.                                       *)
LEMMA DimsAre ==
  ASSUME device \in Devices, NEW r \in Rounds, Supported(r)
  PROVE  DimsOf(r) = 0 .. r.headDim - 1
<1> PICK w \in Nat \ {0} : w = VectorWidth(r) /\ r.headDim % VectorWidth(r) = 0
  BY WidthIs
<1> PICK plane \in Nat \ {0} : plane = PlaneDim
  BY PlaneIs
<1> PICK dim \in Nat \ {0} : dim = r.headDim
  BY RoundIs
<1> PICK slots \in Nat : slots = SlotsOf(r) /\ dim = w * slots
  <2> PICK q \in Nat : q = dim \div w /\ dim = w * q + (dim % w)
    BY ONLY DivisionIs, dim \in Nat \ {0}, w \in Nat \ {0}
  <2>1. dim % w = 0
    BY ONLY dim = r.headDim, w = VectorWidth(r), r.headDim % VectorWidth(r) = 0
  <2>2. SlotsOf(r) = q
    BY ONLY q = dim \div w, dim = r.headDim, w = VectorWidth(r) DEF SlotsOf
  <2>3. dim = w * q
    BY ONLY <2>1, dim = w * q + (dim % w), w \in Nat \ {0}, q \in Nat, dim \in Nat \ {0}
  <2> QED BY ONLY <2>2, <2>3, q \in Nat
<1> PICK dpu \in Nat : dpu = Dpu(r) /\ dpu = BlocksFor(slots, plane)
  BY BelowBlocks DEF Dpu
<1> DEFINE all == {u + i * plane : u \in 0 .. plane - 1, i \in 0 .. dpu - 1}
           live == {s \in all : s < slots}
<1>1. live = 0 .. slots - 1
  <2>1. ASSUME NEW s \in 0 .. slots - 1 PROVE s \in live
    <3>1. s \in Nat /\ s < slots
      BY ONLY s \in 0 .. slots - 1, slots \in Nat
    <3>2. s \div plane \in 0 .. dpu - 1
      BY ONLY BelowBlocks, slots \in Nat, plane \in Nat \ {0}, dpu = BlocksFor(slots, plane),
              s \in 0 .. slots - 1
    <3>3. s % plane \in 0 .. plane - 1 /\ s = (s % plane) + (s \div plane) * plane
      BY ONLY <3>1, DivisionIs, plane \in Nat \ {0}
    <3>4. s \in all
      <4> PICK u \in 0 .. plane - 1, i \in 0 .. dpu - 1 : s = u + i * plane
        BY ONLY <3>2, <3>3
      <4> QED OBVIOUS
    <3> QED BY ONLY <3>1, <3>4
  <2>2. ASSUME NEW s \in live PROVE s \in 0 .. slots - 1
    <3>1. PICK u \in 0 .. plane - 1, i \in 0 .. dpu - 1 : s = u + i * plane
      BY ONLY s \in live
    <3>2. i * plane \in Nat /\ u \in Nat
      BY ONLY u \in 0 .. plane - 1, i \in 0 .. dpu - 1, plane \in Nat \ {0}, dpu \in Nat
    <3>3. s < slots
      BY ONLY s \in live
    <3> QED BY ONLY <3>1, <3>2, <3>3, slots \in Nat
  <2> HIDE DEF live
  <2> QED BY ONLY <2>1, <2>2
<1>2. DimsOf(r) = Grid(slots, w)
  <2>1. DimsOf(r) = {s * w + k : s \in live, k \in 0 .. w - 1}
    BY ONLY w = VectorWidth(r), plane = PlaneDim, slots = SlotsOf(r), dpu = Dpu(r) DEF DimsOf
  <2> HIDE DEF live
  <2> QED BY ONLY <1>1, <2>1 DEF Grid
<1>3. ASSUME NEW d \in 0 .. dim - 1
      PROVE  \E s \in 0 .. slots - 1, k \in 0 .. w - 1 : d = s * w + k
  <2>1. d \in Nat /\ d < dim
    BY ONLY d \in 0 .. dim - 1, dim \in Nat \ {0}
  <2> PICK q : q = d \div w
    OBVIOUS
  <2> PICK k : k = d % w
    OBVIOUS
  <2>0. q \in Nat /\ k \in 0 .. w - 1 /\ d = w * q + k
    BY ONLY <2>1, DivisionIs, w \in Nat \ {0}, q = d \div w, k = d % w
  <2>2. q < slots
    <3> SUFFICES ASSUME q >= slots PROVE FALSE
      <4>1. q \in Nat
        BY ONLY <2>0
      <4> QED BY <4>1
    <3>1. w * q >= w * slots
      BY ONLY <2>0, slots \in Nat, w \in Nat \ {0}, q >= slots
    <3>2. w * q \in Nat /\ k \in Nat
      BY ONLY <2>0, w \in Nat \ {0}
    <3> QED BY ONLY <2>0, <2>1, <3>1, <3>2, dim = w * slots, dim \in Nat \ {0}
  <2>3. q \in 0 .. slots - 1 /\ d = q * w + k
    BY ONLY <2>0, <2>2, slots \in Nat, w \in Nat \ {0}
  <2> QED BY ONLY <2>0, <2>3
<1>4. ASSUME NEW s \in 0 .. slots - 1, NEW k \in 0 .. w - 1 PROVE s * w + k \in 0 .. dim - 1
  <2>1. (s + 1) * w <= slots * w /\ (s + 1) * w = s * w + w /\ s * w \in Nat /\ slots * w = dim
    BY ONLY s \in 0 .. slots - 1, slots \in Nat, w \in Nat \ {0}, dim = w * slots
  <2> QED BY ONLY <2>1, w \in Nat \ {0}, dim \in Nat \ {0}, k \in 0 .. w - 1
<1>5. ASSUME NEW d \in Grid(slots, w) PROVE d \in 0 .. dim - 1
  <2> PICK s \in 0 .. slots - 1, k \in 0 .. w - 1 : d = s * w + k
    BY ONLY d \in Grid(slots, w) DEF Grid
  <2> QED BY ONLY <1>4, s \in 0 .. slots - 1, k \in 0 .. w - 1, d = s * w + k
<1>6. ASSUME NEW d \in 0 .. dim - 1 PROVE d \in Grid(slots, w)
  <2> PICK s \in 0 .. slots - 1, k \in 0 .. w - 1 : d = s * w + k
    BY ONLY <1>3, d \in 0 .. dim - 1
  <2> QED BY ONLY s \in 0 .. slots - 1, k \in 0 .. w - 1, d = s * w + k DEF Grid
<1> QED
  BY ONLY <1>2, <1>5, <1>6, dim = r.headDim

-------------------------------------------------------------------------------
(* What a partial softmax of a cube holds: of each position of a part of   *)
(* the lane's history one term, under their greatest score.                *)

Term == [row : Nat \X Nat, exponent : Int]
Part == [m : Int, terms : Seq(Term)]

History(r, cube) == 0 .. r.lens[cube[1]] - 1
KeyAt(r, cube, j) == Score(cube[2], Position(r, cube[1], j))
TermAt(r, cube, j, m) == [row |-> Position(r, cube[1], j), exponent |-> KeyAt(r, cube, j) - m]

Terms(terms, r, cube, js, m) ==
  /\ terms \in Seq(Term) /\ Len(terms) = Cardinality(js)
  /\ Range(terms) = {TermAt(r, cube, j, m) : j \in js}

Topped(m, r, cube, js) ==
  /\ m \in Int
  /\ m = Sentinel <=> js = {}
  /\ js # {} => \E j \in js : m = KeyAt(r, cube, j)
  /\ \A j \in js : KeyAt(r, cube, j) <= m

Holds(part, r, cube, js) ==
  /\ part = [m |-> part.m, terms |-> part.terms] /\ js \subseteq History(r, cube)
  /\ Topped(part.m, r, cube, js) /\ Terms(part.terms, r, cube, js, part.m)

LEMMA HistoryFinite ==
  ASSUME NEW r \in Rounds, NEW cube \in Cubes(r), NEW js, js \subseteq History(r, cube)
  PROVE  IsFiniteSet(js)
<1>1. r.lens[cube[1]] - 1 \in Int
  <2>1. cube[1] \in 1 .. Len(r.lens)
    BY DEF Cubes
  <2> QED BY <2>1, RoundIs
<1>2. IsFiniteSet(0 .. r.lens[cube[1]] - 1)
  BY ONLY <1>1, FS_Interval, 0 \in Int
<1> QED
  BY ONLY <1>2, FS_Subset, js \subseteq History(r, cube) DEF History

LEMMA KeyIs ==
  ASSUME NEW r \in Rounds, NEW cube \in Cubes(r), NEW j \in History(r, cube)
  PROVE  /\ Position(r, cube[1], j) \in Nat \X Nat
         /\ KeyAt(r, cube, j) \in Int /\ KeyAt(r, cube, j) > Sentinel
<1> PICK lane \in 1 .. Len(r.lens) : lane = cube[1]
  BY DEF Cubes
<1> PICK kv \in 0 .. r.kvHeads - 1 : kv = cube[2]
  BY DEF Cubes
<1> PICK n \in Nat \ {0} : n = Len(r.lens)
  BY RoundIs
<1> PICK size \in Nat \ {0} : size = r.blockSize
  BY RoundIs
<1> PICK len \in Nat \ {0} : len = r.lens[lane]
  BY RoundIs
<1> PICK width \in Nat : width = BlocksPerLane(r)
  BY RoundIs
<1> PICK all \in Nat : all = Len(r.table)
  BY RoundIs
<1>1. j \in 0 .. len - 1 /\ j \in Nat
  BY ONLY j \in History(r, cube), lane = cube[1], len = r.lens[lane], len \in Nat \ {0} DEF History
<1> PICK b : b = j \div size
  OBVIOUS
<1> PICK t : t = j % size
  OBVIOUS
<1>2. b \in Nat /\ t \in 0 .. size - 1
  BY ONLY <1>1, DivisionIs, size \in Nat \ {0}, b = j \div size, t = j % size
<1>3. b < BlocksFor(len, size) /\ BlocksFor(len, size) \in Nat
  <2> PICK most : most = BlocksFor(len, size)
    OBVIOUS
  <2>1. most \in Nat /\ \A k \in 0 .. len - 1 : k \div size \in 0 .. most - 1
    BY ONLY BelowBlocks, size \in Nat \ {0}, len \in Nat \ {0}, most = BlocksFor(len, size)
  <2>2. b \in 0 .. most - 1
    BY ONLY <1>1, <2>1, b = j \div size
  <2>3. most \in Nat
    BY ONLY <2>1
  <2>4. b < most
    BY ONLY <2>2, <2>3
  <2> QED BY ONLY <2>3, <2>4, most = BlocksFor(len, size)
<1>4. Decodable(r)
  BY DecodeAssumption DEF Rounds
<1>5. BlocksFor(len, size) <= width
  <2>1. lane \in DOMAIN r.lens
    BY RoundIs
  <2>2. BlocksFor(r.lens[lane], r.blockSize) <= Len(r.table) \div Len(r.lens)
    BY ONLY <1>4, <2>1 DEF Decodable
  <2> QED BY ONLY <2>2, len = r.lens[lane], size = r.blockSize, width = BlocksPerLane(r)
             DEF BlocksPerLane
<1>6. n * width <= all
  <2>1. width = all \div n
    BY ONLY width = BlocksPerLane(r), all = Len(r.table), n = Len(r.lens) DEF BlocksPerLane
  <2>2. all = n * (all \div n) + (all % n) /\ all % n \in 0 .. n - 1
    BY ONLY DivisionIs, all \in Nat, n \in Nat \ {0}
  <2> QED BY ONLY <2>1, <2>2, all \in Nat, n \in Nat \ {0}, width \in Nat
<1> PICK i : i = (lane - 1) * width + b + 1
  OBVIOUS
<1>7. i \in 1 .. all
  <2>1. b + 1 <= width
    BY ONLY <1>2, <1>3, <1>5, width \in Nat
  <2>2. lane * width <= n * width /\ lane * width = (lane - 1) * width + width
        /\ (lane - 1) * width \in Nat /\ n * width \in Nat
    BY ONLY lane \in 1 .. Len(r.lens), n = Len(r.lens), n \in Nat \ {0}, width \in Nat
  <2> QED BY ONLY <1>2, <1>6, <2>1, <2>2, i = (lane - 1) * width + b + 1, width \in Nat, all \in Nat
<1>8. i \in DOMAIN r.table /\ r.table[i] \in Nat
  <2>1. r.table \in [1 .. Len(r.table) -> Nat]
    BY RoundIs
  <2> QED BY ONLY <1>7, <2>1, all = Len(r.table)
<1>9. Position(r, cube[1], j) = <<r.table[i], t>>
  BY ONLY lane = cube[1], b = j \div size, t = j % size, size = r.blockSize,
          width = BlocksPerLane(r), i = (lane - 1) * width + b + 1 DEF Position, BlockAt
<1>10. Score(kv, <<r.table[i], t>>) \in Int /\ Score(kv, <<r.table[i], t>>) > Sentinel
  BY ONLY <1>2, <1>4, <1>8, size = r.blockSize, kv \in 0 .. r.kvHeads - 1 DEF Decodable
<1>11. t \in Nat
  BY ONLY <1>2, size \in Nat \ {0}
<1> QED
  BY ONLY <1>8, <1>9, <1>10, <1>11, kv = cube[2] DEF KeyAt

LEMMA TermIs ==
  ASSUME NEW r \in Rounds, NEW cube \in Cubes(r), NEW j \in History(r, cube), NEW m \in Int
  PROVE  TermAt(r, cube, j, m) \in Term
BY KeyIs DEF TermAt, Term

LEMMA RangeIs ==
  ASSUME NEW S, NEW s \in Seq(S)
  PROVE  Range(s) = {s[i] : i \in 1 .. Len(s)}
<1>1. DOMAIN s = 1 .. Len(s)
  OBVIOUS
<1> QED
  BY ONLY <1>1 DEF Range

LEMMA RangeConcat ==
  ASSUME NEW S, NEW s \in Seq(S), NEW t \in Seq(S)
  PROVE  Range(s \o t) = Range(s) \cup Range(t)
<1> PICK u : u = s \o t
  OBVIOUS
<1>1. u \in Seq(S) /\ Len(u) = Len(s) + Len(t) /\ Len(s) \in Nat /\ Len(t) \in Nat
      /\ \A i \in 1 .. Len(s) + Len(t) : u[i] = IF i <= Len(s) THEN s[i] ELSE t[i - Len(s)]
  BY ConcatProperties
<1>2. Range(u) = {u[i] : i \in 1 .. Len(u)}
      /\ Range(s) = {s[i] : i \in 1 .. Len(s)} /\ Range(t) = {t[i] : i \in 1 .. Len(t)}
  BY ONLY <1>1, RangeIs, s \in Seq(S), t \in Seq(S)
<1>3. ASSUME NEW x \in Range(u) PROVE x \in Range(s) \cup Range(t)
  <2> PICK i \in 1 .. Len(u) : x = u[i]
    BY <1>2
  <2>1. CASE i <= Len(s)
    <3>1. i \in 1 .. Len(s) /\ x = s[i]
      BY ONLY <1>1, <2>1, i \in 1 .. Len(u), x = u[i]
    <3> QED BY ONLY <1>2, <3>1
  <2>2. CASE ~(i <= Len(s))
    <3>1. i - Len(s) \in 1 .. Len(t) /\ x = t[i - Len(s)]
      BY ONLY <1>1, <2>2, i \in 1 .. Len(u), x = u[i]
    <3> QED BY ONLY <1>2, <3>1
  <2> QED BY <2>1, <2>2
<1>4. ASSUME NEW x \in Range(s) PROVE x \in Range(u)
  <2> PICK i \in 1 .. Len(s) : x = s[i]
    BY <1>2
  <2>1. i \in 1 .. Len(u) /\ i \in 1 .. Len(s) + Len(t) /\ i <= Len(s)
    BY ONLY <1>1, i \in 1 .. Len(s)
  <2>2. x = u[i]
    BY ONLY <1>1, <2>1, x = s[i]
  <2> QED BY ONLY <1>2, <2>1, <2>2
<1>5. ASSUME NEW x \in Range(t) PROVE x \in Range(u)
  <2> PICK k \in 1 .. Len(t) : x = t[k]
    BY <1>2
  <2> PICK i : i = k + Len(s)
    OBVIOUS
  <2>1. i \in 1 .. Len(u) /\ i \in 1 .. Len(s) + Len(t) /\ ~(i <= Len(s)) /\ i - Len(s) = k
    BY ONLY <1>1, k \in 1 .. Len(t), i = k + Len(s)
  <2>2. x = u[i]
    BY ONLY <1>1, <2>1, x = t[k]
  <2> QED BY ONLY <1>2, <2>1, <2>2
<1> QED
  BY ONLY <1>3, <1>4, <1>5, u = s \o t

(* Two parts that share no position, under one maximum.                    *)
LEMMA TermsJoin ==
  ASSUME NEW r \in Rounds, NEW cube \in Cubes(r), NEW m,
         NEW js, js \subseteq History(r, cube), NEW ks, ks \subseteq History(r, cube),
         \A j \in js : j \notin ks, NEW s, Terms(s, r, cube, js, m), NEW t, Terms(t, r, cube, ks, m)
  PROVE  Terms(s \o t, r, cube, js \cup ks, m)
<1>1. IsFiniteSet(js) /\ IsFiniteSet(ks) /\ js \cap ks = {}
  BY HistoryFinite
<1>2. Cardinality(js \cup ks) = Cardinality(js) + Cardinality(ks)
  <2>1. Cardinality(js \cup ks) = Cardinality(js) + Cardinality(ks) - Cardinality(js \cap ks)
    BY ONLY <1>1, FS_Union
  <2>2. Cardinality(js \cap ks) = 0
    BY ONLY <1>1, FS_EmptySet
  <2>3. Cardinality(js) \in Nat /\ Cardinality(ks) \in Nat
    BY ONLY <1>1, FS_CardinalityType
  <2> QED BY ONLY <2>1, <2>2, <2>3
<1>3. s \in Seq(Term) /\ t \in Seq(Term) /\ Len(s) = Cardinality(js) /\ Len(t) = Cardinality(ks)
  BY DEF Terms
<1>4. s \o t \in Seq(Term) /\ Len(s \o t) = Len(s) + Len(t)
  BY ONLY <1>3, ConcatProperties
<1>5. Range(s \o t) = Range(s) \cup Range(t)
  BY ONLY <1>3, RangeConcat
<1>6. /\ Range(s) = {TermAt(r, cube, j, m) : j \in js}
      /\ Range(t) = {TermAt(r, cube, j, m) : j \in ks}
  BY DEF Terms
<1>7. Range(s \o t) = {TermAt(r, cube, j, m) : j \in js \cup ks}
  BY ONLY <1>5, <1>6
<1> QED
  BY ONLY <1>2, <1>3, <1>4, <1>7 DEF Terms

LEMMA TermsOfNone ==
  ASSUME NEW r, NEW cube, NEW m PROVE Terms(<<>>, r, cube, {}, m)
<1>1. <<>> \in Seq(Term) /\ Len(<<>>) = 0 /\ Range(<<>>) = {}
  BY DEF Range
<1>2. Cardinality({}) = 0
  BY FS_EmptySet
<1>3. {TermAt(r, cube, j, m) : j \in {}} = {}
  OBVIOUS
<1> QED
  BY ONLY <1>1, <1>2, <1>3 DEF Terms

LEMMA TermsOfOne ==
  ASSUME NEW r \in Rounds, NEW cube \in Cubes(r), NEW m \in Int, NEW j \in History(r, cube)
  PROVE  Terms(<<TermAt(r, cube, j, m)>>, r, cube, {j}, m)
<1> PICK t \in Term : t = TermAt(r, cube, j, m)
  BY TermIs
<1>1. <<t>> \in Seq(Term) /\ Len(<<t>>) = 1 /\ Range(<<t>>) = {t}
  BY DEF Range
<1>2. Cardinality({j}) = 1
  BY FS_Singleton
<1>3. {TermAt(r, cube, k, m) : k \in {j}} = {t}
  BY ONLY t = TermAt(r, cube, j, m)
<1> QED
  BY ONLY <1>1, <1>2, <1>3, t = TermAt(r, cube, j, m) DEF Terms

(* A change of the maximum, which of nothing leaves nothing.               *)
LEMMA RescaledIs ==
  ASSUME NEW r \in Rounds, NEW cube \in Cubes(r), NEW js, NEW part, Holds(part, r, cube, js),
         NEW new \in Int
  PROVE  Terms(Rescaled(part, new), r, cube, js, new)
<1> PICK m \in Int : m = part.m
  BY DEF Holds, Topped
<1> PICK terms : terms = part.terms /\ Terms(terms, r, cube, js, m)
  BY DEF Holds
<1>1. js \subseteq History(r, cube)
  BY DEF Holds
<1>2. CASE m = Sentinel
  <2>1. js = {}
    BY <1>2 DEF Holds, Topped
  <2>2. Rescaled(part, new) = <<>>
    BY ONLY <1>2, m = part.m DEF Rescaled
  <2> QED BY ONLY <2>1, <2>2, TermsOfNone
<1>3. CASE m # Sentinel
  <2> PICK n \in Nat : n = Len(terms)
    BY DEF Terms
  <2> PICK s : s = [i \in 1 .. n |-> [terms[i] EXCEPT !.exponent = @ + m - new]]
    OBVIOUS
  <2>1. Rescaled(part, new) = s
    <3>1. DOMAIN terms = 1 .. n
      BY DEF Terms
    <3> QED BY ONLY <1>3, <3>1, m = part.m, terms = part.terms,
                    s = [i \in 1 .. n |-> [terms[i] EXCEPT !.exponent = @ + m - new]] DEF Rescaled
  <2>2. /\ terms \in Seq(Term) /\ n = Cardinality(js)
        /\ Range(terms) = {TermAt(r, cube, j, m) : j \in js}
    BY DEF Terms
  <2>3. Range(terms) = {terms[i] : i \in 1 .. n}
    BY ONLY <2>2, RangeIs, n = Len(terms)
  <2>4. ASSUME NEW i \in 1 .. n, NEW j \in js, terms[i] = TermAt(r, cube, j, m)
        PROVE  s[i] = TermAt(r, cube, j, new) /\ s[i] \in Term
    <3> PICK row \in Nat \X Nat : row = Position(r, cube[1], j)
      BY <1>1, KeyIs
    <3> PICK key \in Int : key = KeyAt(r, cube, j)
      BY <1>1, KeyIs
    <3> PICK t : t = [row |-> row, exponent |-> key - m]
      OBVIOUS
    <3>1. terms[i] = t
      BY ONLY <2>4, row = Position(r, cube[1], j), key = KeyAt(r, cube, j),
              t = [row |-> row, exponent |-> key - m] DEF TermAt
    <3>2. s[i] = [t EXCEPT !.exponent = @ + m - new]
      BY ONLY <3>1, i \in 1 .. n, s = [k \in 1 .. n |-> [terms[k] EXCEPT !.exponent = @ + m - new]]
    <3>3. (key - m) + m - new = key - new /\ key - new \in Int
      BY ONLY key \in Int, m \in Int, new \in Int
    <3>4. s[i] = [row |-> row, exponent |-> key - new]
      BY ONLY <3>2, <3>3, t = [row |-> row, exponent |-> key - m]
    <3> QED BY ONLY <3>3, <3>4, row = Position(r, cube[1], j), key = KeyAt(r, cube, j),
                    row \in Nat \X Nat DEF TermAt, Term
  <2>5. \A i \in 1 .. n : \E j \in js : terms[i] = TermAt(r, cube, j, m)
    BY ONLY <2>2, <2>3
  <2>6. \A i \in 1 .. n : s[i] \in Term /\ \E j \in js : s[i] = TermAt(r, cube, j, new)
    BY ONLY <2>4, <2>5
  <2>7. \A j \in js : \E i \in 1 .. n : s[i] = TermAt(r, cube, j, new)
    <3>1. \A j \in js : \E i \in 1 .. n : terms[i] = TermAt(r, cube, j, m)
      BY ONLY <2>2, <2>3
    <3> QED BY ONLY <2>4, <3>1
  <2>8. s \in Seq(Term) /\ Len(s) = n
    BY ONLY <2>6, n \in Nat, s = [i \in 1 .. n |-> [terms[i] EXCEPT !.exponent = @ + m - new]]
  <2>9. Range(s) = {s[i] : i \in 1 .. n}
    BY ONLY <2>8, RangeIs
  <2>10. Range(s) = {TermAt(r, cube, j, new) : j \in js}
    BY ONLY <2>6, <2>7, <2>9
  <2> QED BY ONLY <2>1, <2>2, <2>8, <2>10 DEF Terms
<1> QED
  BY <1>2, <1>3

LEMMA LargerIs ==
  ASSUME NEW m \in Int, NEW n \in Int
  PROVE  /\ Larger(m, n) \in Int /\ Larger(m, n) >= m /\ Larger(m, n) >= n
         /\ Larger(m, n) = m \/ Larger(m, n) = n
BY DEF Larger

(* One key more.                                                           *)
LEMMA WithKeyIs ==
  ASSUME NEW r \in Rounds, NEW cube \in Cubes(r), NEW js, NEW part, Holds(part, r, cube, js),
         NEW j \in History(r, cube), j \notin js
  PROVE  Holds(WithKey(part, Position(r, cube[1], j), KeyAt(r, cube, j)), r, cube, js \cup {j})
<1> PICK s \in Int : s = KeyAt(r, cube, j) /\ s > Sentinel
  BY KeyIs
<1> PICK old \in Int : old = part.m
  BY DEF Holds, Topped
<1> PICK m \in Int : m = Larger(old, s)
  BY LargerIs
<1> PICK terms : terms = Append(Rescaled(part, m), TermAt(r, cube, j, m))
  OBVIOUS
<1> PICK new : new = WithKey(part, Position(r, cube[1], j), KeyAt(r, cube, j))
  OBVIOUS
<1>1. new = [m |-> m, terms |-> terms]
  BY ONLY new = WithKey(part, Position(r, cube[1], j), KeyAt(r, cube, j)), m = Larger(old, s),
          s = KeyAt(r, cube, j), old = part.m,
          terms = Append(Rescaled(part, m), TermAt(r, cube, j, m)) DEF WithKey, TermAt
<1>2. js \subseteq History(r, cube)
  BY DEF Holds
<1>3. Terms(terms, r, cube, js \cup {j}, m)
  <2>1. Terms(Rescaled(part, m), r, cube, js, m)
    BY RescaledIs
  <2>2. Terms(<<TermAt(r, cube, j, m)>>, r, cube, {j}, m)
    BY TermsOfOne
  <2>3. Terms(Rescaled(part, m) \o <<TermAt(r, cube, j, m)>>, r, cube, js \cup {j}, m)
    <3>1. \A k \in js : k \notin {j}
      OBVIOUS
    <3>2. {j} \subseteq History(r, cube)
      OBVIOUS
    <3> QED BY ONLY <1>2, <2>1, <2>2, <3>1, <3>2, TermsJoin, r \in Rounds, cube \in Cubes(r)
  <2>4. Rescaled(part, m) \in Seq(Term) /\ TermAt(r, cube, j, m) \in Term
    BY <2>1, TermIs DEF Terms
  <2>5. Rescaled(part, m) \o <<TermAt(r, cube, j, m)>> = terms
    BY ONLY <2>4, AppendIsConcat, terms = Append(Rescaled(part, m), TermAt(r, cube, j, m))
  <2> QED BY ONLY <2>3, <2>5
<1>4. Topped(m, r, cube, js \cup {j})
  <2>1. m >= old /\ m >= s /\ (m = old \/ m = s)
    BY LargerIs
  <2>2. Topped(old, r, cube, js)
    BY DEF Holds
  <2>3. \A k \in js : KeyAt(r, cube, k) \in Int /\ KeyAt(r, cube, k) <= old
    BY <1>2, <2>2, KeyIs DEF Topped
  <2>4. \A k \in js \cup {j} : KeyAt(r, cube, k) <= m
    <3>1. \A k \in js : KeyAt(r, cube, k) <= m
      BY ONLY <2>1, <2>3, old \in Int, m \in Int
    <3> QED BY ONLY <2>1, <3>1, s = KeyAt(r, cube, j)
  <2>5. m # Sentinel
    BY ONLY <2>1, s > Sentinel, s \in Int, m \in Int, old \in Int DEF Sentinel
  <2>6. \E k \in js \cup {j} : m = KeyAt(r, cube, k)
    <3>1. CASE m = s
      BY ONLY <3>1, s = KeyAt(r, cube, j)
    <3>2. CASE m = old
      <4>1. js # {}
        BY ONLY <2>2, <2>5, <3>2 DEF Topped
      <4> QED BY ONLY <2>2, <3>2, <4>1 DEF Topped
    <3> QED BY <2>1, <3>1, <3>2
  <2> QED BY ONLY <2>4, <2>5, <2>6, m \in Int DEF Topped
<1>5. new.m = m /\ new.terms = terms /\ new = [m |-> new.m, terms |-> new.terms]
  BY ONLY <1>1
<1>6. js \cup {j} \subseteq History(r, cube)
  BY <1>2
<1> QED
  BY ONLY <1>3, <1>4, <1>5, <1>6,
          new = WithKey(part, Position(r, cube[1], j), KeyAt(r, cube, j)) DEF Holds

-------------------------------------------------------------------------------
(* The walk of a block, a fold over its live rows.                         *)

(* A fold of n steps.                                                      *)
Runs(g, V, base, n, H) ==
  /\ g \in [0 .. n -> V] /\ g[0] = base
  /\ \A k \in 1 .. n : g[k] = H[<<g[k - 1], k>>]

RunsTo(g, F, V, base, n, H) == Runs(g, V, base, n, H) /\ g[n] = F[1 .. n]

FoldsTo(F, V, base, n, H) ==
  /\ F = [s \in SUBSET (1 .. n) |-> F[s]] /\ F[{}] = base
  /\ \A s \in SUBSET (1 .. n) :
       s # {} => (F[s \ {Max(s)}] \in V => F[s] = H[<<F[s \ {Max(s)}], Max(s)>>])

LEMMA FoldRuns ==
  ASSUME NEW V, NEW base \in V, NEW n \in Nat, NEW H \in [V \X (1 .. n) -> V],
         NEW F, FoldsTo(F, V, base, n, H)
  PROVE  \E g : RunsTo(g, F, V, base, n, H)
<1> PICK g : g = [k \in 0 .. n |-> F[1 .. k]]
  OBVIOUS
<1>0. g[0] = base
  <2>1. 1 .. 0 = {} /\ 0 \in 0 .. n
    OBVIOUS
  <2> QED BY ONLY <2>1, FoldsTo(F, V, base, n, H), g = [k \in 0 .. n |-> F[1 .. k]] DEF FoldsTo
<1>1. ASSUME NEW k \in 1 .. n, g[k - 1] \in V
      PROVE  g[k] = H[<<g[k - 1], k>>] /\ g[k] \in V
  <2>1. /\ 1 .. k \in SUBSET (1 .. n) /\ 1 .. k # {}
        /\ Max(1 .. k) = k /\ (1 .. k) \ {k} = 1 .. k - 1
    BY UptoIs
  <2>2. g[k] = F[1 .. k] /\ g[k - 1] = F[1 .. k - 1]
    OBVIOUS
  <2>3. F[(1 .. k) \ {Max(1 .. k)}] = g[k - 1]
    BY ONLY <2>1, <2>2
  <2>4. F[1 .. k] = H[<<F[(1 .. k) \ {Max(1 .. k)}], Max(1 .. k)>>]
    BY ONLY <1>1, <2>1, <2>3, FoldsTo(F, V, base, n, H) DEF FoldsTo
  <2>5. g[k] = H[<<g[k - 1], k>>]
    BY ONLY <2>1, <2>2, <2>3, <2>4
  <2>6. <<g[k - 1], k>> \in V \X (1 .. n)
    BY <1>1
  <2> QED BY ONLY <2>5, <2>6, H \in [V \X (1 .. n) -> V]
<1> DEFINE S == {k \in Nat : k <= n => g[k] \in V}
<1>2. 0 \in S
  BY <1>0
<1>3. ASSUME NEW k \in Nat, k \in S PROVE k + 1 \in S
  <2> SUFFICES ASSUME k + 1 <= n PROVE g[k + 1] \in V
    OBVIOUS
  <2> PICK m : m = k + 1
    OBVIOUS
  <2>1. m \in 1 .. n /\ m - 1 = k
    OBVIOUS
  <2>2. g[m - 1] \in V
    BY <1>3, <2>1
  <2> QED BY ONLY <1>1, <2>1, <2>2, m = k + 1
<1>4. \A k \in Nat : k \in S
  <2> HIDE DEF S
  <2> QED BY <1>2, <1>3, Induction
<1>5. ASSUME NEW k \in 0 .. n PROVE g[k] \in V
  <2>1. k \in Nat /\ k <= n
    OBVIOUS
  <2> QED BY ONLY <1>4, <2>1
<1>6. g \in [0 .. n -> V]
  BY ONLY <1>5, g = [k \in 0 .. n |-> F[1 .. k]]
<1>7. \A k \in 1 .. n : g[k] = H[<<g[k - 1], k>>]
  <2> TAKE k \in 1 .. n
  <2>0. k - 1 \in 0 .. n
    OBVIOUS
  <2>1. g[k - 1] \in V
    BY ONLY <1>5, <2>0
  <2> QED BY ONLY <1>1, <2>1, k \in 1 .. n
<1>8. g[n] = F[1 .. n]
  OBVIOUS
<1>9. Runs(g, V, base, n, H)
  BY ONLY <1>0, <1>6, <1>7 DEF Runs
<1> QED
  BY ONLY <1>8, <1>9 DEF RunsTo

LEMMA WithKeyPart ==
  ASSUME NEW part \in Part, NEW row \in Nat \X Nat, NEW s \in Int
  PROVE  WithKey(part, row, s) \in Part
<1> PICK m \in Int : m = Larger(part.m, s)
  BY LargerIs DEF Part
<1>1. part.m \in Int /\ part.terms \in Seq(Term)
  BY DEF Part
<1>2. Rescaled(part, m) \in Seq(Term)
  <2>1. <<>> \in Seq(Term)
    OBVIOUS
  <2>2. ASSUME NEW i \in DOMAIN part.terms
        PROVE  [part.terms[i] EXCEPT !.exponent = @ + part.m - m] \in Term
    <3> PICK t : t = part.terms[i]
      OBVIOUS
    <3>1. t \in [row : Nat \X Nat, exponent : Int]
      <4> PICK terms \in Seq(Term) : terms = part.terms
        BY ONLY <1>1
      <4>1. i \in 1 .. Len(terms)
        BY ONLY i \in DOMAIN part.terms, terms = part.terms, terms \in Seq(Term)
      <4>2. terms[i] \in Term
        BY ONLY <4>1, terms \in Seq(Term)
      <4> QED BY ONLY <4>2, t = part.terms[i], terms = part.terms DEF Term
    <3> PICK e \in Int : e = t.exponent + part.m - m
      BY ONLY <1>1, <3>1, m \in Int
    <3>2. [t EXCEPT !.exponent = @ + part.m - m] = [t EXCEPT !.exponent = e]
      BY ONLY <3>1, e = t.exponent + part.m - m
    <3>3. [t EXCEPT !.exponent = e] \in [row : Nat \X Nat, exponent : Int]
      BY ONLY <3>1, e \in Int
    <3> QED BY ONLY <3>2, <3>3, t = part.terms[i] DEF Term
  <2>3. [i \in DOMAIN part.terms |->
           [part.terms[i] EXCEPT !.exponent = @ + part.m - m]] \in Seq(Term)
    BY ONLY <1>1, <2>2
  <2> QED BY ONLY <2>1, <2>3 DEF Rescaled
<1>3. [row |-> row, exponent |-> s - m] \in Term
  BY DEF Term
<1>4. Append(Rescaled(part, m), [row |-> row, exponent |-> s - m]) \in Seq(Term)
  BY ONLY <1>2, <1>3
<1> QED
  BY ONLY <1>4, m \in Int, m = Larger(part.m, s) DEF WithKey, Part

LiveOf(r, cube, b) == Len(LiveRows(r, cube[1], b))
Upto(r, b, k) == {b * r.blockSize + i : i \in 0 .. k - 1}
Block(r, cube, b) == {j \in History(r, cube) : j \div r.blockSize = b}

(* The live rows of a block are those of its positions.                    *)
LEMMA BlockIs ==
  ASSUME NEW r \in Rounds, NEW cube \in Cubes(r), NEW b \in 0 .. NBlocks(r, cube) - 1
  PROVE  /\ LiveOf(r, cube, b) \in Nat
         /\ LiveRows(r, cube[1], b) =
              [i \in 1 .. LiveOf(r, cube, b) |-> <<BlockAt(r, cube[1], b), i - 1>>]
         /\ \A i \in 1 .. LiveOf(r, cube, b) :
              /\ b * r.blockSize + (i - 1) \in Block(r, cube, b)
              /\ Position(r, cube[1], b * r.blockSize + (i - 1)) = <<BlockAt(r, cube[1], b), i - 1>>
         /\ Upto(r, b, LiveOf(r, cube, b)) = Block(r, cube, b)
<1> PICK size \in Nat \ {0} : size = r.blockSize
  BY RoundIs
<1> PICK len \in Nat \ {0} : len = r.lens[cube[1]]
  <2>1. cube[1] \in 1 .. Len(r.lens)
    BY DEF Cubes
  <2> QED BY <2>1, RoundIs
<1>1. b \in Nat /\ b * size < len
  <2>1. /\ BlocksFor(len, size) \in Nat
        /\ \A q \in 0 .. BlocksFor(len, size) - 1 : q * size < len
    BY ONLY BelowBlocks, len \in Nat \ {0}, size \in Nat \ {0}
  <2>2. b \in 0 .. BlocksFor(len, size) - 1
    BY ONLY b \in 0 .. NBlocks(r, cube) - 1, len = r.lens[cube[1]], size = r.blockSize DEF NBlocks
  <2> QED BY ONLY <2>1, <2>2
<1> PICK from \in Nat : from = b * size
  BY ONLY <1>1, size \in Nat \ {0}
<1> PICK rest \in Nat \ {0} : rest = len - from
  BY ONLY <1>1, from \in Nat, from = b * size, len \in Nat \ {0}
<1> PICK live : live = Min({size, rest})
  OBVIOUS
<1>2. live \in Nat \ {0} /\ live <= size /\ live <= rest /\ (live = size \/ live = rest)
  <2>1. {size, rest} \subseteq Nat /\ {size, rest} # {}
    OBVIOUS
  <2>2. live \in {size, rest} /\ \A x \in {size, rest} : live <= x
    BY ONLY <2>1, LeastNumber, live = Min({size, rest})
  <2> QED BY ONLY <2>2, size \in Nat \ {0}, rest \in Nat \ {0}
<1>3. LiveRows(r, cube[1], b) = [i \in 1 .. live |-> <<BlockAt(r, cube[1], b), i - 1>>]
  BY ONLY live = Min({size, rest}), rest = len - from, from = b * size, size = r.blockSize,
          len = r.lens[cube[1]] DEF LiveRows
<1>4. LiveOf(r, cube, b) = live
  BY ONLY <1>2, <1>3 DEF LiveOf
<1>5. ASSUME NEW i \in 1 .. live
      PROVE  /\ b * r.blockSize + (i - 1) \in Block(r, cube, b)
             /\ Position(r, cube[1], b * r.blockSize + (i - 1)) = <<BlockAt(r, cube[1], b), i - 1>>
  <2> PICK t \in 0 .. size - 1 : t = i - 1
    BY ONLY <1>2, i \in 1 .. live, size \in Nat \ {0}
  <2>1. (b * size + t) \div size = b /\ (b * size + t) % size = t
    BY ONLY <1>1, DivisionBy, size \in Nat \ {0}, t \in 0 .. size - 1
  <2>2. b * size + t \in 0 .. len - 1
    BY ONLY <1>2, i \in 1 .. live, t = i - 1, rest = len - from, from = b * size, from \in Nat,
            len \in Nat \ {0}, rest \in Nat \ {0}
  <2>3. b * size + t \in Block(r, cube, b)
    BY ONLY <2>1, <2>2, len = r.lens[cube[1]], size = r.blockSize DEF Block, History
  <2>4. Position(r, cube[1], b * size + t) = <<BlockAt(r, cube[1], b), t>>
    BY ONLY <2>1, size = r.blockSize DEF Position
  <2> QED BY ONLY <2>3, <2>4, t = i - 1, size = r.blockSize
<1>6. ASSUME NEW j \in Block(r, cube, b) PROVE j \in Upto(r, b, live)
  <2>1. j \in 0 .. len - 1 /\ j \div size = b
    BY ONLY j \in Block(r, cube, b), len = r.lens[cube[1]], size = r.blockSize DEF Block, History
  <2>2. j \in Nat /\ j < len
    BY ONLY <2>1, len \in Nat \ {0}
  <2> PICK t : t = j % size
    OBVIOUS
  <2>3. t \in 0 .. size - 1 /\ j = size * b + t
    BY ONLY <2>1, <2>2, DivisionIs, size \in Nat \ {0}, t = j % size
  <2>4. t \in 0 .. live - 1 /\ j = b * size + t
    BY ONLY <1>1, <1>2, <2>2, <2>3, rest = len - from, from = b * size, from \in Nat,
            len \in Nat \ {0}, rest \in Nat \ {0}, size \in Nat \ {0}
  <2> QED BY ONLY <2>4, size = r.blockSize DEF Upto
<1>7. ASSUME NEW j \in Upto(r, b, live) PROVE j \in Block(r, cube, b)
  <2> PICK i \in 0 .. live - 1 : j = b * r.blockSize + i
    BY ONLY j \in Upto(r, b, live) DEF Upto
  <2> PICK k \in 1 .. live : k = i + 1 /\ k - 1 = i
    BY ONLY <1>2, i \in 0 .. live - 1
  <2> QED BY ONLY <1>5, k \in 1 .. live, k - 1 = i, j = b * r.blockSize + i
<1>8. Upto(r, b, live) = Block(r, cube, b)
  BY ONLY <1>6, <1>7
<1>9. live \in Nat
  BY ONLY <1>2
<1> QED
  BY ONLY <1>3, <1>4, <1>5, <1>8, <1>9

(* The walk, row by row.                                                   *)
Walking(g, part, r, cube, b) ==
  /\ g \in [0 .. LiveOf(r, cube, b) -> Part] /\ g[0] = part
  /\ \A k \in 1 .. LiveOf(r, cube, b) :
       g[k] = WithKey(g[k - 1], <<BlockAt(r, cube[1], b), k - 1>>,
                      Score(cube[2], <<BlockAt(r, cube[1], b), k - 1>>))
  /\ WalkOne(part, r, cube, b) = g[LiveOf(r, cube, b)]

LEMMA WalkRuns ==
  ASSUME NEW r \in Rounds, NEW cube \in Cubes(r), NEW b \in 0 .. NBlocks(r, cube) - 1,
         NEW part \in Part
  PROVE  \E g : Walking(g, part, r, cube, b)
<1> PICK n \in Nat : n = LiveOf(r, cube, b)
  BY BlockIs
<1> PICK blk : blk = BlockAt(r, cube[1], b)
  OBVIOUS
<1> PICK rows : rows = LiveRows(r, cube[1], b)
  OBVIOUS
<1>0. rows = [i \in 1 .. n |-> <<blk, i - 1>>]
  <2>1. LiveRows(r, cube[1], b) =
          [i \in 1 .. LiveOf(r, cube, b) |-> <<BlockAt(r, cube[1], b), i - 1>>]
    BY ONLY BlockIs, r \in Rounds, cube \in Cubes(r), b \in 0 .. NBlocks(r, cube) - 1
  <2> QED BY ONLY <2>1, rows = LiveRows(r, cube[1], b), n = LiveOf(r, cube, b),
                  blk = BlockAt(r, cube[1], b)
<1>1. ASSUME NEW i \in 1 .. n
      PROVE  rows[i] \in Nat \X Nat /\ Score(cube[2], rows[i]) \in Int
  <2> PICK j : j = b * r.blockSize + (i - 1)
    OBVIOUS
  <2>1. j \in Block(r, cube, b) /\ Position(r, cube[1], j) = <<blk, i - 1>>
    BY BlockIs
  <2>2. j \in History(r, cube)
    BY ONLY <2>1 DEF Block
  <2>3. rows[i] = Position(r, cube[1], j)
    BY <1>0, <2>1
  <2> QED BY ONLY <2>2, <2>3, KeyIs, r \in Rounds, cube \in Cubes(r) DEF KeyAt
<1> PICK H : H = [x \in Part \X (1 .. n) |-> WithKey(x[1], rows[x[2]], Score(cube[2], rows[x[2]]))]
  OBVIOUS
<1>2. H \in [Part \X (1 .. n) -> Part]
  <2>1. ASSUME NEW p \in Part, NEW i \in 1 .. n
        PROVE  WithKey(p, rows[i], Score(cube[2], rows[i])) \in Part
    BY ONLY <1>1, WithKeyPart, p \in Part, i \in 1 .. n
  <2> QED BY ONLY <2>1,
       H = [x \in Part \X (1 .. n) |-> WithKey(x[1], rows[x[2]], Score(cube[2], rows[x[2]]))]
<1>3. \A p \in Part, i \in 1 .. n :
        H[<<p, i>>] = WithKey(p, rows[i], Score(cube[2], rows[i]))
  BY ONLY H = [x \in Part \X (1 .. n) |-> WithKey(x[1], rows[x[2]], Score(cube[2], rows[x[2]]))]
<1> DEFINE Folded(F) == F = [s \in SUBSET (1 .. n) |->
             IF s = {} THEN part
             ELSE WithKey(F[s \ {Max(s)}], rows[Max(s)], Score(cube[2], rows[Max(s)]))]
<1>4. \E F : Folded(F)
  <2> PICK F : FoldsOver(F, Part, part, n, H)
    BY <1>2, FoldExists
  <2>1. F \in [SUBSET (1 .. n) -> Part] /\ F[{}] = part
    BY DEF FoldsOver
  <2>2. ASSUME NEW s \in SUBSET (1 .. n), s # {}
        PROVE  F[s] = WithKey(F[s \ {Max(s)}], rows[Max(s)], Score(cube[2], rows[Max(s)]))
    <3>1. Max(s) \in 1 .. n
      BY <2>2, GreatestNumber
    <3>2. F[s] = H[<<F[s \ {Max(s)}], Max(s)>>]
      BY ONLY <2>2, FoldsOver(F, Part, part, n, H), s \in SUBSET (1 .. n) DEF FoldsOver
    <3>3. F[s \ {Max(s)}] \in Part
      BY ONLY <2>1, s \in SUBSET (1 .. n)
    <3> QED BY ONLY <1>3, <3>1, <3>2, <3>3
  <2>3. F = [s \in SUBSET (1 .. n) |->
             IF s = {} THEN part
             ELSE WithKey(F[s \ {Max(s)}], rows[Max(s)], Score(cube[2], rows[Max(s)]))]
    BY ONLY <2>1, <2>2
  <2> QED BY <2>3
<1>5. PICK F : Folded(F) /\ WalkOne(part, r, cube, b) = F[1 .. n]
  <2>1. DOMAIN rows = 1 .. n
    BY ONLY <1>0
  <2>2. WalkOne(part, r, cube, b) = (CHOOSE F : Folded(F))[1 .. n]
    BY ONLY <2>1, rows = LiveRows(r, cube[1], b) DEF WalkOne, FoldLeft, MapThenFoldSet
  <2> QED BY ONLY <1>4, <2>2
<1>6. ASSUME NEW s \in SUBSET (1 .. n), s # {}, F[s \ {Max(s)}] \in Part
      PROVE  F[s] = H[<<F[s \ {Max(s)}], Max(s)>>]
  <2>1. Max(s) \in 1 .. n
    BY <1>6, GreatestNumber
  <2>2. F[s] = WithKey(F[s \ {Max(s)}], rows[Max(s)], Score(cube[2], rows[Max(s)]))
    BY ONLY <1>5, <1>6, s \in SUBSET (1 .. n)
  <2> QED BY ONLY <1>3, <1>6, <2>1, <2>2
<1>7. F[{}] = part /\ F = [s \in SUBSET (1 .. n) |-> F[s]]
  <2>1. {} \in SUBSET (1 .. n)
    OBVIOUS
  <2> QED BY ONLY <1>5, <2>1
<1>8. PICK g : Runs(g, Part, part, n, H) /\ g[n] = F[1 .. n]
  <2> HIDE DEF Folded
  <2>1. \A s \in SUBSET (1 .. n) :
          s # {} => (F[s \ {Max(s)}] \in Part => F[s] = H[<<F[s \ {Max(s)}], Max(s)>>])
    BY ONLY <1>6
  <2>2. FoldsTo(F, Part, part, n, H)
    BY ONLY <1>7, <2>1 DEF FoldsTo
  <2>3. \E g : RunsTo(g, F, Part, part, n, H)
    BY ONLY <1>2, <2>2, FoldRuns, part \in Part, n \in Nat
  <2> QED BY ONLY <2>3 DEF RunsTo
<1>9. g \in [0 .. n -> Part] /\ g[0] = part
  BY ONLY <1>8 DEF Runs
<1>10. ASSUME NEW k \in 1 .. n
       PROVE  g[k] = WithKey(g[k - 1], <<blk, k - 1>>, Score(cube[2], <<blk, k - 1>>))
  <2>1. g[k] = H[<<g[k - 1], k>>]
    BY ONLY <1>8, k \in 1 .. n DEF Runs
  <2>2. g[k - 1] \in Part
    <3>1. k - 1 \in 0 .. n
      BY ONLY k \in 1 .. n, n \in Nat
    <3> QED BY ONLY <1>9, <3>1
  <2>3. rows[k] = <<blk, k - 1>>
    BY ONLY <1>0, k \in 1 .. n
  <2>4. g[k] = WithKey(g[k - 1], rows[k], Score(cube[2], rows[k]))
    BY ONLY <1>3, <2>1, <2>2, k \in 1 .. n
  <2> QED BY ONLY <2>3, <2>4
<1>11. WalkOne(part, r, cube, b) = g[n]
  BY ONLY <1>5, <1>8
<1> QED
  BY ONLY <1>9, <1>10, <1>11, n = LiveOf(r, cube, b), blk = BlockAt(r, cube[1], b) DEF Walking

LEMMA WalkHolds ==
  ASSUME NEW r \in Rounds, NEW cube \in Cubes(r), NEW b \in 0 .. NBlocks(r, cube) - 1,
         NEW js, NEW part \in Part, Holds(part, r, cube, js), \A j \in js : j \notin Block(r, cube, b)
  PROVE  /\ WalkOne(part, r, cube, b) \in Part
         /\ Holds(WalkOne(part, r, cube, b), r, cube, js \cup Block(r, cube, b))
<1> PICK n \in Nat : n = LiveOf(r, cube, b)
  BY BlockIs
<1> PICK base : base = b * r.blockSize
  OBVIOUS
<1>0. base \in Nat
  BY ONLY base = b * r.blockSize, b \in 0 .. NBlocks(r, cube) - 1, RoundIs, r \in Rounds
<1>1. PICK g : Walking(g, part, r, cube, b)
  BY WalkRuns
<1> DEFINE S == {k \in Nat : k <= n => Holds(g[k], r, cube, js \cup Upto(r, b, k))}
<1>2. 0 \in S
  <2>1. Upto(r, b, 0) = {}
    BY DEF Upto
  <2>2. g[0] = part
    BY ONLY <1>1 DEF Walking
  <2>3. js \cup {} = js
    OBVIOUS
  <2> QED BY <2>1, <2>2, <2>3
<1>3. ASSUME NEW k \in Nat, k \in S PROVE k + 1 \in S
  <2> SUFFICES ASSUME k + 1 <= n PROVE Holds(g[k + 1], r, cube, js \cup Upto(r, b, k + 1))
    OBVIOUS
  <2> PICK m : m = k + 1
    OBVIOUS
  <2>1. m \in 1 .. n /\ m - 1 = k
    OBVIOUS
  <2>2. Holds(g[k], r, cube, js \cup Upto(r, b, k))
    BY <1>3
  <2> PICK j : j = base + k
    OBVIOUS
  <2>3. j \in Block(r, cube, b) /\ Position(r, cube[1], j) = <<BlockAt(r, cube[1], b), k>>
    BY ONLY <2>1, BlockIs, r \in Rounds, cube \in Cubes(r), b \in 0 .. NBlocks(r, cube) - 1,
            n = LiveOf(r, cube, b), j = base + k, base = b * r.blockSize
  <2>4. j \in History(r, cube)
    BY ONLY <2>3 DEF Block
  <2>5. j \notin js \cup Upto(r, b, k)
    <3>1. j \notin js
      BY <2>3
    <3>2. \A i \in 0 .. k - 1 : base + i # j
      BY ONLY <1>0, j = base + k, k \in Nat
    <3> QED BY ONLY <3>1, <3>2, base = b * r.blockSize DEF Upto
  <2>6. Holds(WithKey(g[k], Position(r, cube[1], j), KeyAt(r, cube, j)), r, cube,
              (js \cup Upto(r, b, k)) \cup {j})
    BY ONLY <2>2, <2>4, <2>5, WithKeyIs, r \in Rounds, cube \in Cubes(r)
  <2>7. g[m] = WithKey(g[k], Position(r, cube[1], j), KeyAt(r, cube, j))
    BY ONLY <1>1, <2>1, <2>3, n = LiveOf(r, cube, b) DEF Walking, KeyAt
  <2>8. (js \cup Upto(r, b, k)) \cup {j} = js \cup Upto(r, b, k + 1)
    <3>1. Upto(r, b, k + 1) = Upto(r, b, k) \cup {j}
      <4>1. \A i : i \in 0 .. (k + 1) - 1 <=> i \in 0 .. k - 1 \/ i = k
        BY ONLY k \in Nat
      <4> QED BY ONLY <4>1, j = base + k, base = b * r.blockSize DEF Upto
    <3> QED BY ONLY <3>1
  <2> QED BY ONLY <2>6, <2>7, <2>8, m = k + 1
<1>4. \A k \in Nat : k \in S
  <2> HIDE DEF S
  <2> QED BY <1>2, <1>3, Induction
<1>5. Holds(g[n], r, cube, js \cup Upto(r, b, n))
  <2>1. n \in S /\ n <= n
    <3> HIDE DEF S
    <3> QED BY <1>4
  <2> QED BY <2>1
<1>6. g[n] \in Part /\ g[n] = WalkOne(part, r, cube, b)
  BY ONLY <1>1, n = LiveOf(r, cube, b), n \in Nat DEF Walking
<1>7. Upto(r, b, n) = Block(r, cube, b)
  BY BlockIs
<1> QED
  BY ONLY <1>5, <1>6, <1>7

-------------------------------------------------------------------------------
(* The planes of a cube, merged.                                           *)

Pieces(parts, top, n) == [p \in 1 .. n |-> Rescaled(parts[p - 1], top)]
First(js, k) == UNION {js[p] : p \in 0 .. k - 1}

(* The planes' shares: no position twice, and none left out.               *)
Shares(js, r, cube, n) ==
  /\ \A p \in 0 .. n - 1 : js[p] \subseteq History(r, cube)
  /\ \A p \in 0 .. n - 1, q \in 0 .. n - 1 : p # q => \A j \in js[p] : j \notin js[q]
  /\ \A j \in History(r, cube) : \E p \in 0 .. n - 1 : j \in js[p]

LEMMA PiecesHold ==
  ASSUME NEW r \in Rounds, NEW cube \in Cubes(r), NEW n \in Nat \ {0}, NEW js,
         Shares(js, r, cube, n), NEW parts,
         \A p \in 0 .. n - 1 : Holds(parts[p], r, cube, js[p]), NEW top \in Int
  PROVE  Terms(FlattenSeq(Pieces(parts, top, n)), r, cube, History(r, cube), top)
<1> DEFINE S == {k \in Nat : k <= n =>
             /\ Pieces(parts, top, k) \in Seq(Seq(Term))
             /\ Terms(FlattenSeq(Pieces(parts, top, k)), r, cube, First(js, k), top)}
<1>1. 0 \in S
  <2>1. Pieces(parts, top, 0) = <<>>
    BY DEF Pieces
  <2>2. First(js, 0) = {}
    BY DEF First
  <2>3. <<>> \in Seq(Seq(Term))
    OBVIOUS
  <2>4. Terms(FlattenSeq(Pieces(parts, top, 0)), r, cube, First(js, 0), top)
    BY ONLY <2>1, <2>2, FlattenEmpty, TermsOfNone
  <2> QED BY <2>1, <2>3, <2>4
<1>2. ASSUME NEW k \in Nat, k \in S PROVE k + 1 \in S
  <2> SUFFICES ASSUME k + 1 <= n
               PROVE  /\ Pieces(parts, top, k + 1) \in Seq(Seq(Term))
                      /\ Terms(FlattenSeq(Pieces(parts, top, k + 1)), r, cube, First(js, k + 1), top)
    OBVIOUS
  <2>1. k \in 0 .. n - 1 /\ k <= n
    OBVIOUS
  <2> PICK s : s = Pieces(parts, top, k)
    OBVIOUS
  <2>2. s \in Seq(Seq(Term)) /\ Terms(FlattenSeq(s), r, cube, First(js, k), top)
    BY <1>2, <2>1
  <2> PICK piece : piece = Rescaled(parts[k], top)
    OBVIOUS
  <2>3. Terms(piece, r, cube, js[k], top)
    BY <2>1, RescaledIs
  <2>4. piece \in Seq(Term)
    BY ONLY <2>3 DEF Terms
  <2>5. Pieces(parts, top, k + 1) = Append(s, piece)
    <3>1. Len(s) = k /\ s = [p \in 1 .. k |-> Rescaled(parts[p - 1], top)]
      BY ONLY s = Pieces(parts, top, k), k \in Nat DEF Pieces
    <3>2. Append(s, piece) = [p \in 1 .. k + 1 |-> IF p = k + 1 THEN piece ELSE s[p]]
      BY ONLY <3>1 DEF Append
    <3>3. \A p \in 1 .. k + 1 : Rescaled(parts[p - 1], top) = IF p = k + 1 THEN piece ELSE s[p]
      <4> TAKE p \in 1 .. k + 1
      <4>1. CASE p = k + 1
        <5>1. p - 1 = k
          BY ONLY <4>1, k \in Nat
        <5> QED BY ONLY <4>1, <5>1, piece = Rescaled(parts[k], top)
      <4>2. CASE p # k + 1
        <5>1. p \in 1 .. k
          BY ONLY <4>2, k \in Nat, p \in 1 .. k + 1
        <5> QED BY ONLY <3>1, <4>2, <5>1
      <4> QED BY <4>1, <4>2
    <3> QED BY ONLY <3>2, <3>3 DEF Pieces
  <2>6. FlattenSeq(Append(s, piece)) = FlattenSeq(s) \o piece
    BY ONLY <2>2, <2>4, FlattenAppend
  <2>7. First(js, k + 1) = First(js, k) \cup js[k]
    <3>1. \A p : p \in 0 .. (k + 1) - 1 <=> p \in 0 .. k - 1 \/ p = k
      OBVIOUS
    <3> QED BY ONLY <3>1 DEF First
  <2>8. /\ First(js, k) \subseteq History(r, cube) /\ js[k] \subseteq History(r, cube)
        /\ \A j \in First(js, k) : j \notin js[k]
    <3>1. \A p \in 0 .. k - 1 : p \in 0 .. n - 1 /\ p # k
      BY ONLY <2>1, k \in Nat, n \in Nat \ {0}
    <3> QED BY ONLY <2>1, <3>1, Shares(js, r, cube, n) DEF Shares, First
  <2>9. Terms(FlattenSeq(s) \o piece, r, cube, First(js, k) \cup js[k], top)
    BY ONLY <2>2, <2>3, <2>8, TermsJoin, r \in Rounds, cube \in Cubes(r)
  <2>10. Append(s, piece) \in Seq(Seq(Term))
    BY ONLY <2>2, <2>4
  <2> QED BY ONLY <2>5, <2>6, <2>7, <2>9, <2>10
<1>3. \A k \in Nat : k \in S
  <2> HIDE DEF S
  <2> QED BY <1>1, <1>2, Induction
<1>4. Terms(FlattenSeq(Pieces(parts, top, n)), r, cube, First(js, n), top)
  <2>1. n \in S /\ n <= n
    <3> HIDE DEF S
    <3> QED BY <1>3
  <2> QED BY <2>1
<1>5. First(js, n) = History(r, cube)
  BY ONLY Shares(js, r, cube, n) DEF Shares, First
<1> QED
  BY ONLY <1>4, <1>5

LEMMA MergedHolds ==
  ASSUME NEW r \in Rounds, NEW cube \in Cubes(r), NEW n \in Nat \ {0}, NEW js,
         Shares(js, r, cube, n), NEW parts, DOMAIN parts = 0 .. n - 1,
         \A p \in 0 .. n - 1 : Holds(parts[p], r, cube, js[p])
  PROVE  /\ Topped(Merged(parts).m, r, cube, History(r, cube))
         /\ Terms(Merged(parts).terms, r, cube, History(r, cube), Merged(parts).m)
<1>1. \A p \in 0 .. n - 1 : parts[p].m \in Int /\ Topped(parts[p].m, r, cube, js[p])
  BY DEF Holds, Topped
<1> PICK f : f = [p \in 0 .. n - 1 |-> parts[p].m]
  OBVIOUS
<1>2. f \in [0 .. n - 1 -> Int]
  BY ONLY <1>1, f = [p \in 0 .. n - 1 |-> parts[p].m]
<1> PICK top : top = Max({f[p] : p \in 0 .. n - 1})
  OBVIOUS
<1>3. (\E p \in 0 .. n - 1 : top = f[p]) /\ \A p \in 0 .. n - 1 : f[p] <= top
  BY ONLY <1>2, GreatestOf, n \in Nat \ {0}, top = Max({f[p] : p \in 0 .. n - 1})
<1>4. \A p \in 0 .. n - 1 : f[p] = parts[p].m
  BY ONLY f = [p \in 0 .. n - 1 |-> parts[p].m]
<1>5. top \in Int
  BY ONLY <1>2, <1>3
<1>6. Cardinality(DOMAIN parts) = n
  <2>1. Cardinality(0 .. n - 1) = n
    <3>1. n - 1 \in Int /\ 0 \in Int /\ ~(0 > n - 1) /\ (n - 1) - 0 + 1 = n
      OBVIOUS
    <3> QED BY ONLY <3>1, FS_Interval
  <2> QED BY <2>1
<1>7. Merged(parts) = [m |-> top, terms |-> FlattenSeq(Pieces(parts, top, n))]
  <2>1. {f[p] : p \in 0 .. n - 1} = {parts[p].m : p \in DOMAIN parts}
    BY <1>4
  <2> QED BY ONLY <1>6, <2>1, top = Max({f[p] : p \in 0 .. n - 1}) DEF Merged, Pieces
<1>8. Terms(FlattenSeq(Pieces(parts, top, n)), r, cube, History(r, cube), top)
  BY <1>5, PiecesHold
<1>9. ASSUME NEW j \in History(r, cube)
      PROVE  KeyAt(r, cube, j) <= top /\ top > Sentinel
  <2>1. PICK p \in 0 .. n - 1 : j \in js[p]
    BY ONLY Shares(js, r, cube, n), j \in History(r, cube) DEF Shares
  <2> PICK m \in Int : m = parts[p].m
    BY <1>1
  <2> PICK key \in Int : key = KeyAt(r, cube, j) /\ key > Sentinel
    BY KeyIs
  <2>2. key <= m
    BY ONLY <1>1, <2>1, p \in 0 .. n - 1, m = parts[p].m, key = KeyAt(r, cube, j) DEF Topped
  <2>3. m <= top
    BY ONLY <1>3, <1>4, p \in 0 .. n - 1, m = parts[p].m
  <2>4. key <= top /\ top > Sentinel
    BY ONLY <1>5, <2>2, <2>3, key > Sentinel, key \in Int, m \in Int DEF Sentinel
  <2> QED BY ONLY <2>4, key = KeyAt(r, cube, j)
<1>10. 0 \in History(r, cube)
  <2> PICK len \in Nat \ {0} : len = r.lens[cube[1]]
    <3>1. cube[1] \in 1 .. Len(r.lens)
      BY DEF Cubes
    <3> QED BY <3>1, RoundIs
  <2>1. 0 \in 0 .. len - 1
    OBVIOUS
  <2> QED BY ONLY <2>1, len = r.lens[cube[1]] DEF History
<1>11. top # Sentinel /\ History(r, cube) # {}
  BY ONLY <1>5, <1>9, <1>10 DEF Sentinel
<1>12. \E j \in History(r, cube) : top = KeyAt(r, cube, j)
  <2>1. PICK p \in 0 .. n - 1 : top = parts[p].m
    BY ONLY <1>3, <1>4
  <2>2. js[p] # {}
    BY ONLY <1>1, <1>11, <2>1, p \in 0 .. n - 1 DEF Topped
  <2>3. \E j \in js[p] : top = KeyAt(r, cube, j)
    BY ONLY <1>1, <2>1, <2>2, p \in 0 .. n - 1 DEF Topped
  <2>4. js[p] \subseteq History(r, cube)
    BY ONLY Shares(js, r, cube, n), p \in 0 .. n - 1 DEF Shares
  <2> QED BY ONLY <2>3, <2>4
<1>13. Topped(top, r, cube, History(r, cube))
  BY ONLY <1>5, <1>9, <1>11, <1>12 DEF Topped
<1>14. Merged(parts).m = top /\ Merged(parts).terms = FlattenSeq(Pieces(parts, top, n))
  BY ONLY <1>7
<1> QED
  BY ONLY <1>8, <1>13, <1>14

-------------------------------------------------------------------------------
(* The rows of an output: every position of the lane's history once, under *)
(* their greatest score, over the head's whole row.                        *)

CubeOf(r, k) == <<k[1], k[2] \div r.nRep>>

RightRow(row, r, k, s) ==
  /\ \E j \in History(r, CubeOf(r, k)) :
       /\ Topped(KeyAt(r, CubeOf(r, k), j), r, CubeOf(r, k), History(r, CubeOf(r, k)))
       /\ Terms(row.terms, r, CubeOf(r, k), History(r, CubeOf(r, k)), KeyAt(r, CubeOf(r, k), j))
  /\ row.dims = 0 .. r.headDim - 1 /\ row.scale = s

RightRows(rows, r, s) ==
  /\ DOMAIN rows = Outputs(r) /\ \A k \in Outputs(r) : RightRow(rows[k], r, k, s)

Drawn(r, cube, n, p, b) ==
  {j \in History(r, cube) : j \div r.blockSize < b /\ (j \div r.blockSize) % n = p}

(* A plane of n, and the planes of a cube.                                 *)
WalkerSound(w, r, cube, n, p) ==
  /\ w = [b |-> w.b, part |-> w.part, published |-> w.published]
  /\ w.b \in Nat /\ w.b % n = p
  /\ w.part \in Part /\ Holds(w.part, r, cube, Drawn(r, cube, n, p, w.b))
  /\ w.published => w.b >= NBlocks(r, cube)

CubeSound(planes, r, cube, n) ==
  /\ planes = [p \in 0 .. n - 1 |-> planes[p]]
  /\ \A p \in 0 .. n - 1 : WalkerSound(planes[p], r, cube, n, p)

RowSound(x, r, s) == x.at \in Outputs(r) /\ RightRow(x.row, r, x.at, s)

RunningSound(o, s) ==
  /\ o = [round |-> o.round, at |-> "Running", scale |-> s, planes |-> o.planes, rows |-> o.rows]
  /\ o.planes = [c \in DOMAIN o.planes |-> o.planes[c]]
  /\ DOMAIN o.planes \subseteq Cubes(o.round)
  /\ \A c \in DOMAIN o.planes : CubeSound(o.planes[c], o.round, c, PlanesPerCube(o.round))
  /\ \A x \in o.rows : RowSound(x, o.round, s)
  /\ \A k \in Outputs(o.round) :
       CubeOf(o.round, k) \in DOMAIN o.planes \/ \E x \in o.rows : x.at = k

(* An operation: registered, or running under the scale there is.          *)
OpSound(o, s) ==
  /\ o.round \in Rounds /\ LaunchSound(o.round)
  /\ \/ o.at = "Registered" /\ o = Registered(o.round)
     \/ o.at = "Running" /\ RunningSound(o, s)

Ours(ops) == ops # {} /\ \A o \in ops : o.round = CheckRound
Shown(outputs, s) == outputs # {} /\ \A rows \in outputs : RightRows(rows, CheckRound, s)

(* The self-check at a stage, with its operations: `takes` is whether the  *)
(* kernel takes its round.                                                 *)
CheckSound(ch, ops, count, takes) ==
  /\ ch = [stage |-> ch.stage, kernel |-> ch.kernel, injected |-> ch.injected,
           verdict |-> ch.verdict]
  /\ ch.stage \in {"Start", "Kernel", "Inject", "Injected", "Restored", "Over"}
  /\ ch.stage = "Start" => count = 0 /\ ops = {} /\ ch.verdict = {}
  /\ ch.stage = "Kernel" => IF takes THEN count = 1 /\ Ours(ops) ELSE count = 0 /\ ops = {}
  /\ ch.stage \in {"Inject", "Injected", "Restored"} =>
       /\ takes /\ Shown(ch.kernel, 1) /\ ch.verdict = {[NoVerdict EXCEPT !.kernelDelta = 1]}
  /\ ch.stage \in {"Injected", "Restored"} => Ours(ops)
  /\ ch.stage = "Restored" => Shown(ch.injected, 2)

ScaleOf(stage) == IF stage = "Injected" THEN 2 ELSE 1

OpsSound == \A t \in Threads : \A o \in op[t] : OpSound(o, scale)

DecodeInv ==
  /\ device \in Devices /\ scale = ScaleOf(check.stage)
  /\ op = [t \in Threads |-> op[t]] /\ out = [t \in Threads |-> out[t]]
  /\ OpsSound
  /\ check.stage # "Over" => \A t \in Threads \ {Checker} : op[t] = {}
  /\ CheckSound(check, op[Checker], launches, Takes("Kernel", CheckRound))
  /\ DecodeExact /\ CheckHonest

-------------------------------------------------------------------------------
(* What a plane has drawn, after each block.                               *)

LEMMA FreshHolds ==
  ASSUME NEW r, NEW cube
  PROVE  Fresh \in Part /\ Holds(Fresh, r, cube, {})
<1> PICK terms : terms = <<>>
  OBVIOUS
<1> PICK m \in Int : m = Sentinel
  BY DEF Sentinel
<1>1. Fresh = [m |-> m, terms |-> terms] /\ Fresh.m = m /\ Fresh.terms = terms
  BY ONLY terms = <<>>, m = Sentinel DEF Fresh
<1>2. terms \in Seq(Term)
  OBVIOUS
<1>3. Fresh \in Part
  BY ONLY <1>1, <1>2, m \in Int DEF Part
<1>4. Terms(terms, r, cube, {}, m)
  BY ONLY TermsOfNone, terms = <<>>
<1>5. Topped(m, r, cube, {})
  BY ONLY m \in Int, m = Sentinel DEF Topped
<1>6. {} \subseteq History(r, cube)
  OBVIOUS
<1> QED
  BY ONLY <1>1, <1>3, <1>4, <1>5, <1>6 DEF Holds

LEMMA BlockOf ==
  ASSUME NEW r \in Rounds, NEW cube \in Cubes(r)
  PROVE  /\ NBlocks(r, cube) \in Nat \ {0} /\ 0 \in History(r, cube)
         /\ \A j \in History(r, cube) : j \div r.blockSize \in 0 .. NBlocks(r, cube) - 1
<1> PICK size \in Nat \ {0} : size = r.blockSize
  BY RoundIs
<1> PICK len \in Nat \ {0} : len = r.lens[cube[1]]
  <2>1. cube[1] \in 1 .. Len(r.lens)
    BY DEF Cubes
  <2> QED BY <2>1, RoundIs
<1> PICK n : n = BlocksFor(len, size)
  OBVIOUS
<1>1. n \in Nat /\ \A j \in 0 .. len - 1 : j \div size \in 0 .. n - 1
  BY ONLY BelowBlocks, len \in Nat \ {0}, size \in Nat \ {0}, n = BlocksFor(len, size)
<1>2. n = NBlocks(r, cube) /\ History(r, cube) = 0 .. len - 1
  BY ONLY n = BlocksFor(len, size), size = r.blockSize, len = r.lens[cube[1]] DEF NBlocks, History
<1>3. 0 \in 0 .. len - 1
  OBVIOUS
<1>4. n # 0
  <2>1. 0 \div size \in 0 .. n - 1
    BY ONLY <1>1, <1>3
  <2> QED BY ONLY <1>1, <2>1
<1> QED
  BY ONLY <1>1, <1>2, <1>3, <1>4, size = r.blockSize

LEMMA DrawnNext ==
  ASSUME NEW r \in Rounds, NEW cube \in Cubes(r), NEW n \in Nat \ {0}, NEW p,
         NEW b \in Nat, b % n = p
  PROVE  /\ Drawn(r, cube, n, p, b + n) = Drawn(r, cube, n, p, b) \cup Block(r, cube, b)
         /\ \A j \in Drawn(r, cube, n, p, b) : j \notin Block(r, cube, b)
<1>1. \A j \in History(r, cube) : j \div r.blockSize \in Nat
  BY ONLY BlockOf, r \in Rounds, cube \in Cubes(r)
<1>2. ASSUME NEW q \in Nat
      PROVE  q < b + n /\ q % n = p <=> (q < b /\ q % n = p) \/ q = b
  <2>1. CASE q < b
    BY ONLY <2>1, n \in Nat \ {0}, b \in Nat, q \in Nat
  <2>2. CASE q = b
    BY ONLY <2>2, b % n = p, n \in Nat \ {0}, b \in Nat
  <2>3. CASE b < q
    <3>1. b <= q
      BY ONLY <2>3, b \in Nat, q \in Nat
    <3>2. q < b + n /\ q % n = b % n => q = b
      BY ONLY <3>1, OneOfResidue, n \in Nat \ {0}, b \in Nat, q \in Nat
    <3> QED BY ONLY <2>3, <3>2, b % n = p, b \in Nat, q \in Nat
  <2> QED BY ONLY <2>1, <2>2, <2>3, b \in Nat, q \in Nat
<1>3. \A j \in History(r, cube) :
        j \in Drawn(r, cube, n, p, b + n)
          <=> j \in Drawn(r, cube, n, p, b) \/ j \in Block(r, cube, b)
  BY ONLY <1>1, <1>2 DEF Drawn, Block
<1>4. \A j \in Drawn(r, cube, n, p, b) : j \notin Block(r, cube, b)
  <2> SUFFICES ASSUME NEW j \in Drawn(r, cube, n, p, b), j \in Block(r, cube, b) PROVE FALSE
    OBVIOUS
  <2>1. j \div r.blockSize < b /\ j \div r.blockSize = b
    BY ONLY j \in Drawn(r, cube, n, p, b), j \in Block(r, cube, b) DEF Drawn, Block
  <2> QED BY ONLY <2>1, b \in Nat
<1> QED
  BY ONLY <1>3, <1>4 DEF Drawn, Block

LEMMA DrawnNone ==
  ASSUME NEW r \in Rounds, NEW cube \in Cubes(r), NEW n \in Nat \ {0}, NEW p \in 0 .. n - 1
  PROVE  Drawn(r, cube, n, p, p) = {} /\ p % n = p
<1>1. \A j \in History(r, cube) : j \div r.blockSize \in Nat
  BY ONLY BlockOf, r \in Rounds, cube \in Cubes(r)
<1>2. p \in Nat /\ p < n
  OBVIOUS
<1>3. \A q \in Nat : q < n => q % n = q
  OBVIOUS
<1>4. \A q \in Nat : ~(q < p /\ q % n = p)
  BY ONLY <1>2, <1>3, n \in Nat \ {0}
<1> QED
  BY ONLY <1>1, <1>2, <1>3, <1>4 DEF Drawn

LEMMA DrawnAll ==
  ASSUME NEW r \in Rounds, NEW cube \in Cubes(r), NEW n \in Nat \ {0}, NEW bs,
         \A p \in 0 .. n - 1 : bs[p] \in Nat /\ bs[p] >= NBlocks(r, cube)
  PROVE  Shares([p \in 0 .. n - 1 |-> Drawn(r, cube, n, p, bs[p])], r, cube, n)
<1> PICK js : js = [p \in 0 .. n - 1 |-> Drawn(r, cube, n, p, bs[p])]
  OBVIOUS
<1>1. \A p \in 0 .. n - 1 : js[p] = Drawn(r, cube, n, p, bs[p])
  BY ONLY js = [p \in 0 .. n - 1 |-> Drawn(r, cube, n, p, bs[p])]
<1>2. \A p \in 0 .. n - 1 : js[p] \subseteq History(r, cube)
  BY ONLY <1>1 DEF Drawn
<1>3. ASSUME NEW p \in 0 .. n - 1, NEW q \in 0 .. n - 1, p # q PROVE \A j \in js[p] : j \notin js[q]
  BY ONLY <1>1, <1>3, p \in 0 .. n - 1, q \in 0 .. n - 1 DEF Drawn
<1>4. ASSUME NEW j \in History(r, cube) PROVE \E p \in 0 .. n - 1 : j \in js[p]
  <2> PICK blocks \in Nat : blocks = NBlocks(r, cube)
    BY BlockOf
  <2> PICK q : q = j \div r.blockSize
    OBVIOUS
  <2>1. q \in 0 .. blocks - 1
    BY ONLY BlockOf, r \in Rounds, cube \in Cubes(r), j \in History(r, cube),
            blocks = NBlocks(r, cube), q = j \div r.blockSize
  <2>2. q \in Nat /\ q < blocks
    BY ONLY <2>1, blocks \in Nat
  <2> PICK p : p = q % n
    OBVIOUS
  <2>3. p \in 0 .. n - 1
    BY ONLY <2>2, DivisionIs, n \in Nat \ {0}, p = q % n
  <2>4. bs[p] \in Nat /\ bs[p] >= blocks
    BY <2>3
  <2>5. q < bs[p]
    BY ONLY <2>2, <2>4, blocks \in Nat
  <2>6. j \in Drawn(r, cube, n, p, bs[p])
    BY ONLY <2>5, p = q % n, q = j \div r.blockSize, j \in History(r, cube) DEF Drawn
  <2> QED BY ONLY <1>1, <2>3, <2>6
<1>5. Shares(js, r, cube, n)
  BY ONLY <1>2, <1>3, <1>4 DEF Shares
<1> QED
  BY ONLY <1>5, js = [p \in 0 .. n - 1 |-> Drawn(r, cube, n, p, bs[p])]

-------------------------------------------------------------------------------
(* The heads of a cube.                                                    *)

LEMMA HeadsAre ==
  ASSUME NEW r \in Rounds, r.heads = r.kvHeads * r.nRep
  PROVE  /\ \A k \in Outputs(r) : CubeOf(r, k) \in Cubes(r)
         /\ \A c \in Cubes(r) : \A h \in c[2] * r.nRep .. (c[2] + 1) * r.nRep - 1 :
              <<c[1], h>> \in Outputs(r) /\ CubeOf(r, <<c[1], h>>) = c
         /\ \A k \in Outputs(r) : k = <<k[1], k[2]>> /\
              k[2] \in CubeOf(r, k)[2] * r.nRep .. (CubeOf(r, k)[2] + 1) * r.nRep - 1
         /\ Outputs(r) # {}
<1> PICK width \in Nat \ {0} : width = Len(r.lens)
  BY RoundIs
<1> PICK kvs \in Nat \ {0} : kvs = r.kvHeads
  BY RoundIs
<1> PICK rep \in Nat \ {0} : rep = r.nRep
  BY RoundIs
<1> PICK heads \in Nat \ {0} : heads = r.heads /\ heads = kvs * rep
  <2>1. kvs * rep \in Nat \ {0}
    OBVIOUS
  <2> QED BY ONLY <2>1, r.heads = r.kvHeads * r.nRep, kvs = r.kvHeads, rep = r.nRep
<1>1. /\ Outputs(r) = (1 .. width) \X (0 .. heads - 1)
      /\ Cubes(r) = (1 .. width) \X (0 .. kvs - 1)
      /\ \A k : CubeOf(r, k) = <<k[1], k[2] \div rep>>
  BY ONLY width = Len(r.lens), kvs = r.kvHeads, rep = r.nRep, heads = r.heads
     DEF Outputs, Cubes, CubeOf
<1>2. ASSUME NEW h \in 0 .. heads - 1
      PROVE  h \div rep \in 0 .. kvs - 1
             /\ h \in (h \div rep) * rep .. (h \div rep + 1) * rep - 1
  <2> PICK q : q = h \div rep
    OBVIOUS
  <2> PICK d : d = h % rep
    OBVIOUS
  <2>0. h \in Nat /\ h < heads
    BY ONLY h \in 0 .. heads - 1, heads \in Nat \ {0}
  <2>1. q \in Nat /\ d \in 0 .. rep - 1 /\ h = rep * q + d
    BY ONLY <2>0, DivisionIs, rep \in Nat \ {0}, q = h \div rep, d = h % rep
  <2>2. d \in Nat /\ d < rep
    BY ONLY <2>1, rep \in Nat \ {0}
  <2>3. q < kvs
    <3> SUFFICES ASSUME ~(q < kvs) PROVE FALSE
      OBVIOUS
    <3>1. rep * q >= kvs * rep /\ rep * q \in Nat
      BY ONLY ~(q < kvs), <2>1, kvs \in Nat \ {0}, rep \in Nat \ {0}
    <3> QED BY ONLY <2>0, <2>1, <2>2, <3>1, heads = kvs * rep, heads \in Nat \ {0}
  <2>4. q * rep = rep * q /\ (q + 1) * rep = rep * q + rep /\ rep * q \in Nat
    BY ONLY <2>1, rep \in Nat \ {0}
  <2>5. h \in q * rep .. (q + 1) * rep - 1
    BY ONLY <2>0, <2>1, <2>2, <2>4, rep \in Nat \ {0}
  <2>6. q \in 0 .. kvs - 1
    BY ONLY <2>1, <2>3, kvs \in Nat \ {0}
  <2> QED BY ONLY <2>5, <2>6, q = h \div rep
<1>3. ASSUME NEW q \in 0 .. kvs - 1, NEW h \in q * rep .. (q + 1) * rep - 1
      PROVE  h \in 0 .. heads - 1 /\ h \div rep = q
  <2>0. q \in Nat /\ q + 1 <= kvs
    BY ONLY q \in 0 .. kvs - 1, kvs \in Nat \ {0}
  <2>1. q * rep \in Nat /\ (q + 1) * rep = q * rep + rep /\ (q + 1) * rep <= kvs * rep
    BY ONLY <2>0, kvs \in Nat \ {0}, rep \in Nat \ {0}
  <2> PICK d \in 0 .. rep - 1 : h = q * rep + d
    <3>1. h - q * rep \in 0 .. rep - 1 /\ h = q * rep + (h - q * rep)
      BY ONLY <2>1, h \in q * rep .. (q + 1) * rep - 1, rep \in Nat \ {0}
    <3> QED BY ONLY <3>1
  <2>2. (q * rep + d) \div rep = q
    BY ONLY <2>0, DivisionBy, rep \in Nat \ {0}, d \in 0 .. rep - 1
  <2>3. h \in 0 .. heads - 1
    BY ONLY <2>1, h \in q * rep .. (q + 1) * rep - 1, heads = kvs * rep, heads \in Nat \ {0}
  <2> QED BY ONLY <2>2, <2>3, h = q * rep + d
<1>4. \A k \in Outputs(r) : CubeOf(r, k) \in Cubes(r)
  <2> TAKE k \in Outputs(r)
  <2>1. k[1] \in 1 .. width /\ k[2] \in 0 .. heads - 1
    BY <1>1
  <2>2. k[2] \div rep \in 0 .. kvs - 1
    BY ONLY <1>2, <2>1
  <2> QED BY ONLY <1>1, <2>1, <2>2
<1>5. ASSUME NEW c \in Cubes(r), NEW h \in c[2] * rep .. (c[2] + 1) * rep - 1
      PROVE  <<c[1], h>> \in Outputs(r) /\ CubeOf(r, <<c[1], h>>) = c
  <2>0. c \in (1 .. width) \X (0 .. kvs - 1)
    BY ONLY <1>1, c \in Cubes(r)
  <2> PICK lane \in 1 .. width, q \in 0 .. kvs - 1 : c = <<lane, q>>
    BY ONLY <2>0
  <2>1. c[1] = lane /\ c[2] = q
    BY ONLY c = <<lane, q>>
  <2>2. h \in q * rep .. (q + 1) * rep - 1
    BY ONLY <2>1, h \in c[2] * rep .. (c[2] + 1) * rep - 1
  <2>3. h \in 0 .. heads - 1 /\ h \div rep = q
    BY ONLY <1>3, <2>2, q \in 0 .. kvs - 1
  <2>4. <<lane, h>>[1] = lane /\ <<lane, h>>[2] = h
    OBVIOUS
  <2>5. CubeOf(r, <<lane, h>>) = <<lane, q>>
    BY ONLY <1>1, <2>3, <2>4
  <2>6. <<lane, h>> \in (1 .. width) \X (0 .. heads - 1)
    BY ONLY <2>3, lane \in 1 .. width
  <2> QED BY ONLY <1>1, <2>1, <2>5, <2>6, c = <<lane, q>>
<1>6. ASSUME NEW k \in Outputs(r)
      PROVE  /\ k = <<k[1], k[2]>>
             /\ k[2] \in CubeOf(r, k)[2] * rep .. (CubeOf(r, k)[2] + 1) * rep - 1
  <2> PICK lane \in 1 .. width, h \in 0 .. heads - 1 : k = <<lane, h>>
    BY <1>1
  <2>1. k[1] = lane /\ k[2] = h
    BY ONLY k = <<lane, h>>
  <2>2. CubeOf(r, k) = <<lane, h \div rep>>
    BY ONLY <1>1, <2>1
  <2>3. CubeOf(r, k)[2] = h \div rep
    BY ONLY <2>2
  <2>4. h \in (h \div rep) * rep .. (h \div rep + 1) * rep - 1
    BY ONLY <1>2, h \in 0 .. heads - 1
  <2> QED BY ONLY <2>1, <2>3, <2>4, k = <<lane, h>>
<1>7. Outputs(r) # {}
  <2>1. 1 \in 1 .. width /\ 0 \in 0 .. heads - 1
    OBVIOUS
  <2>2. <<1, 0>> \in (1 .. width) \X (0 .. heads - 1)
    BY ONLY <2>1
  <2> QED BY ONLY <1>1, <2>2
<1> QED
  BY ONLY <1>4, <1>5, <1>6, <1>7, rep = r.nRep

-------------------------------------------------------------------------------
(* Right rows are the same sums, and differ by their scale.                *)

LEMMA TopUnique ==
  ASSUME NEW r \in Rounds, NEW cube \in Cubes(r), NEW m, Topped(m, r, cube, History(r, cube)),
         NEW n, Topped(n, r, cube, History(r, cube))
  PROVE  m = n /\ m \in Int
<1>1. History(r, cube) # {} /\ m \in Int /\ n \in Int
  BY BlockOf DEF Topped
<1>2. PICK j \in History(r, cube) : m = KeyAt(r, cube, j)
  BY ONLY <1>1, Topped(m, r, cube, History(r, cube)) DEF Topped
<1>3. PICK k \in History(r, cube) : n = KeyAt(r, cube, k)
  BY ONLY <1>1, Topped(n, r, cube, History(r, cube)) DEF Topped
<1>4. m <= n
  BY ONLY <1>2, Topped(n, r, cube, History(r, cube)) DEF Topped
<1>5. n <= m
  BY ONLY <1>3, Topped(m, r, cube, History(r, cube)) DEF Topped
<1> QED
  BY ONLY <1>1, <1>4, <1>5

LEMMA RightSame ==
  ASSUME NEW r \in Rounds, NEW k, CubeOf(r, k) \in Cubes(r), NEW s, NEW u,
         NEW x, RightRow(x, r, k, s), NEW y, RightRow(y, r, k, u)
  PROVE  SameRow(x, y) <=> s = u
<1> PICK cube \in Cubes(r) : cube = CubeOf(r, k)
  OBVIOUS
<1>1. PICK m : Topped(m, r, cube, History(r, cube))
               /\ Terms(x.terms, r, cube, History(r, cube), m)
  BY ONLY RightRow(x, r, k, s), cube = CubeOf(r, k) DEF RightRow
<1>2. PICK n : Topped(n, r, cube, History(r, cube))
               /\ Terms(y.terms, r, cube, History(r, cube), n)
  BY ONLY RightRow(y, r, k, u), cube = CubeOf(r, k) DEF RightRow
<1>3. m = n
  BY ONLY <1>1, <1>2, TopUnique, r \in Rounds, cube \in Cubes(r)
<1>4. Len(x.terms) = Len(y.terms) /\ Range(x.terms) = Range(y.terms)
  BY ONLY <1>1, <1>2, <1>3 DEF Terms
<1>5. x.dims = y.dims /\ x.scale = s /\ y.scale = u
  BY ONLY RightRow(x, r, k, s), RightRow(y, r, k, u) DEF RightRow
<1> QED
  BY ONLY <1>4, <1>5 DEF SameRow

LEMMA RightAgree ==
  ASSUME NEW r \in Rounds, r.heads = r.kvHeads * r.nRep, NEW s, NEW u,
         NEW xs, RightRows(xs, r, s), NEW ys, RightRows(ys, r, u)
  PROVE  Agree(xs, ys) <=> s = u
<1>1. \A k \in Outputs(r) : SameRow(xs[k], ys[k]) <=> s = u
  <2> TAKE k \in Outputs(r)
  <2>1. CubeOf(r, k) \in Cubes(r)
    BY HeadsAre
  <2>2. RightRow(xs[k], r, k, s) /\ RightRow(ys[k], r, k, u)
    BY DEF RightRows
  <2> QED BY ONLY <2>1, <2>2, RightSame, r \in Rounds
<1>2. DOMAIN xs = Outputs(r) /\ Outputs(r) # {}
  BY HeadsAre DEF RightRows
<1> QED
  BY ONLY <1>1, <1>2 DEF Agree

LEMMA RowFrom ==
  ASSUME NEW r \in Rounds, NEW k, NEW cube \in Cubes(r), cube = CubeOf(r, k), NEW m, NEW terms,
         Topped(m, r, cube, History(r, cube)), Terms(terms, r, cube, History(r, cube), m),
         NEW s, NEW row, row = [terms |-> terms, dims |-> 0 .. r.headDim - 1, scale |-> s]
  PROVE  RightRow(row, r, k, s)
<1>1. History(r, cube) # {}
  BY BlockOf
<1>2. PICK j \in History(r, cube) : m = KeyAt(r, cube, j)
  BY ONLY <1>1, Topped(m, r, cube, History(r, cube)) DEF Topped
<1>3. row.terms = terms /\ row.dims = 0 .. r.headDim - 1 /\ row.scale = s
  BY ONLY row = [terms |-> terms, dims |-> 0 .. r.headDim - 1, scale |-> s]
<1>4. /\ Topped(KeyAt(r, cube, j), r, cube, History(r, cube))
      /\ Terms(row.terms, r, cube, History(r, cube), KeyAt(r, cube, j))
  BY ONLY <1>2, <1>3, Topped(m, r, cube, History(r, cube)),
          Terms(terms, r, cube, History(r, cube), m)
<1> QED
  BY ONLY <1>3, <1>4, cube = CubeOf(r, k), j \in History(r, cube) DEF RightRow

(* The reference's rows.                                                   *)
LEMMA ReferenceRight ==
  ASSUME NEW r \in Rounds, r.heads = r.kvHeads * r.nRep
  PROVE  RightRows(PagedAttentionReference(r), r, 1)
<1> PICK all : all = PagedAttentionReference(r)
  OBVIOUS
<1>1. DOMAIN all = Outputs(r) /\ \A k \in Outputs(r) : all[k] = ReferenceRow(r, k[1], k[2])
  BY ONLY all = PagedAttentionReference(r) DEF PagedAttentionReference
<1>2. ASSUME NEW k \in Outputs(r) PROVE RightRow(all[k], r, k, 1)
  <2> PICK cube \in Cubes(r) : cube = CubeOf(r, k)
    BY HeadsAre
  <2>1. cube[1] = k[1] /\ cube[2] = k[2] \div r.nRep
    BY ONLY cube = CubeOf(r, k) DEF CubeOf
  <2> PICK len \in Nat \ {0} : len = r.lens[cube[1]]
    <3>1. cube[1] \in 1 .. Len(r.lens)
      BY DEF Cubes
    <3> QED BY <3>1, RoundIs
  <2>2. History(r, cube) = 0 .. len - 1
    BY ONLY len = r.lens[cube[1]] DEF History
  <2> PICK f : f = [j \in 0 .. len - 1 |-> KeyAt(r, cube, j)]
    OBVIOUS
  <2>3. \A j \in 0 .. len - 1 : KeyAt(r, cube, j) \in Int /\ KeyAt(r, cube, j) > Sentinel
    BY ONLY <2>2, KeyIs, r \in Rounds, cube \in Cubes(r)
  <2>4. f \in [0 .. len - 1 -> Int]
    BY ONLY <2>3, f = [j \in 0 .. len - 1 |-> KeyAt(r, cube, j)]
  <2> PICK top : top = Max({f[j] : j \in 0 .. len - 1})
    OBVIOUS
  <2>5. (\E j \in 0 .. len - 1 : top = f[j]) /\ \A j \in 0 .. len - 1 : f[j] <= top
    BY ONLY <2>4, GreatestOf, len \in Nat \ {0}, top = Max({f[j] : j \in 0 .. len - 1})
  <2>6. Topped(top, r, cube, History(r, cube))
    <3>1. \A j \in 0 .. len - 1 : f[j] = KeyAt(r, cube, j)
      BY ONLY f = [j \in 0 .. len - 1 |-> KeyAt(r, cube, j)]
    <3>2. top \in Int /\ \E j \in 0 .. len - 1 : top = KeyAt(r, cube, j)
      BY ONLY <2>4, <2>5, <3>1
    <3>3. top # Sentinel /\ 0 .. len - 1 # {}
      <4>1. Sentinel \in Int
        BY DEF Sentinel
      <4>2. \A j \in 0 .. len - 1 : KeyAt(r, cube, j) # Sentinel
        BY ONLY <2>3, <4>1
      <4>3. top # Sentinel
        BY ONLY <3>2, <4>2
      <4>4. 0 \in 0 .. len - 1
        BY ONLY len \in Nat \ {0}
      <4> QED BY ONLY <4>3, <4>4
    <3> QED BY ONLY <2>2, <2>5, <3>1, <3>2, <3>3 DEF Topped
  <2> PICK terms : terms = [j \in 1 .. len |-> TermAt(r, cube, j - 1, top)]
    OBVIOUS
  <2>7. Terms(terms, r, cube, History(r, cube), top)
    <3>0. top \in Int
      BY <2>6 DEF Topped
    <3>1. \A j \in 1 .. len : j - 1 \in 0 .. len - 1
      BY ONLY len \in Nat \ {0}
    <3>2. \A j \in 0 .. len - 1 : TermAt(r, cube, j, top) \in Term
      BY ONLY <2>2, <3>0, TermIs, r \in Rounds, cube \in Cubes(r)
    <3>3. terms \in Seq(Term) /\ Len(terms) = len
      BY ONLY <3>1, <3>2, len \in Nat \ {0}, terms = [j \in 1 .. len |-> TermAt(r, cube, j - 1, top)]
    <3>4. Range(terms) = {terms[i] : i \in 1 .. len}
      BY ONLY <3>3, RangeIs
    <3>5. \A i \in 1 .. len : terms[i] = TermAt(r, cube, i - 1, top)
      BY ONLY terms = [j \in 1 .. len |-> TermAt(r, cube, j - 1, top)]
    <3>6. ASSUME NEW j \in 0 .. len - 1 PROVE \E i \in 1 .. len : TermAt(r, cube, j, top) = terms[i]
      <4> PICK i \in 1 .. len : i - 1 = j
        <5>1. j + 1 \in 1 .. len /\ (j + 1) - 1 = j
          BY ONLY j \in 0 .. len - 1, len \in Nat \ {0}
        <5> QED BY ONLY <5>1
      <4> QED BY ONLY <3>5, i \in 1 .. len, i - 1 = j
    <3>7. Range(terms) = {TermAt(r, cube, j, top) : j \in 0 .. len - 1}
      BY ONLY <3>1, <3>4, <3>5, <3>6
    <3>8. Cardinality(0 .. len - 1) = len
      <4>1. len - 1 \in Int /\ 0 \in Int /\ ~(0 > len - 1) /\ (len - 1) - 0 + 1 = len
        OBVIOUS
      <4> QED BY ONLY <4>1, FS_Interval
    <3> QED BY ONLY <2>2, <3>3, <3>7, <3>8 DEF Terms
  <2>8. all[k] = [terms |-> terms, dims |-> 0 .. r.headDim - 1, scale |-> 1]
    <3>1. {f[j] : j \in 0 .. len - 1} = {KeyAt(r, cube, j) : j \in 0 .. len - 1}
      BY ONLY f = [j \in 0 .. len - 1 |-> KeyAt(r, cube, j)]
    <3>2. top = Max({KeyAt(r, cube, j) : j \in 0 .. len - 1})
      BY ONLY <3>1, top = Max({f[j] : j \in 0 .. len - 1})
    <3>3. all[k] = ReferenceRow(r, cube[1], k[2])
      BY <1>1, <2>1
    <3> QED BY ONLY <2>1, <3>2, <3>3, len = r.lens[cube[1]],
                    terms = [j \in 1 .. len |-> TermAt(r, cube, j - 1, top)]
               DEF ReferenceRow, KeyAt, TermAt
  <2> QED BY ONLY <2>6, <2>7, <2>8, RowFrom, r \in Rounds, cube \in Cubes(r), cube = CubeOf(r, k)
<1> QED
  BY ONLY <1>1, <1>2, all = PagedAttentionReference(r) DEF RightRows

(* The twin's rows: one block after another.                               *)
OnlinePart(r, cube) ==
  FoldLeft(LAMBDA acc, b : WalkOne(acc, r, cube, b - 1), Fresh,
           [b \in 1 .. NBlocks(r, cube) |-> b])

Onward(g, r, cube) ==
  /\ g[0] = Fresh /\ g[NBlocks(r, cube)] = OnlinePart(r, cube)
  /\ g \in [0 .. NBlocks(r, cube) -> Part]
  /\ \A k \in 1 .. NBlocks(r, cube) : g[k] = WalkOne(g[k - 1], r, cube, k - 1)

LEMMA OnlineRuns ==
  ASSUME NEW r \in Rounds, NEW cube \in Cubes(r)
  PROVE  \E g : Onward(g, r, cube)
<1> PICK n \in Nat : n = NBlocks(r, cube)
  BY BlockOf
<1> PICK part \in Part : part = Fresh
  BY FreshHolds
<1> PICK blocks : blocks = [b \in 1 .. n |-> b]
  OBVIOUS
<1>1. ASSUME NEW p \in Part, NEW i \in 1 .. n PROVE WalkOne(p, r, cube, i - 1) \in Part
  <2>1. i - 1 \in 0 .. NBlocks(r, cube) - 1
    BY ONLY i \in 1 .. n, n \in Nat, n = NBlocks(r, cube)
  <2>2. PICK g : Walking(g, p, r, cube, i - 1)
    BY ONLY <2>1, WalkRuns, p \in Part, r \in Rounds, cube \in Cubes(r)
  <2> PICK live \in Nat : live = LiveOf(r, cube, i - 1)
    BY <2>1, BlockIs
  <2> QED BY ONLY <2>2, live \in Nat, live = LiveOf(r, cube, i - 1) DEF Walking
<1> PICK H : H = [x \in Part \X (1 .. n) |-> WalkOne(x[1], r, cube, blocks[x[2]] - 1)]
  OBVIOUS
<1>2. \A i \in 1 .. n : blocks[i] = i
  BY ONLY blocks = [b \in 1 .. n |-> b]
<1>3. H \in [Part \X (1 .. n) -> Part]
  BY ONLY <1>1, <1>2, H = [x \in Part \X (1 .. n) |-> WalkOne(x[1], r, cube, blocks[x[2]] - 1)]
<1>4. \A p \in Part, i \in 1 .. n : H[<<p, i>>] = WalkOne(p, r, cube, blocks[i] - 1)
  BY ONLY H = [x \in Part \X (1 .. n) |-> WalkOne(x[1], r, cube, blocks[x[2]] - 1)]
<1> DEFINE Folded(F) == F = [s \in SUBSET (1 .. n) |->
             IF s = {} THEN part
             ELSE WalkOne(F[s \ {Max(s)}], r, cube, blocks[Max(s)] - 1)]
<1>5. \E F : Folded(F)
  <2> PICK F : FoldsOver(F, Part, part, n, H)
    BY <1>3, FoldExists
  <2>1. F \in [SUBSET (1 .. n) -> Part] /\ F[{}] = part
    BY DEF FoldsOver
  <2>2. ASSUME NEW s \in SUBSET (1 .. n), s # {}
        PROVE  F[s] = WalkOne(F[s \ {Max(s)}], r, cube, blocks[Max(s)] - 1)
    <3>1. Max(s) \in 1 .. n
      BY <2>2, GreatestNumber
    <3>2. F[s] = H[<<F[s \ {Max(s)}], Max(s)>>]
      BY ONLY <2>2, FoldsOver(F, Part, part, n, H), s \in SUBSET (1 .. n) DEF FoldsOver
    <3>3. F[s \ {Max(s)}] \in Part
      BY ONLY <2>1, s \in SUBSET (1 .. n)
    <3> QED BY ONLY <1>4, <3>1, <3>2, <3>3
  <2>3. F = [s \in SUBSET (1 .. n) |->
             IF s = {} THEN part
             ELSE WalkOne(F[s \ {Max(s)}], r, cube, blocks[Max(s)] - 1)]
    BY ONLY <2>1, <2>2
  <2> QED BY <2>3
<1>6. PICK F : Folded(F) /\ OnlinePart(r, cube) = F[1 .. n]
  <2>1. DOMAIN blocks = 1 .. n
    BY ONLY blocks = [b \in 1 .. n |-> b]
  <2>2. OnlinePart(r, cube) = (CHOOSE F : Folded(F))[1 .. n]
    BY ONLY <2>1, blocks = [b \in 1 .. n |-> b], n = NBlocks(r, cube), part = Fresh
       DEF OnlinePart, FoldLeft, MapThenFoldSet
  <2> QED BY ONLY <1>5, <2>2
<1>7. ASSUME NEW s \in SUBSET (1 .. n), s # {}, F[s \ {Max(s)}] \in Part
      PROVE  F[s] = H[<<F[s \ {Max(s)}], Max(s)>>]
  <2>1. Max(s) \in 1 .. n
    BY <1>7, GreatestNumber
  <2>2. F[s] = WalkOne(F[s \ {Max(s)}], r, cube, blocks[Max(s)] - 1)
    BY ONLY <1>6, <1>7, s \in SUBSET (1 .. n)
  <2> QED BY ONLY <1>4, <1>7, <2>1, <2>2
<1>8. F[{}] = part /\ F = [s \in SUBSET (1 .. n) |-> F[s]]
  <2>1. {} \in SUBSET (1 .. n)
    OBVIOUS
  <2> QED BY ONLY <1>6, <2>1
<1>9. PICK g : Runs(g, Part, part, n, H) /\ g[n] = F[1 .. n]
  <2> HIDE DEF Folded
  <2>1. \A s \in SUBSET (1 .. n) :
          s # {} => (F[s \ {Max(s)}] \in Part => F[s] = H[<<F[s \ {Max(s)}], Max(s)>>])
    BY ONLY <1>7
  <2>2. FoldsTo(F, Part, part, n, H)
    BY ONLY <1>8, <2>1 DEF FoldsTo
  <2>3. \E g : RunsTo(g, F, Part, part, n, H)
    BY ONLY <1>3, <2>2, FoldRuns, part \in Part, n \in Nat
  <2> QED BY ONLY <2>3 DEF RunsTo
<1>10. g \in [0 .. n -> Part] /\ g[0] = part
  BY ONLY <1>9 DEF Runs
<1>11. ASSUME NEW k \in 1 .. n PROVE g[k] = WalkOne(g[k - 1], r, cube, k - 1)
  <2>1. g[k] = H[<<g[k - 1], k>>]
    BY ONLY <1>9, k \in 1 .. n DEF Runs
  <2>2. g[k - 1] \in Part
    <3>1. k - 1 \in 0 .. n
      BY ONLY k \in 1 .. n, n \in Nat
    <3> QED BY ONLY <1>10, <3>1
  <2>3. g[k] = WalkOne(g[k - 1], r, cube, blocks[k] - 1)
    BY ONLY <1>4, <2>1, <2>2, k \in 1 .. n
  <2> QED BY ONLY <1>2, <2>3, k \in 1 .. n
<1>12. g[n] = OnlinePart(r, cube)
  BY ONLY <1>6, <1>9
<1> QED
  BY ONLY <1>10, <1>11, <1>12, n = NBlocks(r, cube), part = Fresh DEF Onward

LEMMA OnlineHolds ==
  ASSUME NEW r \in Rounds, NEW cube \in Cubes(r)
  PROVE  Holds(OnlinePart(r, cube), r, cube, History(r, cube))
<1> PICK n \in Nat : n = NBlocks(r, cube)
  BY BlockOf
<1> PICK g : Onward(g, r, cube)
  BY OnlineRuns
<1>0. /\ g[0] = Fresh /\ g[n] = OnlinePart(r, cube) /\ g \in [0 .. n -> Part]
      /\ \A k \in 1 .. n : g[k] = WalkOne(g[k - 1], r, cube, k - 1)
  BY ONLY Onward(g, r, cube), n = NBlocks(r, cube) DEF Onward
<1> DEFINE Seen_(k) == Drawn(r, cube, 1, 0, k)
           S == {k \in Nat : k <= n => Holds(g[k], r, cube, Seen_(k))}
<1>1. 0 \in S
  <2>1. Drawn(r, cube, 1, 0, 0) = {}
    <3>1. 1 \in Nat \ {0} /\ 0 \in 0 .. 1 - 1
      OBVIOUS
    <3> QED BY ONLY <3>1, DrawnNone, r \in Rounds, cube \in Cubes(r)
  <2> QED BY <1>0, <2>1, FreshHolds
<1>2. ASSUME NEW k \in Nat, k \in S PROVE k + 1 \in S
  <2> SUFFICES ASSUME k + 1 <= n PROVE Holds(g[k + 1], r, cube, Drawn(r, cube, 1, 0, k + 1))
    OBVIOUS
  <2>1. k \in 0 .. NBlocks(r, cube) - 1 /\ k + 1 \in 1 .. n /\ (k + 1) - 1 = k /\ k \in 0 .. n
    OBVIOUS
  <2>2. Holds(g[k], r, cube, Drawn(r, cube, 1, 0, k))
    BY <1>2
  <2>3. /\ Drawn(r, cube, 1, 0, k + 1) = Drawn(r, cube, 1, 0, k) \cup Block(r, cube, k)
        /\ \A j \in Drawn(r, cube, 1, 0, k) : j \notin Block(r, cube, k)
    <3>1. k % 1 = 0 /\ 1 \in Nat \ {0}
      OBVIOUS
    <3> QED BY ONLY <3>1, DrawnNext, k \in Nat, r \in Rounds, cube \in Cubes(r)
  <2>4. g[k + 1] = WalkOne(g[k], r, cube, k) /\ g[k] \in Part
    BY ONLY <1>0, <2>1
  <2>5. Holds(WalkOne(g[k], r, cube, k), r, cube, Drawn(r, cube, 1, 0, k) \cup Block(r, cube, k))
    BY ONLY <2>1, <2>2, <2>3, <2>4, WalkHolds, r \in Rounds, cube \in Cubes(r)
  <2> QED BY ONLY <2>3, <2>4, <2>5
<1>3. \A k \in Nat : k \in S
  <2> HIDE DEF S
  <2> QED BY <1>1, <1>2, Induction
<1>4. Holds(g[n], r, cube, Drawn(r, cube, 1, 0, n))
  <2>1. n \in S /\ n <= n
    <3> HIDE DEF S
    <3> QED BY <1>3
  <2> QED BY <2>1
<1>5. Drawn(r, cube, 1, 0, n) = History(r, cube)
  <2>1. \A j \in History(r, cube) : j \div r.blockSize \in 0 .. n - 1
    BY ONLY BlockOf, r \in Rounds, cube \in Cubes(r), n = NBlocks(r, cube)
  <2>2. \A q \in 0 .. n - 1 : q < n /\ q % 1 = 0
    BY ONLY n \in Nat
  <2> QED BY ONLY <2>1, <2>2 DEF Drawn
<1> QED
  BY ONLY <1>0, <1>4, <1>5

LEMMA OnlineRight ==
  ASSUME NEW r \in Rounds, r.heads = r.kvHeads * r.nRep
  PROVE  RightRows(DecodeReferenceOnline(r), r, 1)
<1> PICK all : all = DecodeReferenceOnline(r)
  OBVIOUS
<1>1. DOMAIN all = Outputs(r) /\ \A k \in Outputs(r) :
        all[k] = [terms |-> OnlinePart(r, CubeOf(r, k)).terms, dims |-> 0 .. r.headDim - 1,
                  scale |-> 1]
  BY ONLY all = DecodeReferenceOnline(r) DEF DecodeReferenceOnline, OnlinePart, CubeOf
<1>2. ASSUME NEW k \in Outputs(r) PROVE RightRow(all[k], r, k, 1)
  <2> PICK cube \in Cubes(r) : cube = CubeOf(r, k)
    BY HeadsAre
  <2> PICK part : part = OnlinePart(r, cube)
    OBVIOUS
  <2>1. Topped(part.m, r, cube, History(r, cube))
        /\ Terms(part.terms, r, cube, History(r, cube), part.m)
    BY ONLY OnlineHolds, r \in Rounds, cube \in Cubes(r), part = OnlinePart(r, cube) DEF Holds
  <2>2. all[k] = [terms |-> part.terms, dims |-> 0 .. r.headDim - 1, scale |-> 1]
    BY ONLY <1>1, k \in Outputs(r), part = OnlinePart(r, cube), cube = CubeOf(r, k)
  <2> QED BY ONLY <2>1, <2>2, RowFrom, r \in Rounds, cube \in Cubes(r), cube = CubeOf(r, k)
<1> QED
  BY ONLY <1>1, <1>2, all = DecodeReferenceOnline(r) DEF RightRows

-------------------------------------------------------------------------------
(* What an action makes of a sound operation.                              *)

LEMMA TakesSound ==
  ASSUME NEW mode, NEW r \in Rounds, Takes(mode, r)
  PROVE  LaunchSound(r)
BY DEF Takes, DeviceSupports, LaunchSound

LEMMA RunningIs ==
  ASSUME NEW o, NEW s, OpSound(o, s), o.at # "Registered"
  PROVE  o.at = "Running" /\ RunningSound(o, s)
BY DEF OpSound

LEMMA RunsOn ==
  ASSUME device \in Devices, NEW o, NEW s, OpSound(o, s)
  PROVE  /\ o.round \in Rounds /\ LaunchSound(o.round) /\ o.at \in {"Registered", "Running"}
         /\ PlanesPerCube(o.round) \in Nat \ {0} /\ DimsOf(o.round) = 0 .. o.round.headDim - 1
         /\ o.round.heads = o.round.kvHeads * o.round.nRep
<1> PICK r \in Rounds : r = o.round /\ LaunchSound(r)
  BY DEF OpSound
<1>1. Supported(r) /\ r.heads = r.kvHeads * r.nRep
  BY DEF LaunchSound
<1>2. PlanesPerCube(r) \in Nat \ {0} /\ DimsOf(r) = 0 .. r.headDim - 1
  BY ONLY <1>1, PlanesAre, DimsAre, device \in Devices, r \in Rounds
<1>3. o.at \in {"Registered", "Running"}
  BY DEF OpSound
<1> QED
  BY ONLY <1>1, <1>2, <1>3, r = o.round, LaunchSound(r), r \in Rounds

LEMMA CardinalityUpto ==
  ASSUME NEW n \in Nat \ {0}
  PROVE  Cardinality(0 .. n - 1) = n
<1>1. n - 1 \in Int /\ 0 \in Int /\ ~(0 > n - 1) /\ (n - 1) - 0 + 1 = n
  OBVIOUS
<1> QED
  BY ONLY <1>1, FS_Interval

Launched(o, s) ==
  [o EXCEPT !.at = "Running", !.scale = s,
    !.planes = [c \in Cubes(o.round) |->
      [p \in 0 .. PlanesPerCube(o.round) - 1 |->
         [b |-> p, part |-> Fresh, published |-> FALSE]]]]

LEMMA LaunchOp ==
  ASSUME device \in Devices, NEW o, NEW s, OpSound(o, s), o.at = "Registered"
  PROVE  OpSound(Launched(o, s), s) /\ Launched(o, s).round = o.round
<1> PICK r \in Rounds : r = o.round
  BY DEF OpSound
<1> PICK n \in Nat \ {0} : n = PlanesPerCube(r)
  BY RunsOn
<1> PICK planes : planes = [c \in Cubes(r) |->
                     [p \in 0 .. n - 1 |-> [b |-> p, part |-> Fresh, published |-> FALSE]]]
  OBVIOUS
<1> PICK new : new = Launched(o, s)
  OBVIOUS
<1>1. o = Registered(r)
  BY DEF OpSound
<1>2. new = [round |-> r, at |-> "Running", scale |-> s, planes |-> planes, rows |-> None]
  BY ONLY <1>1, new = Launched(o, s), r = o.round, n = PlanesPerCube(r),
          planes = [c \in Cubes(r) |->
                     [p \in 0 .. n - 1 |-> [b |-> p, part |-> Fresh, published |-> FALSE]]]
     DEF Launched, Registered
<1>3. /\ new.round = r /\ new.at = "Running" /\ new.planes = planes /\ new.rows = {}
      /\ new = [round |-> new.round, at |-> "Running", scale |-> s, planes |-> new.planes,
                rows |-> new.rows]
  BY ONLY <1>2 DEF None
<1>4. /\ DOMAIN planes = Cubes(r) /\ planes = [c \in DOMAIN planes |-> planes[c]]
      /\ \A c \in Cubes(r) :
           planes[c] = [p \in 0 .. n - 1 |-> [b |-> p, part |-> Fresh, published |-> FALSE]]
  BY ONLY planes = [c \in Cubes(r) |->
                     [p \in 0 .. n - 1 |-> [b |-> p, part |-> Fresh, published |-> FALSE]]]
<1>5. ASSUME NEW c \in Cubes(r), NEW p \in 0 .. n - 1, NEW w,
             w = [b |-> p, part |-> Fresh, published |-> FALSE]
      PROVE  WalkerSound(w, r, c, n, p)
  <2>1. w.b = p /\ w.part = Fresh /\ w.published = FALSE
        /\ w = [b |-> w.b, part |-> w.part, published |-> w.published]
    BY ONLY <1>5
  <2>2. Drawn(r, c, n, p, p) = {} /\ p % n = p
    BY ONLY DrawnNone, r \in Rounds, c \in Cubes(r), n \in Nat \ {0}, p \in 0 .. n - 1
  <2>3. Fresh \in Part /\ Holds(Fresh, r, c, {})
    BY ONLY FreshHolds
  <2>4. p \in Nat
    BY ONLY p \in 0 .. n - 1, n \in Nat \ {0}
  <2> QED BY ONLY <2>1, <2>2, <2>3, <2>4 DEF WalkerSound
<1>6. ASSUME NEW c \in Cubes(r) PROVE CubeSound(planes[c], r, c, n)
  <2> PICK ws : ws = planes[c]
    OBVIOUS
  <2>1. ws = [p \in 0 .. n - 1 |-> [b |-> p, part |-> Fresh, published |-> FALSE]]
    BY ONLY <1>4, c \in Cubes(r), ws = planes[c]
  <2>2. ws = [p \in 0 .. n - 1 |-> ws[p]]
    BY ONLY <2>1
  <2>3. \A p \in 0 .. n - 1 : ws[p] = [b |-> p, part |-> Fresh, published |-> FALSE]
    BY ONLY <2>1
  <2>4. \A p \in 0 .. n - 1 : WalkerSound(ws[p], r, c, n, p)
    BY ONLY <1>5, <2>3, c \in Cubes(r)
  <2> QED BY ONLY <2>2, <2>4, ws = planes[c] DEF CubeSound
<1>7. \A k \in Outputs(r) : CubeOf(r, k) \in Cubes(r)
  <2>1. r.heads = r.kvHeads * r.nRep
    BY RunsOn
  <2> QED BY ONLY <2>1, HeadsAre, r \in Rounds
<1>8. RunningSound(new, s)
  BY ONLY <1>3, <1>4, <1>6, <1>7, n = PlanesPerCube(r) DEF RunningSound
<1>9. LaunchSound(r)
  BY DEF OpSound
<1> QED
  BY ONLY <1>3, <1>8, <1>9, new = Launched(o, s), r = o.round, r \in Rounds DEF OpSound

(* A plane's new state in the place of its old one.                        *)
LEMMA PlaneChanged ==
  ASSUME device \in Devices, NEW o, NEW s, OpSound(o, s), o.at = "Running",
         NEW c \in DOMAIN o.planes, NEW p \in DOMAIN o.planes[c], NEW w,
         WalkerSound(w, o.round, c, PlanesPerCube(o.round), p)
  PROVE  /\ OpSound([o EXCEPT !.planes[c][p] = w], s)
         /\ [o EXCEPT !.planes[c][p] = w].round = o.round
<1> PICK r \in Rounds : r = o.round /\ LaunchSound(r)
  BY DEF OpSound
<1> PICK n \in Nat \ {0} : n = PlanesPerCube(r)
  BY RunsOn
<1> PICK ps : ps = o.planes
  OBVIOUS
<1>0. RunningSound(o, s)
  BY RunningIs
<1>1. /\ o = [round |-> r, at |-> "Running", scale |-> s, planes |-> ps, rows |-> o.rows]
      /\ ps = [d \in DOMAIN ps |-> ps[d]] /\ DOMAIN ps \subseteq Cubes(r)
      /\ \A d \in DOMAIN ps : CubeSound(ps[d], r, d, n)
  BY ONLY <1>0, r = o.round, n = PlanesPerCube(r), ps = o.planes DEF RunningSound
<1> PICK ws : ws = ps[c]
  OBVIOUS
<1>2. ws = [q \in 0 .. n - 1 |-> ws[q]] /\ p \in 0 .. n - 1
      /\ \A q \in 0 .. n - 1 : WalkerSound(ws[q], r, c, n, q)
  <2>1. ws = [q \in 0 .. n - 1 |-> ws[q]]
        /\ \A q \in 0 .. n - 1 : WalkerSound(ws[q], r, c, n, q)
    BY ONLY <1>1, ws = ps[c], c \in DOMAIN o.planes, ps = o.planes DEF CubeSound
  <2>2. p \in DOMAIN ws
    BY ONLY ws = ps[c], ps = o.planes, p \in DOMAIN o.planes[c]
  <2> QED BY ONLY <2>1, <2>2
<1> PICK us : us = [ws EXCEPT ![p] = w]
  OBVIOUS
<1>3. CubeSound(us, r, c, n)
  <2>1. us = [q \in 0 .. n - 1 |-> us[q]]
    BY ONLY <1>2, us = [ws EXCEPT ![p] = w]
  <2>2. \A q \in 0 .. n - 1 : us[q] = IF q = p THEN w ELSE ws[q]
    BY ONLY <1>2, us = [ws EXCEPT ![p] = w]
  <2>3. WalkerSound(w, r, c, n, p)
    BY ONLY r = o.round, n = PlanesPerCube(r),
            WalkerSound(w, o.round, c, PlanesPerCube(o.round), p)
  <2>4. \A q \in 0 .. n - 1 : WalkerSound(us[q], r, c, n, q)
    BY ONLY <1>2, <2>2, <2>3
  <2> QED BY ONLY <2>1, <2>4 DEF CubeSound
<1> PICK qs : qs = [ps EXCEPT ![c] = us]
  OBVIOUS
<1>4. /\ DOMAIN qs = DOMAIN ps /\ qs = [d \in DOMAIN qs |-> qs[d]]
      /\ \A d \in DOMAIN qs : CubeSound(qs[d], r, d, n)
  <2>0. c \in DOMAIN ps
    BY ONLY c \in DOMAIN o.planes, ps = o.planes
  <2>1. DOMAIN qs = DOMAIN ps /\ qs = [d \in DOMAIN qs |-> qs[d]]
        /\ \A d \in DOMAIN ps : qs[d] = IF d = c THEN us ELSE ps[d]
    BY ONLY <1>1, <2>0, qs = [ps EXCEPT ![c] = us]
  <2> QED BY ONLY <1>1, <1>3, <2>1
<1> PICK new : new = [o EXCEPT !.planes[c][p] = w]
  OBVIOUS
<1>5. new = [round |-> r, at |-> "Running", scale |-> s, planes |-> qs, rows |-> o.rows]
  <2> PICK rows : rows = o.rows
    OBVIOUS
  <2> PICK old : old = o
    OBVIOUS
  <2>1. old = [round |-> r, at |-> "Running", scale |-> s, planes |-> ps, rows |-> rows]
    BY ONLY <1>1, old = o, rows = o.rows
  <2>2. new = [old EXCEPT !.planes[c][p] = w]
    BY ONLY new = [o EXCEPT !.planes[c][p] = w], old = o
  <2>3. new = [old EXCEPT !.planes = qs]
    BY ONLY <2>1, <2>2, qs = [ps EXCEPT ![c] = us], us = [ws EXCEPT ![p] = w], ws = ps[c]
  <2>4. new = [round |-> r, at |-> "Running", scale |-> s, planes |-> qs, rows |-> rows]
    BY ONLY <2>1, <2>3
  <2> QED BY ONLY <2>4, rows = o.rows
<1>6. /\ new.round = r /\ new.at = "Running" /\ new.planes = qs /\ new.rows = o.rows
      /\ new = [round |-> new.round, at |-> "Running", scale |-> s, planes |-> new.planes,
                rows |-> new.rows]
  BY ONLY <1>5
<1>7. RunningSound(new, s)
  BY ONLY <1>0, <1>1, <1>4, <1>6, r = o.round, n = PlanesPerCube(r), ps = o.planes DEF RunningSound
<1> QED
  BY ONLY <1>6, <1>7, new = [o EXCEPT !.planes[c][p] = w], r = o.round, r \in Rounds,
          LaunchSound(r) DEF OpSound

LEMMA WalkerIs ==
  ASSUME device \in Devices, NEW o, NEW s, OpSound(o, s), o.at = "Running",
         NEW c \in DOMAIN o.planes
  PROVE  /\ c \in Cubes(o.round) /\ CubeSound(o.planes[c], o.round, c, PlanesPerCube(o.round))
         /\ DOMAIN o.planes[c] = 0 .. PlanesPerCube(o.round) - 1
         /\ Cardinality(DOMAIN o.planes[c]) = PlanesPerCube(o.round)
<1> PICK n \in Nat \ {0} : n = PlanesPerCube(o.round)
  BY RunsOn
<1> PICK ws : ws = o.planes[c]
  OBVIOUS
<1>1. RunningSound(o, s)
  BY RunningIs
<1>2. c \in Cubes(o.round) /\ CubeSound(ws, o.round, c, n)
  BY ONLY <1>1, c \in DOMAIN o.planes, n = PlanesPerCube(o.round), ws = o.planes[c]
     DEF RunningSound
<1>3. DOMAIN ws = 0 .. n - 1
  <2>1. ws = [p \in 0 .. n - 1 |-> ws[p]]
    BY ONLY <1>2 DEF CubeSound
  <2> QED BY ONLY <2>1
<1>4. Cardinality(0 .. n - 1) = n
  BY CardinalityUpto
<1> QED
  BY ONLY <1>2, <1>3, <1>4, ws = o.planes[c], n = PlanesPerCube(o.round)

Further(w, r, c, n) == [w EXCEPT !.b = @ + n, !.part = WalkOne(@, r, c, w.b)]

LEMMA FurtherSound ==
  ASSUME NEW r \in Rounds, NEW c \in Cubes(r), NEW n \in Nat \ {0}, NEW p, NEW w,
         WalkerSound(w, r, c, n, p), w.b < NBlocks(r, c)
  PROVE  WalkerSound(Further(w, r, c, n), r, c, n, p)
<1> PICK b \in Nat : b = w.b /\ b % n = p
  BY DEF WalkerSound
<1> PICK part \in Part : part = w.part /\ Holds(part, r, c, Drawn(r, c, n, p, b))
  BY DEF WalkerSound
<1> PICK blocks \in Nat : blocks = NBlocks(r, c)
  BY BlockOf
<1> PICK next : next = WalkOne(part, r, c, b)
  OBVIOUS
<1> PICK new : new = Further(w, r, c, n)
  OBVIOUS
<1>1. b \in 0 .. NBlocks(r, c) - 1
  BY ONLY b \in Nat, b = w.b, w.b < NBlocks(r, c), blocks \in Nat, blocks = NBlocks(r, c)
<1>2. /\ Drawn(r, c, n, p, b + n) = Drawn(r, c, n, p, b) \cup Block(r, c, b)
      /\ \A j \in Drawn(r, c, n, p, b) : j \notin Block(r, c, b)
  BY ONLY DrawnNext, r \in Rounds, c \in Cubes(r), n \in Nat \ {0}, b \in Nat, b % n = p
<1>3. next \in Part /\ Holds(next, r, c, Drawn(r, c, n, p, b) \cup Block(r, c, b))
  BY ONLY <1>1, <1>2, WalkHolds, r \in Rounds, c \in Cubes(r), part \in Part,
          Holds(part, r, c, Drawn(r, c, n, p, b)), next = WalkOne(part, r, c, b)
<1>4. w = [b |-> b, part |-> part, published |-> w.published]
      /\ (w.published => b >= blocks)
  BY ONLY WalkerSound(w, r, c, n, p), b = w.b, part = w.part, blocks = NBlocks(r, c)
     DEF WalkerSound
<1>5. new = [b |-> b + n, part |-> next, published |-> w.published]
  <2> PICK old : old = w
    OBVIOUS
  <2> PICK published : published = w.published
    OBVIOUS
  <2>1. old = [b |-> b, part |-> part, published |-> published]
    BY ONLY <1>4, old = w, published = w.published
  <2>2. new = [old EXCEPT !.b = @ + n, !.part = WalkOne(@, r, c, b)]
    BY ONLY new = Further(w, r, c, n), old = w, b = w.b DEF Further
  <2> PICK mid : mid = [old EXCEPT !.b = @ + n]
    OBVIOUS
  <2>4. mid = [b |-> b + n, part |-> part, published |-> published]
    BY ONLY <2>1, mid = [old EXCEPT !.b = @ + n]
  <2>5. [mid EXCEPT !.part = WalkOne(@, r, c, b)] = [mid EXCEPT !.part = next]
    <3>1. mid.part = part
      BY ONLY <2>4
    <3> QED BY ONLY <3>1, next = WalkOne(part, r, c, b)
  <2>6. [old EXCEPT !.b = @ + n, !.part = WalkOne(@, r, c, b)] =
          [mid EXCEPT !.part = WalkOne(@, r, c, b)]
    BY ONLY mid = [old EXCEPT !.b = @ + n]
  <2>7. [mid EXCEPT !.part = next] = [b |-> b + n, part |-> next, published |-> published]
    BY ONLY <2>4
  <2>3. [old EXCEPT !.b = @ + n, !.part = WalkOne(@, r, c, b)] =
          [b |-> b + n, part |-> next, published |-> published]
    BY ONLY <2>5, <2>6, <2>7
  <2> QED BY ONLY <2>2, <2>3, published = w.published
<1>6. new.b = b + n /\ new.part = next /\ new.published = w.published
      /\ new = [b |-> new.b, part |-> new.part, published |-> new.published]
  BY ONLY <1>5
<1>7. b + n \in Nat /\ (b + n) % n = p
  <2>1. (b + n) % n = b % n
    BY ONLY NextResidue, b \in Nat, n \in Nat \ {0}
  <2> QED BY ONLY <2>1, b % n = p, b \in Nat, n \in Nat \ {0}
<1>8. b >= blocks => b + n >= blocks
  BY ONLY b \in Nat, n \in Nat \ {0}, blocks \in Nat
<1> QED
  BY ONLY <1>2, <1>3, <1>4, <1>6, <1>7, <1>8, blocks = NBlocks(r, c), new = Further(w, r, c, n)
     DEF WalkerSound

WalkTo(o, c, p) ==
  [o EXCEPT !.planes[c][p] =
     [o.planes[c][p] EXCEPT !.b = @ + Cardinality(DOMAIN o.planes[c]),
        !.part = WalkOne(@, o.round, c, o.planes[c][p].b)]]

LEMMA WalkOp ==
  ASSUME device \in Devices, NEW o, NEW s, OpSound(o, s), o.at = "Running",
         NEW c \in DOMAIN o.planes, NEW p \in DOMAIN o.planes[c],
         o.planes[c][p].b < NBlocks(o.round, c), NEW new,
         new = WalkTo(o, c, p)
  PROVE  OpSound(new, s) /\ new.round = o.round
<1> PICK r \in Rounds : r = o.round
  BY RunsOn
<1> PICK n \in Nat \ {0} : n = PlanesPerCube(r)
  BY RunsOn
<1> PICK w : w = o.planes[c][p]
  OBVIOUS
<1>1. /\ c \in Cubes(r) /\ CubeSound(o.planes[c], r, c, n) /\ DOMAIN o.planes[c] = 0 .. n - 1
      /\ Cardinality(DOMAIN o.planes[c]) = n
  BY WalkerIs
<1>2. WalkerSound(w, r, c, n, p)
  BY ONLY <1>1, p \in DOMAIN o.planes[c], w = o.planes[c][p] DEF CubeSound
<1>3. WalkerSound(Further(w, r, c, n), r, c, n, p)
  BY ONLY <1>1, <1>2, FurtherSound, r \in Rounds, n \in Nat \ {0}, r = o.round,
          w = o.planes[c][p], o.planes[c][p].b < NBlocks(o.round, c)
<1>4. new = [o EXCEPT !.planes[c][p] = Further(w, r, c, n)]
  BY ONLY <1>1, r = o.round, w = o.planes[c][p],
          new = WalkTo(o, c, p) DEF Further, WalkTo
<1>5. WalkerSound(Further(w, r, c, n), o.round, c, PlanesPerCube(o.round), p)
  BY ONLY <1>3, r = o.round, n = PlanesPerCube(r)
<1> QED
  BY <1>4, <1>5, PlaneChanged

LEMMA PublishOp ==
  ASSUME device \in Devices, NEW o, NEW s, OpSound(o, s), o.at = "Running",
         NEW c \in DOMAIN o.planes, NEW p \in DOMAIN o.planes[c],
         o.planes[c][p].b >= NBlocks(o.round, c), NEW new,
         new = [o EXCEPT !.planes[c][p].published = TRUE]
  PROVE  OpSound(new, s) /\ new.round = o.round
<1> PICK r \in Rounds : r = o.round
  BY RunsOn
<1> PICK n \in Nat \ {0} : n = PlanesPerCube(r)
  BY RunsOn
<1> PICK w : w = o.planes[c][p]
  OBVIOUS
<1>1. CubeSound(o.planes[c], r, c, n) /\ DOMAIN o.planes[c] = 0 .. n - 1
  BY WalkerIs
<1>2. WalkerSound(w, r, c, n, p)
  BY ONLY <1>1, p \in DOMAIN o.planes[c], w = o.planes[c][p] DEF CubeSound
<1> PICK u : u = [w EXCEPT !.published = TRUE]
  OBVIOUS
<1>3. w = [b |-> w.b, part |-> w.part, published |-> w.published]
  BY ONLY <1>2 DEF WalkerSound
<1>4. u.b = w.b /\ u.part = w.part /\ u = [b |-> u.b, part |-> u.part, published |-> u.published]
  BY ONLY <1>3, u = [w EXCEPT !.published = TRUE]
<1>5. WalkerSound(u, r, c, n, p)
  BY ONLY <1>2, <1>4, r = o.round, w = o.planes[c][p], o.planes[c][p].b >= NBlocks(o.round, c)
     DEF WalkerSound
<1>6. new = [o EXCEPT !.planes[c][p] = u]
  BY ONLY new = [o EXCEPT !.planes[c][p].published = TRUE], u = [w EXCEPT !.published = TRUE],
          w = o.planes[c][p]
<1>7. WalkerSound(u, o.round, c, PlanesPerCube(o.round), p)
  BY ONLY <1>5, r = o.round, n = PlanesPerCube(r)
<1>8. /\ OpSound([o EXCEPT !.planes[c][p] = u], s)
      /\ [o EXCEPT !.planes[c][p] = u].round = o.round
  BY ONLY <1>7, PlaneChanged, device \in Devices, OpSound(o, s), o.at = "Running",
          c \in DOMAIN o.planes, p \in DOMAIN o.planes[c]
<1> QED
  BY ONLY <1>6, <1>8

(* The partials of a walked cube, merged, are of the whole history.        *)
LEMMA CubeWhole ==
  ASSUME NEW r \in Rounds, NEW c \in Cubes(r), NEW n \in Nat \ {0}, NEW ws, CubeSound(ws, r, c, n),
         \A p \in 0 .. n - 1 : ws[p].b >= NBlocks(r, c), NEW all,
         all = Merged([p \in DOMAIN ws |-> ws[p].part])
  PROVE  Topped(all.m, r, c, History(r, c)) /\ Terms(all.terms, r, c, History(r, c), all.m)
<1>1. ws = [p \in 0 .. n - 1 |-> ws[p]] /\ \A p \in 0 .. n - 1 : WalkerSound(ws[p], r, c, n, p)
  BY ONLY CubeSound(ws, r, c, n) DEF CubeSound
<1>2. DOMAIN ws = 0 .. n - 1
  BY ONLY <1>1
<1> PICK bs : bs = [p \in 0 .. n - 1 |-> ws[p].b]
  OBVIOUS
<1> PICK parts : parts = [p \in 0 .. n - 1 |-> ws[p].part]
  OBVIOUS
<1> PICK js : js = [p \in 0 .. n - 1 |-> Drawn(r, c, n, p, bs[p])]
  OBVIOUS
<1>3. \A p \in 0 .. n - 1 : bs[p] = ws[p].b /\ parts[p] = ws[p].part
                            /\ js[p] = Drawn(r, c, n, p, bs[p])
  BY ONLY bs = [p \in 0 .. n - 1 |-> ws[p].b], parts = [p \in 0 .. n - 1 |-> ws[p].part],
          js = [p \in 0 .. n - 1 |-> Drawn(r, c, n, p, bs[p])]
<1>4. \A p \in 0 .. n - 1 : bs[p] \in Nat /\ bs[p] >= NBlocks(r, c)
  BY ONLY <1>1, <1>3, \A p \in 0 .. n - 1 : ws[p].b >= NBlocks(r, c) DEF WalkerSound
<1>5. Shares(js, r, c, n)
  BY ONLY <1>4, DrawnAll, r \in Rounds, c \in Cubes(r), n \in Nat \ {0},
          js = [p \in 0 .. n - 1 |-> Drawn(r, c, n, p, bs[p])]
<1>6. \A p \in 0 .. n - 1 : Holds(parts[p], r, c, js[p])
  BY ONLY <1>1, <1>3 DEF WalkerSound
<1>7. DOMAIN parts = 0 .. n - 1
  BY ONLY parts = [p \in 0 .. n - 1 |-> ws[p].part]
<1>8. all = Merged(parts)
  BY ONLY <1>2, all = Merged([p \in DOMAIN ws |-> ws[p].part]),
          parts = [p \in 0 .. n - 1 |-> ws[p].part]
<1> QED
  BY ONLY <1>5, <1>6, <1>7, <1>8, MergedHolds, r \in Rounds, c \in Cubes(r), n \in Nat \ {0}

(* A merged cube's rows, of each head of its group.                        *)
GroupRows(o, c, all) ==
  {[at |-> <<c[1], h>>,
    row |-> [terms |-> all.terms, dims |-> DimsOf(o.round), scale |-> o.scale]] :
     h \in c[2] * o.round.nRep .. (c[2] + 1) * o.round.nRep - 1}

GroupOK(rows, r, c, s) ==
  /\ \A x \in rows : RowSound(x, r, s)
  /\ \A k \in Outputs(r) : CubeOf(r, k) = c => \E x \in rows : x.at = k

LEMMA GroupRight ==
  ASSUME device \in Devices, NEW o, NEW s, OpSound(o, s), o.at = "Running",
         NEW c \in Cubes(o.round), NEW all,
         Topped(all.m, o.round, c, History(o.round, c)),
         Terms(all.terms, o.round, c, History(o.round, c), all.m)
  PROVE  GroupOK(GroupRows(o, c, all), o.round, c, s)
<1> PICK r \in Rounds : r = o.round
  BY RunsOn
<1>1. r.heads = r.kvHeads * r.nRep /\ DimsOf(r) = 0 .. r.headDim - 1
  BY RunsOn
<1>2. o.scale = s
  <2>1. o = [round |-> o.round, at |-> "Running", scale |-> s, planes |-> o.planes, rows |-> o.rows]
    BY RunningIs DEF RunningSound
  <2> QED BY ONLY <2>1
<1> PICK row : row = [terms |-> all.terms, dims |-> 0 .. r.headDim - 1, scale |-> s]
  OBVIOUS
<1> PICK heads : heads = c[2] * r.nRep .. (c[2] + 1) * r.nRep - 1
  OBVIOUS
<1>3. GroupRows(o, c, all) = {[at |-> <<c[1], h>>, row |-> row] : h \in heads}
  BY ONLY <1>1, <1>2, r = o.round, heads = c[2] * r.nRep .. (c[2] + 1) * r.nRep - 1,
          row = [terms |-> all.terms, dims |-> 0 .. r.headDim - 1, scale |-> s] DEF GroupRows
<1>4. ASSUME NEW h \in heads, NEW x, x = [at |-> <<c[1], h>>, row |-> row]
      PROVE  RowSound(x, r, s)
  <2> PICK k : k = <<c[1], h>>
    OBVIOUS
  <2>1. k \in Outputs(r) /\ CubeOf(r, k) = c
    BY ONLY <1>1, HeadsAre, r \in Rounds, r = o.round, c \in Cubes(o.round), h \in heads,
            heads = c[2] * r.nRep .. (c[2] + 1) * r.nRep - 1, k = <<c[1], h>>
  <2>2. RightRow(row, r, k, s)
    BY ONLY <2>1, RowFrom, r \in Rounds, r = o.round, c \in Cubes(o.round),
            row = [terms |-> all.terms, dims |-> 0 .. r.headDim - 1, scale |-> s],
            Topped(all.m, o.round, c, History(o.round, c)),
            Terms(all.terms, o.round, c, History(o.round, c), all.m)
  <2>3. x.at = k /\ x.row = row
    BY ONLY x = [at |-> <<c[1], h>>, row |-> row], k = <<c[1], h>>
  <2> QED BY ONLY <2>1, <2>2, <2>3 DEF RowSound
<1>5. ASSUME NEW k \in Outputs(r), CubeOf(r, k) = c
      PROVE  \E x \in GroupRows(o, c, all) : x.at = k
  <2>1. k = <<k[1], k[2]>> /\ k[2] \in heads
    BY ONLY <1>1, <1>5, HeadsAre, r \in Rounds, k \in Outputs(r),
            heads = c[2] * r.nRep .. (c[2] + 1) * r.nRep - 1
  <2>2. k[1] = c[1]
    BY ONLY <1>5 DEF CubeOf
  <2> PICK x : x = [at |-> <<c[1], k[2]>>, row |-> row]
    OBVIOUS
  <2>3. x \in GroupRows(o, c, all)
    BY ONLY <1>3, <2>1, x = [at |-> <<c[1], k[2]>>, row |-> row]
  <2>4. x.at = <<c[1], k[2]>>
    BY ONLY x = [at |-> <<c[1], k[2]>>, row |-> row]
  <2> QED BY ONLY <2>1, <2>2, <2>3, <2>4
<1>6. \A x \in GroupRows(o, c, all) : RowSound(x, r, s)
  BY ONLY <1>3, <1>4
<1> QED
  BY ONLY <1>5, <1>6, r = o.round DEF GroupOK

Stored(o, c, all) ==
  [o EXCEPT !.rows = @ \cup GroupRows(o, c, all),
            !.planes = [d \in DOMAIN o.planes \ {c} |-> o.planes[d]]]

LEMMA EpilogueOp ==
  ASSUME device \in Devices, NEW o, NEW s, OpSound(o, s), o.at = "Running",
         NEW c \in DOMAIN o.planes, SyncCube(o, c) \/ (DOMAIN o.planes[c] = {0} /\ Walked(o, c, 0)),
         NEW all, all = Merged([p \in DOMAIN o.planes[c] |-> o.planes[c][p].part]), NEW new,
         new = Stored(o, c, all)
  PROVE  OpSound(new, s) /\ new.round = o.round
<1> PICK r \in Rounds : r = o.round /\ LaunchSound(r)
  BY DEF OpSound
<1> PICK n \in Nat \ {0} : n = PlanesPerCube(r)
  BY RunsOn
<1> PICK ws : ws = o.planes[c]
  OBVIOUS
<1>1. c \in Cubes(r) /\ CubeSound(ws, r, c, n) /\ DOMAIN ws = 0 .. n - 1
  BY WalkerIs
<1>2. \A p \in 0 .. n - 1 : ws[p].b >= NBlocks(r, c)
  <2>1. CASE SyncCube(o, c)
    <3>1. \A p \in 0 .. n - 1 : ws[p].published
      BY ONLY <1>1, <2>1, ws = o.planes[c] DEF SyncCube
    <3> QED BY ONLY <1>1, <3>1 DEF CubeSound, WalkerSound
  <2>2. CASE DOMAIN ws = {0} /\ Walked(o, c, 0)
    BY ONLY <1>1, <2>2, ws = o.planes[c], r = o.round DEF Walked
  <2> QED BY <2>1, <2>2
<1>3. Topped(all.m, r, c, History(r, c)) /\ Terms(all.terms, r, c, History(r, c), all.m)
  BY ONLY <1>1, <1>2, CubeWhole, r \in Rounds, n \in Nat \ {0}, ws = o.planes[c],
          all = Merged([p \in DOMAIN o.planes[c] |-> o.planes[c][p].part])
<1> PICK rows : rows = GroupRows(o, c, all)
  OBVIOUS
<1>4. /\ \A x \in rows : RowSound(x, r, s)
      /\ \A k \in Outputs(r) : CubeOf(r, k) = c => \E x \in rows : x.at = k
  <2>1. /\ c \in Cubes(o.round) /\ Topped(all.m, o.round, c, History(o.round, c))
        /\ Terms(all.terms, o.round, c, History(o.round, c), all.m)
    BY ONLY <1>1, <1>3, r = o.round
  <2>2. GroupOK(GroupRows(o, c, all), o.round, c, s)
    BY ONLY <2>1, GroupRight, device \in Devices, OpSound(o, s), o.at = "Running"
  <2> QED BY ONLY <2>2, r = o.round, rows = GroupRows(o, c, all) DEF GroupOK
<1>5. RunningSound(o, s)
  BY RunningIs
<1> PICK ps : ps = o.planes
  OBVIOUS
<1> PICK was : was = o.rows
  OBVIOUS
<1> PICK qs : qs = [d \in DOMAIN ps \ {c} |-> ps[d]]
  OBVIOUS
<1>6. new = [round |-> r, at |-> "Running", scale |-> s, planes |-> qs, rows |-> was \cup rows]
  <2> PICK old : old = o
    OBVIOUS
  <2>1. old = [round |-> r, at |-> "Running", scale |-> s, planes |-> ps, rows |-> was]
    BY ONLY <1>5, old = o, r = o.round, ps = o.planes, was = o.rows DEF RunningSound
  <2>2. new = [old EXCEPT !.rows = @ \cup rows, !.planes = qs]
    BY ONLY old = o, rows = GroupRows(o, c, all), qs = [d \in DOMAIN ps \ {c} |-> ps[d]],
            ps = o.planes,
            new = Stored(o, c, all) DEF Stored
  <2> QED BY ONLY <2>1, <2>2
<1>7. /\ new.round = r /\ new.at = "Running" /\ new.planes = qs /\ new.rows = was \cup rows
      /\ new = [round |-> new.round, at |-> "Running", scale |-> s, planes |-> new.planes,
                rows |-> new.rows]
  BY ONLY <1>6
<1>8. /\ DOMAIN qs = DOMAIN ps \ {c} /\ qs = [d \in DOMAIN qs |-> qs[d]]
      /\ \A d \in DOMAIN qs : qs[d] = ps[d]
  BY ONLY qs = [d \in DOMAIN ps \ {c} |-> ps[d]]
<1>9. /\ DOMAIN ps \subseteq Cubes(r) /\ \A d \in DOMAIN ps : CubeSound(ps[d], r, d, n)
      /\ \A x \in was : RowSound(x, r, s)
      /\ \A k \in Outputs(r) : CubeOf(r, k) \in DOMAIN ps \/ \E x \in was : x.at = k
  BY ONLY <1>5, r = o.round, ps = o.planes, was = o.rows, n = PlanesPerCube(r) DEF RunningSound
<1>10. /\ \A x \in was \cup rows : RowSound(x, r, s)
       /\ DOMAIN qs \subseteq Cubes(r) /\ \A d \in DOMAIN qs : CubeSound(qs[d], r, d, n)
  BY ONLY <1>4, <1>8, <1>9
<1>11. \A k \in Outputs(r) : CubeOf(r, k) \in DOMAIN qs \/ \E x \in was \cup rows : x.at = k
  BY ONLY <1>4, <1>8, <1>9
<1>12. RunningSound(new, s)
  BY ONLY <1>7, <1>8, <1>10, <1>11, n = PlanesPerCube(r) DEF RunningSound
<1>13. new.round = r /\ new.at = "Running"
  BY ONLY <1>7
<1>14. OpSound(new, s)
  BY ONLY <1>12, <1>13, r \in Rounds, LaunchSound(r) DEF OpSound
<1> QED
  BY ONLY <1>13, <1>14, r = o.round

(* The output of a finished operation.                                     *)
LEMMA FinishedRight ==
  ASSUME device \in Devices, NEW o, NEW s, OpSound(o, s), Finished(o)
  PROVE  RightRows(KernelRows(o), o.round, s)
<1> PICK r : r = o.round
  OBVIOUS
<1> PICK rows : rows = o.rows
  OBVIOUS
<1>1. o.at = "Running" /\ DOMAIN o.planes = {} /\ RunningSound(o, s)
  BY RunsOn, RunningIs DEF Finished
<1>2. /\ \A x \in rows : x.at \in Outputs(r) /\ RightRow(x.row, r, x.at, s)
      /\ \A k \in Outputs(r) : \E x \in rows : x.at = k
  BY ONLY <1>1, r = o.round, rows = o.rows DEF RunningSound, RowSound
<1>3. {x.at : x \in rows} = Outputs(r)
  BY ONLY <1>2
<1> PICK all : all = KernelRows(o)
  OBVIOUS
<1>4. all = [k \in Outputs(r) |-> (CHOOSE x \in rows : x.at = k).row]
  BY ONLY <1>3, all = KernelRows(o), rows = o.rows DEF KernelRows
<1>5. ASSUME NEW k \in Outputs(r) PROVE RightRow(all[k], r, k, s)
  <2> PICK x : x = CHOOSE y \in rows : y.at = k
    OBVIOUS
  <2>1. x \in rows /\ x.at = k
    BY ONLY <1>2, k \in Outputs(r), x = CHOOSE y \in rows : y.at = k
  <2>2. all[k] = x.row
    BY ONLY <1>4, k \in Outputs(r), x = CHOOSE y \in rows : y.at = k
  <2> QED BY ONLY <1>2, <2>1, <2>2
<1>6. DOMAIN all = Outputs(r)
  BY ONLY <1>4
<1> QED
  BY ONLY <1>5, <1>6, all = KernelRows(o), r = o.round DEF RightRows

-------------------------------------------------------------------------------
LEMMA SameLaunch ==
  ASSUME UNCHANGED device
  PROVE  /\ \A r : PlanesPerCube(r)' = PlanesPerCube(r)
         /\ \A r : LaunchSound(r)' <=> LaunchSound(r)
         /\ \A mode, r : Takes(mode, r)' <=> Takes(mode, r)
<1>0. PlaneDim' = PlaneDim
  BY DEF PlaneDim
<1>1. \A r : VectorWidth(r)' = VectorWidth(r)
  BY <1>0 DEF VectorWidth
<1>2. \A r : Dpu(r)' = Dpu(r)
  BY <1>0, <1>1 DEF Dpu, SlotsOf
<1>3. \A r : PlanesPerCube(r)' = PlanesPerCube(r)
  BY <1>0, <1>1, <1>2 DEF PlanesPerCube
<1>4. \A r : Supported(r)' <=> Supported(r)
  BY DEF Supported
<1>5. \A r : LaunchSound(r)' <=> LaunchSound(r)
  BY <1>4 DEF LaunchSound
<1>6. \A mode, r : Takes(mode, r)' <=> Takes(mode, r)
  BY <1>4 DEF Takes, DeviceSupports, DeviceDefaultsToKernel
<1> QED
  BY <1>3, <1>5, <1>6

LEMMA OpsKept ==
  ASSUME UNCHANGED device, \A t \in Threads : \A o \in op'[t] : OpSound(o, scale')
  PROVE  OpsSound'
<1>1. /\ \A r : PlanesPerCube(r)' = PlanesPerCube(r)
      /\ \A r : LaunchSound(r)' <=> LaunchSound(r)
  BY SameLaunch
<1> QED
  BY <1>1 DEF OpsSound, OpSound, RunningSound

(* What a step leaves of the check's verdict and of the outputs.           *)
LEMMA HonestKept ==
  ASSUME CheckHonest, UNCHANGED <<device, scale, check>>
  PROVE  CheckHonest'
<1>1. \A mode, r : Takes(mode, r)' <=> Takes(mode, r)
  BY SameLaunch
<1> QED
  BY <1>1 DEF CheckHonest

LEMMA ExactKept ==
  ASSUME DecodeExact, UNCHANGED out
  PROVE  DecodeExact'
BY DEF DecodeExact

LEMMA CheckKept ==
  ASSUME UNCHANGED device,
         CheckSound(check', op'[Checker], launches', Takes("Kernel", CheckRound))
  PROVE  CheckSound(check, op[Checker], launches, Takes("Kernel", CheckRound))'
<1>1. Takes("Kernel", CheckRound)' <=> Takes("Kernel", CheckRound)
  BY SameLaunch
<1> QED
  BY <1>1 DEF CheckSound

LEMMA InvFrom ==
  ASSUME DecodeInv, UNCHANGED device, scale' = ScaleOf(check'.stage),
         op' = [t \in Threads |-> op'[t]], out' = [t \in Threads |-> out'[t]],
         \A t \in Threads : \A o \in op'[t] : OpSound(o, scale'),
         check'.stage # "Over" => \A t \in Threads \ {Checker} : op'[t] = {},
         CheckSound(check', op'[Checker], launches', Takes("Kernel", CheckRound)),
         DecodeExact', CheckHonest'
  PROVE  DecodeInv'
<1>1. device' \in Devices
  BY DEF DecodeInv
<1>2. OpsSound'
  BY OpsKept
<1>3. CheckSound(check, op[Checker], launches, Takes("Kernel", CheckRound))'
  BY CheckKept
<1> QED
  BY <1>1, <1>2, <1>3 DEF DecodeInv

LEMMA InvIs ==
  ASSUME DecodeInv
  PROVE  /\ device \in Devices /\ scale = ScaleOf(check.stage)
         /\ op = [t \in Threads |-> op[t]] /\ out = [t \in Threads |-> out[t]]
         /\ \A t \in Threads : \A o \in op[t] : OpSound(o, scale)
         /\ check.stage # "Over" => \A t \in Threads \ {Checker} : op[t] = {}
         /\ CheckSound(check, op[Checker], launches, Takes("Kernel", CheckRound))
         /\ DecodeExact /\ CheckHonest /\ Checker \in Threads
BY DEF DecodeInv, OpsSound, Threads

(* A step of an operation.                                                 *)
LEMMA OneOp ==
  ASSUME DecodeInv, NEW t \in Threads, NEW o \in op[t], NEW new, OpSound(new, scale),
         new.round = o.round, op' = [op EXCEPT ![t] = {new}],
         UNCHANGED <<device, setting, forced, launches, scale, out, check>>
  PROVE  DecodeInv'
<1>0. /\ scale = ScaleOf(check.stage)
      /\ op = [x \in Threads |-> op[x]] /\ out = [x \in Threads |-> out[x]]
      /\ \A x \in Threads : \A w \in op[x] : OpSound(w, scale)
      /\ check.stage # "Over" => \A x \in Threads \ {Checker} : op[x] = {}
      /\ CheckSound(check, op[Checker], launches, Takes("Kernel", CheckRound))
      /\ DecodeExact /\ CheckHonest /\ Checker \in Threads
  BY ONLY DecodeInv, InvIs
<1>1. device' = device /\ scale' = scale /\ out' = out /\ check' = check /\ launches' = launches
  OBVIOUS
<1>2. /\ op' = [x \in Threads |-> op'[x]]
      /\ \A x \in Threads : op'[x] = IF x = t THEN {new} ELSE op[x]
  BY ONLY <1>0, op' = [op EXCEPT ![t] = {new}], t \in Threads
<1>3. \A x \in Threads : \A w \in op'[x] : OpSound(w, scale')
  BY ONLY <1>0, <1>1, <1>2, OpSound(new, scale)
<1>4. check'.stage # "Over" => \A x \in Threads \ {Checker} : op'[x] = {}
  BY ONLY <1>0, <1>1, <1>2, t \in Threads, o \in op[t]
<1>5. CheckSound(check', op'[Checker], launches', Takes("Kernel", CheckRound))
  <2>1. CASE t # Checker
    <3>1. op'[Checker] = op[Checker]
      BY ONLY <1>0, <1>2, <2>1
    <3> QED BY ONLY <1>0, <1>1, <3>1
  <2>2. CASE t = Checker
    <3>1. op'[Checker] = {new} /\ op[Checker] # {}
      BY ONLY <1>0, <1>2, <2>2, o \in op[t]
    <3>2. Ours(op[Checker]) => Ours({new})
      BY ONLY <2>2, o \in op[t], new.round = o.round DEF Ours
    <3>3. CheckSound(check, {new}, launches, Takes("Kernel", CheckRound))
      BY ONLY <1>0, <3>1, <3>2 DEF CheckSound
    <3> QED BY ONLY <1>1, <3>1, <3>3
  <2> QED BY <2>1, <2>2
<1>6. DecodeExact' /\ CheckHonest'
  BY <1>0, <1>1, ExactKept, HonestKept
<1>7. scale' = ScaleOf(check'.stage) /\ out' = [x \in Threads |-> out'[x]]
  BY ONLY <1>0, <1>1
<1> QED
  BY ONLY <1>1, <1>2, <1>3, <1>4, <1>5, <1>6, <1>7, DecodeInv, InvFrom

LEMMA LaunchKeeps ==
  ASSUME DecodeInv, NEW t \in Threads, Launch(t) PROVE DecodeInv'
<1>1. PICK o \in op[t] :
        /\ o.at = "Registered"
        /\ Working(t, IF LaunchSound(o.round) THEN Launched(o, scale)
                      ELSE [o EXCEPT !.at = "Panicked"])
  BY DEF Launch, Launched
<1>2. OpSound(o, scale) /\ device \in Devices
  BY InvIs
<1>3. LaunchSound(o.round)
  BY ONLY <1>2 DEF OpSound
<1> PICK new : new = Launched(o, scale)
  OBVIOUS
<1>4. OpSound(new, scale) /\ new.round = o.round
  BY ONLY <1>1, <1>2, LaunchOp, new = Launched(o, scale)
<1>5. op' = [op EXCEPT ![t] = {new}]
  BY ONLY <1>1, <1>3, new = Launched(o, scale) DEF Working
<1>6. UNCHANGED <<device, setting, forced, launches, scale, out, check>>
  BY DEF Launch
<1> QED
  BY ONLY <1>4, <1>5, <1>6, OneOp, DecodeInv, t \in Threads, o \in op[t]

LEMMA WalkBlockKeeps ==
  ASSUME DecodeInv, NEW t \in Threads, WalkBlock(t) PROVE DecodeInv'
<1>1. PICK o, c, p :
        /\ o \in op[t] /\ c \in DOMAIN o.planes /\ p \in DOMAIN o.planes[c]
        /\ o.at = "Running" /\ o.planes[c][p].b < NBlocks(o.round, c)
        /\ Working(t, WalkTo(o, c, p))
  BY DEF WalkBlock, WalkTo
<1> PICK new : new = WalkTo(o, c, p)
  OBVIOUS
<1>2. OpSound(o, scale) /\ device \in Devices
  BY <1>1, InvIs
<1>6. /\ o.at = "Running" /\ o.planes[c][p].b < NBlocks(o.round, c)
      /\ c \in DOMAIN o.planes /\ p \in DOMAIN o.planes[c]
  BY ONLY <1>1
<1>3. OpSound(new, scale) /\ new.round = o.round
  BY ONLY <1>2, <1>6, WalkOp,
          new = WalkTo(o, c, p)
<1>4. op' = [op EXCEPT ![t] = {new}]
  BY ONLY <1>1, new = WalkTo(o, c, p) DEF Working
<1>5. UNCHANGED <<device, setting, forced, launches, scale, out, check>>
  BY DEF WalkBlock
<1> QED
  BY ONLY <1>1, <1>3, <1>4, <1>5, OneOp, DecodeInv, t \in Threads

LEMMA PublishKeeps ==
  ASSUME DecodeInv, NEW t \in Threads, Publish(t) PROVE DecodeInv'
<1>1. PICK o, c, p :
        /\ o \in op[t] /\ c \in DOMAIN o.planes /\ p \in DOMAIN o.planes[c]
        /\ o.at = "Running" /\ o.planes[c][p].b >= NBlocks(o.round, c)
        /\ Working(t, [o EXCEPT !.planes[c][p].published = TRUE])
  BY DEF Publish, Walked
<1> PICK new : new = [o EXCEPT !.planes[c][p].published = TRUE]
  OBVIOUS
<1>2. OpSound(o, scale) /\ device \in Devices
  BY <1>1, InvIs
<1>3. OpSound(new, scale) /\ new.round = o.round
  BY ONLY <1>1, <1>2, PublishOp,
          new = [o EXCEPT !.planes[c][p].published = TRUE]
<1>4. op' = [op EXCEPT ![t] = {new}]
  BY ONLY <1>1, new = [o EXCEPT !.planes[c][p].published = TRUE] DEF Working
<1>5. UNCHANGED <<device, setting, forced, launches, scale, out, check>>
  BY DEF Publish
<1> QED
  BY ONLY <1>1, <1>3, <1>4, <1>5, OneOp, DecodeInv, t \in Threads

LEMMA EpilogueKeeps ==
  ASSUME DecodeInv, NEW t \in Threads, Epilogue(t) PROVE DecodeInv'
<1>1. PICK o, c :
        /\ o \in op[t] /\ c \in DOMAIN o.planes
        /\ o.at = "Running"
        /\ SyncCube(o, c) \/ (DOMAIN o.planes[c] = {0} /\ Walked(o, c, 0))
        /\ Working(t,
             Stored(o, c, Merged([p \in DOMAIN o.planes[c] |-> o.planes[c][p].part])))
  BY DEF Epilogue, GroupRows, Stored
<1> PICK all : all = Merged([p \in DOMAIN o.planes[c] |-> o.planes[c][p].part])
  OBVIOUS
<1> PICK new : new = Stored(o, c, all)
  OBVIOUS
<1>2. OpSound(o, scale) /\ device \in Devices
  BY <1>1, InvIs
<1>6. /\ o.at = "Running" /\ c \in DOMAIN o.planes
      /\ SyncCube(o, c) \/ (DOMAIN o.planes[c] = {0} /\ Walked(o, c, 0))
  BY ONLY <1>1
<1>3. OpSound(new, scale) /\ new.round = o.round
  BY ONLY <1>2, <1>6, EpilogueOp,
          all = Merged([p \in DOMAIN o.planes[c] |-> o.planes[c][p].part]),
          new = Stored(o, c, all)
<1>4. op' = [op EXCEPT ![t] = {new}]
  BY ONLY <1>1, all = Merged([p \in DOMAIN o.planes[c] |-> o.planes[c][p].part]),
          new = Stored(o, c, all) DEF Working
<1>5. UNCHANGED <<device, setting, forced, launches, scale, out, check>>
  BY DEF Epilogue
<1> QED
  BY ONLY <1>1, <1>3, <1>4, <1>5, OneOp, DecodeInv, t \in Threads

-------------------------------------------------------------------------------
(* The steps that register a round, and those that read an output.         *)

LEMMA RegisteredSound ==
  ASSUME NEW mode, NEW r \in Rounds, Takes(mode, r), NEW s
  PROVE  OpSound(Registered(r), s) /\ Registered(r).round = r
<1>1. LaunchSound(r)
  BY TakesSound
<1>2. Registered(r).round = r /\ Registered(r).at = "Registered"
  BY DEF Registered
<1> QED
  BY ONLY <1>1, <1>2, r \in Rounds DEF OpSound

LEMMA CheckOver ==
  ASSUME NEW ch, NEW ops, NEW count, NEW takes, CheckSound(ch, ops, count, takes),
         ch.stage = "Over", NEW others, NEW more
  PROVE  CheckSound(ch, others, more, takes)
BY DEF CheckSound

LEMMA PagedAttentionKeeps ==
  ASSUME DecodeInv, NEW t \in Threads, NEW r \in DecodeRounds, PagedAttention(t, r)
  PROVE  DecodeInv'
<1>0. /\ scale = ScaleOf(check.stage)
      /\ op = [x \in Threads |-> op[x]] /\ out = [x \in Threads |-> out[x]]
      /\ \A x \in Threads : \A w \in op[x] : OpSound(w, scale)
      /\ CheckSound(check, op[Checker], launches, Takes("Kernel", CheckRound))
      /\ DecodeExact /\ CheckHonest /\ Checker \in Threads
  BY ONLY DecodeInv, InvIs
<1>1. device' = device /\ scale' = scale /\ check' = check /\ check.stage = "Over"
  BY DEF PagedAttention, Serves
<1>2. CheckSound(check', op'[Checker], launches', Takes("Kernel", CheckRound))
  BY ONLY <1>0, <1>1, CheckOver
<1>3. CheckHonest' /\ scale' = ScaleOf(check'.stage) /\ ~(check'.stage # "Over")
  BY <1>0, <1>1, HonestKept
<1>4. CASE Takes(Mode(t), r)
  <2>1. op' = [op EXCEPT ![t] = {Registered(r)}] /\ out' = [out EXCEPT ![t] = {}]
    BY <1>4 DEF PagedAttention, Register, None
  <2>2. OpSound(Registered(r), scale)
    <3>1. r \in Rounds
      BY DEF Rounds
    <3> QED BY ONLY <1>4, <3>1, RegisteredSound
  <2>3. /\ op' = [x \in Threads |-> op'[x]]
        /\ \A x \in Threads : op'[x] = IF x = t THEN {Registered(r)} ELSE op[x]
    BY ONLY <1>0, <2>1, t \in Threads
  <2>4. /\ out' = [x \in Threads |-> out'[x]]
        /\ \A x \in Threads : out'[x] = IF x = t THEN {} ELSE out[x]
    BY ONLY <1>0, <2>1, t \in Threads
  <2>5. \A x \in Threads : \A w \in op'[x] : OpSound(w, scale')
    BY ONLY <1>0, <1>1, <2>2, <2>3
  <2>6. DecodeExact'
    BY <1>0, <2>4 DEF DecodeExact
  <2> QED BY ONLY <1>1, <1>2, <1>3, <2>3, <2>4, <2>5, <2>6, DecodeInv, InvFrom
<1>5. CASE ~Takes(Mode(t), r)
  <2> PICK all : all = PagedAttentionReference(r)
    OBVIOUS
  <2>1. op' = op /\ out' = [out EXCEPT ![t] = {[round |-> r, path |-> "Reference", rows |-> all]}]
    BY <1>5 DEF PagedAttention
  <2>2. /\ out' = [x \in Threads |-> out'[x]]
        /\ \A x \in Threads : out'[x] =
             IF x = t THEN {[round |-> r, path |-> "Reference", rows |-> all]} ELSE out[x]
    BY ONLY <1>0, <2>1, t \in Threads
  <2>3. DOMAIN all = Outputs(r) /\ Agree(all, PagedAttentionReference(r))
    BY DEF PagedAttentionReference, Agree, SameRow
  <2>4. ASSUME NEW x \in Threads, NEW o \in out'[x]
        PROVE  DOMAIN o.rows = Outputs(o.round) /\ Agree(o.rows, PagedAttentionReference(o.round))
    <3>1. CASE x = t
      <4>1. o.rows = all /\ o.round = r
        BY ONLY <2>2, <3>1, x \in Threads, o \in out'[x]
      <4> QED BY ONLY <2>3, <4>1
    <3>2. CASE x # t
      <4>1. o \in out[x]
        BY ONLY <2>2, <3>2, x \in Threads, o \in out'[x]
      <4> QED BY ONLY <1>0, <4>1, x \in Threads DEF DecodeExact
    <3> QED BY <3>1, <3>2
  <2>5. DecodeExact'
    BY <2>4 DEF DecodeExact
  <2>6. op' = [x \in Threads |-> op'[x]] /\ \A x \in Threads : \A w \in op'[x] : OpSound(w, scale')
    BY ONLY <1>0, <1>1, <2>1
  <2> QED BY ONLY <1>1, <1>2, <1>3, <2>2, <2>5, <2>6, DecodeInv, InvFrom
<1> QED
  BY <1>4, <1>5

LEMMA ReadOutputKeeps ==
  ASSUME DecodeInv, NEW t \in Threads, ReadOutput(t) PROVE DecodeInv'
<1>0. /\ scale = ScaleOf(check.stage) /\ device \in Devices
      /\ op = [x \in Threads |-> op[x]] /\ out = [x \in Threads |-> out[x]]
      /\ \A x \in Threads : \A w \in op[x] : OpSound(w, scale)
      /\ CheckSound(check, op[Checker], launches, Takes("Kernel", CheckRound))
      /\ DecodeExact /\ CheckHonest /\ Checker \in Threads
  BY ONLY DecodeInv, InvIs
<1>1. device' = device /\ scale' = scale /\ check' = check /\ check.stage = "Over"
  BY DEF ReadOutput
<1>2. CheckSound(check', op'[Checker], launches', Takes("Kernel", CheckRound))
  BY ONLY <1>0, <1>1, CheckOver
<1>3. CheckHonest' /\ scale' = ScaleOf(check'.stage) /\ ~(check'.stage # "Over")
  BY <1>0, <1>1, HonestKept
<1>4. PICK w \in op[t] :
        /\ Finished(w)
        /\ out' = [out EXCEPT ![t] = {[round |-> w.round, path |-> "Kernel", rows |-> KernelRows(w)]}]
  BY DEF ReadOutput
<1>5. op' = [op EXCEPT ![t] = {}]
  BY DEF ReadOutput, None
<1>6. /\ op' = [x \in Threads |-> op'[x]]
      /\ \A x \in Threads : op'[x] = IF x = t THEN {} ELSE op[x]
  BY ONLY <1>0, <1>5, t \in Threads
<1>7. \A x \in Threads : \A y \in op'[x] : OpSound(y, scale')
  BY ONLY <1>0, <1>1, <1>6
<1> PICK all : all = KernelRows(w)
  OBVIOUS
<1> PICK r : r = w.round
  OBVIOUS
<1>8. DOMAIN all = Outputs(r) /\ Agree(all, PagedAttentionReference(r))
  <2>1. OpSound(w, scale)
    BY ONLY <1>0, t \in Threads, w \in op[t]
  <2>2. scale = 1
    BY ONLY <1>0, <1>1 DEF ScaleOf
  <2>3. r \in Rounds /\ r.heads = r.kvHeads * r.nRep
    BY ONLY <1>0, <2>1, RunsOn, r = w.round
  <2>4. RightRows(all, r, 1)
    BY ONLY <1>0, <1>4, <2>1, <2>2, FinishedRight, r = w.round, all = KernelRows(w)
  <2>5. RightRows(PagedAttentionReference(r), r, 1)
    BY ONLY <2>3, ReferenceRight
  <2>6. Agree(all, PagedAttentionReference(r))
    BY ONLY <2>3, <2>4, <2>5, RightAgree
  <2> QED BY ONLY <2>4, <2>6 DEF RightRows
<1>9. /\ out' = [x \in Threads |-> out'[x]]
      /\ \A x \in Threads : out'[x] =
           IF x = t THEN {[round |-> r, path |-> "Kernel", rows |-> all]} ELSE out[x]
  BY ONLY <1>0, <1>4, t \in Threads, r = w.round, all = KernelRows(w)
<1>10. ASSUME NEW x \in Threads, NEW o \in out'[x]
       PROVE  DOMAIN o.rows = Outputs(o.round) /\ Agree(o.rows, PagedAttentionReference(o.round))
  <2>1. CASE x = t
    <3>1. o.rows = all /\ o.round = r
      BY ONLY <1>9, <2>1, x \in Threads, o \in out'[x]
    <3> QED BY ONLY <1>8, <3>1
  <2>2. CASE x # t
    <3>1. o \in out[x]
      BY ONLY <1>9, <2>2, x \in Threads, o \in out'[x]
    <3> QED BY ONLY <1>0, <3>1, x \in Threads DEF DecodeExact
  <2> QED BY <2>1, <2>2
<1>11. DecodeExact'
  BY <1>10 DEF DecodeExact
<1> QED
  BY ONLY <1>1, <1>2, <1>3, <1>6, <1>7, <1>9, <1>11, DecodeInv, InvFrom

-------------------------------------------------------------------------------
(* The steps of the self-check.                                            *)

LEMMA CheckerOps ==
  ASSUME DecodeInv, check.stage # "Over", NEW ops, NEW s, \A w \in ops : OpSound(w, s),
         op' = [op EXCEPT ![Checker] = ops]
  PROVE  /\ op' = [x \in Threads |-> op'[x]] /\ op'[Checker] = ops
         /\ \A x \in Threads : \A w \in op'[x] : OpSound(w, s)
         /\ \A x \in Threads \ {Checker} : op'[x] = {}
<1>1. /\ op = [x \in Threads |-> op[x]] /\ Checker \in Threads
      /\ \A x \in Threads \ {Checker} : op[x] = {}
  BY InvIs
<1>2. /\ op' = [x \in Threads |-> op'[x]]
      /\ \A x \in Threads : op'[x] = IF x = Checker THEN ops ELSE op[x]
  BY ONLY <1>1, op' = [op EXCEPT ![Checker] = ops]
<1> QED
  BY ONLY <1>1, <1>2, \A w \in ops : OpSound(w, s)

LEMMA OwnRound == CheckRound \in Rounds
BY DEF Rounds

LEMMA SeenRight ==
  ASSUME DecodeInv, Ours(op[Checker]), Seen # {}
  PROVE  Shown(Seen, scale)
<1>1. device \in Devices /\ \A o \in op[Checker] : OpSound(o, scale)
  BY InvIs
<1>2. ASSUME NEW o \in op[Checker], Finished(o) PROVE RightRows(KernelRows(o), CheckRound, scale)
  <2>1. o.round = CheckRound
    BY ONLY Ours(op[Checker]), o \in op[Checker] DEF Ours
  <2>2. RightRows(KernelRows(o), o.round, scale)
    BY ONLY <1>1, <1>2, FinishedRight, o \in op[Checker]
  <2> QED BY ONLY <2>1, <2>2
<1> QED
  BY ONLY <1>2, Seen # {} DEF Shown, Seen

LEMMA DifferenceIs ==
  ASSUME Takes("Kernel", CheckRound), NEW s, NEW u, NEW xs, Shown(xs, s), NEW ys, Shown(ys, u)
  PROVE  Difference(xs, ys) <=> s # u
<1>1. CheckRound \in Rounds /\ CheckRound.heads = CheckRound.kvHeads * CheckRound.nRep
  BY OwnRound DEF Takes
<1>2. \A x \in xs, y \in ys : Agree(x, y) <=> s = u
  BY ONLY <1>1, RightAgree, Shown(xs, s), Shown(ys, u) DEF Shown
<1>3. xs # {} /\ ys # {}
  BY DEF Shown
<1> QED
  BY ONLY <1>2, <1>3 DEF Difference

LEMMA CheckIs ==
  ASSUME NEW ch, NEW ops, NEW count, NEW takes, CheckSound(ch, ops, count, takes)
  PROVE  ch = [stage |-> ch.stage, kernel |-> ch.kernel, injected |-> ch.injected,
               verdict |-> ch.verdict]
BY DEF CheckSound

LEMMA CheckKernelKeeps ==
  ASSUME DecodeInv, CheckKernel PROVE DecodeInv'
<1>0. /\ scale = ScaleOf(check.stage) /\ out = [x \in Threads |-> out[x]]
      /\ op = [x \in Threads |-> op[x]] /\ Checker \in Threads
      /\ CheckSound(check, op[Checker], launches, Takes("Kernel", CheckRound)) /\ DecodeExact
  BY ONLY DecodeInv, InvIs
<1>1. /\ device' = device /\ scale' = scale /\ out' = out
      /\ check.stage = "Start" /\ check' = [check EXCEPT !.stage = "Kernel"]
  BY DEF CheckKernel, Stage
<1>2. launches = 0 /\ op[Checker] = {} /\ check.verdict = {}
  BY ONLY <1>0, <1>1 DEF CheckSound
<1>3. check' = [stage |-> "Kernel", kernel |-> check.kernel, injected |-> check.injected,
                verdict |-> check.verdict]
  BY ONLY <1>0, <1>1, CheckIs
<1>4. DecodeExact'
  BY <1>0, <1>1, ExactKept
<1>5. CheckHonest'
  BY <1>3 DEF CheckHonest
<1>6. scale' = ScaleOf(check'.stage)
  BY ONLY <1>0, <1>1, <1>3 DEF ScaleOf
<1> PICK ops : ops = IF Takes("Kernel", CheckRound) THEN {Registered(CheckRound)} ELSE {}
  OBVIOUS
<1>7. op' = [op EXCEPT ![Checker] = ops]
  <2>1. CASE Takes("Kernel", CheckRound)
    BY <2>1 DEF CheckKernel, Register
  <2>2. CASE ~Takes("Kernel", CheckRound)
    <3>1. op' = op
      BY <2>2 DEF CheckKernel
    <3> QED BY ONLY <1>0, <1>2, <2>2, <3>1,
                    ops = IF Takes("Kernel", CheckRound) THEN {Registered(CheckRound)} ELSE {}
  <2> QED BY <2>1, <2>2
<1>8. \A w \in ops : OpSound(w, scale')
  BY ONLY RegisteredSound, OwnRound,
          ops = IF Takes("Kernel", CheckRound) THEN {Registered(CheckRound)} ELSE {}
<1>9. /\ op' = [x \in Threads |-> op'[x]] /\ op'[Checker] = ops
      /\ \A x \in Threads : \A w \in op'[x] : OpSound(w, scale')
      /\ \A x \in Threads \ {Checker} : op'[x] = {}
  <2>1. check.stage # "Over"
    BY ONLY <1>1
  <2> QED BY ONLY <1>7, <1>8, <2>1, CheckerOps, DecodeInv
<1>10. CheckSound(check', op'[Checker], launches', Takes("Kernel", CheckRound))
  <2>1. CASE Takes("Kernel", CheckRound)
    <3>1. launches' = 1
      BY <1>2, <2>1 DEF CheckKernel, Register
    <3>2. Ours(ops)
      BY ONLY <2>1, RegisteredSound, OwnRound,
              ops = IF Takes("Kernel", CheckRound) THEN {Registered(CheckRound)} ELSE {} DEF Ours
    <3> QED BY ONLY <1>3, <1>9, <2>1, <3>1, <3>2 DEF CheckSound
  <2>2. CASE ~Takes("Kernel", CheckRound)
    <3>1. launches' = 0
      BY <1>2, <2>2 DEF CheckKernel
    <3>2. ops = {}
      BY ONLY <2>2, ops = IF Takes("Kernel", CheckRound) THEN {Registered(CheckRound)} ELSE {}
    <3> QED BY ONLY <1>3, <1>9, <2>2, <3>1, <3>2 DEF CheckSound
  <2> QED BY <2>1, <2>2
<1>11. out' = [x \in Threads |-> out'[x]]
  BY ONLY <1>0, <1>1
<1> QED
  BY ONLY <1>1, <1>4, <1>5, <1>6, <1>9, <1>10, <1>11, DecodeInv, InvFrom

LEMMA CheckReferenceKeeps ==
  ASSUME DecodeInv, CheckReference PROVE DecodeInv'
<1>0. /\ scale = ScaleOf(check.stage) /\ out = [x \in Threads |-> out[x]]
      /\ CheckSound(check, op[Checker], launches, Takes("Kernel", CheckRound)) /\ DecodeExact
  BY ONLY DecodeInv, InvIs
<1>1. /\ device' = device /\ scale' = scale /\ out' = out /\ launches' = launches
      /\ check.stage = "Kernel" /\ Settled /\ op' = [op EXCEPT ![Checker] = {}]
  BY DEF CheckReference, None
<1>2. scale = 1
  BY ONLY <1>0, <1>1 DEF ScaleOf
<1> PICK seen : seen = Seen
  OBVIOUS
<1> PICK v : v = [NoVerdict EXCEPT !.kernelDelta = launches, !.referenceDelta = 0]
  OBVIOUS
<1> PICK stage : stage = IF seen = {} THEN "Over" ELSE "Inject"
  OBVIOUS
<1>3. check' = [check EXCEPT !.kernel = seen, !.stage = stage, !.verdict = {v}]
  <2>1. ~Takes("Reference", CheckRound)
    BY DEF Takes
  <2> QED BY <2>1 DEF CheckReference
<1>4. check' = [stage |-> stage, kernel |-> seen, injected |-> check.injected, verdict |-> {v}]
  <2>1. check = [stage |-> check.stage, kernel |-> check.kernel, injected |-> check.injected,
                 verdict |-> check.verdict]
    BY ONLY <1>0, CheckIs
  <2> QED BY ONLY <1>3, <2>1
<1>5. v = [kernelDelta |-> launches, referenceDelta |-> 0, ran |-> FALSE, vsOracle |-> TRUE,
           injectedDiffers |-> FALSE, restored |-> TRUE]
  BY ONLY v = [NoVerdict EXCEPT !.kernelDelta = launches, !.referenceDelta = 0] DEF NoVerdict
<1>6. /\ op' = [x \in Threads |-> op'[x]] /\ op'[Checker] = {}
      /\ \A x \in Threads : \A w \in op'[x] : OpSound(w, scale')
      /\ \A x \in Threads \ {Checker} : op'[x] = {}
  <2>1. check.stage # "Over" /\ \A w \in {} : OpSound(w, scale')
    BY ONLY <1>1
  <2> QED BY ONLY <1>1, <2>1, CheckerOps, DecodeInv
<1>7. scale' = ScaleOf(check'.stage)
  BY ONLY <1>1, <1>2, <1>4, stage = IF seen = {} THEN "Over" ELSE "Inject" DEF ScaleOf
<1>8. CheckSound(check', op'[Checker], launches', Takes("Kernel", CheckRound)) /\ CheckHonest'
  <2>1. CASE seen = {}
    <3>1. op[Checker] = {}
      BY ONLY <1>1, <2>1, seen = Seen DEF Settled, None
    <3>2. ~Takes("Kernel", CheckRound) /\ launches = 0
      BY ONLY <1>0, <1>1, <3>1 DEF CheckSound, Ours
    <3>3. check'.stage = "Over" /\ check'.verdict = {v}
          /\ check' = [stage |-> check'.stage, kernel |-> check'.kernel,
                       injected |-> check'.injected, verdict |-> check'.verdict]
      BY ONLY <1>4, <2>1, stage = IF seen = {} THEN "Over" ELSE "Inject"
    <3>4. CheckSound(check', op'[Checker], launches', Takes("Kernel", CheckRound))
      BY ONLY <3>3 DEF CheckSound
    <3>5. ~Takes("Kernel", CheckRound)'
      BY <1>1, <3>2, SameLaunch
    <3>6. v.ran = FALSE /\ v.kernelDelta = 0 /\ v.referenceDelta = 0
      BY ONLY <1>5, <3>2
    <3>7. CheckHonest'
      <4>1. scale' = 1 /\ ~v.ran
        BY ONLY <1>1, <1>2, <3>6
      <4>2. v.ran = Takes("Kernel", CheckRound)'
        <5>1. Takes("Kernel", CheckRound)' = FALSE
          BY <3>5
        <5> QED BY ONLY <3>6, <5>1
      <4> QED BY <3>3, <3>6, <4>1, <4>2 DEF CheckHonest
    <3> QED BY <3>4, <3>7
  <2>2. CASE seen # {}
    <3>1. op[Checker] # {}
      BY ONLY <2>2, seen = Seen DEF Seen
    <3>2. Takes("Kernel", CheckRound) /\ launches = 1 /\ Ours(op[Checker])
      BY ONLY <1>0, <1>1, <3>1 DEF CheckSound
    <3>3. Shown(seen, 1)
      BY ONLY <1>2, <2>2, <3>2, SeenRight, DecodeInv, seen = Seen
    <3>4. v = [NoVerdict EXCEPT !.kernelDelta = 1]
      <4> PICK u : u = [NoVerdict EXCEPT !.kernelDelta = 1]
        OBVIOUS
      <4>1. u =
              [kernelDelta |-> 1, referenceDelta |-> 0, ran |-> FALSE, vsOracle |-> TRUE,
               injectedDiffers |-> FALSE, restored |-> TRUE]
        BY ONLY u = [NoVerdict EXCEPT !.kernelDelta = 1] DEF NoVerdict
      <4>2. launches = 1
        BY ONLY <3>2
      <4> QED BY ONLY <1>5, <4>1, <4>2, u = [NoVerdict EXCEPT !.kernelDelta = 1]
    <3>5. check'.stage = "Inject" /\ check'.verdict = {v} /\ check'.kernel = seen
          /\ check' = [stage |-> check'.stage, kernel |-> check'.kernel,
                       injected |-> check'.injected, verdict |-> check'.verdict]
      BY ONLY <1>4, <2>2, stage = IF seen = {} THEN "Over" ELSE "Inject"
    <3>6. CheckSound(check', op'[Checker], launches', Takes("Kernel", CheckRound))
      BY ONLY <3>2, <3>3, <3>4, <3>5 DEF CheckSound
    <3>7. CheckHonest'
      BY <3>5 DEF CheckHonest
    <3> QED BY <3>6, <3>7
  <2> QED BY <2>1, <2>2
<1>9. DecodeExact' /\ out' = [x \in Threads |-> out'[x]]
  BY <1>0, <1>1, ExactKept
<1> QED
  BY ONLY <1>1, <1>6, <1>7, <1>8, <1>9, DecodeInv, InvFrom

LEMMA CheckInjectedKeeps ==
  ASSUME DecodeInv, CheckInjected PROVE DecodeInv'
<1>0. /\ out = [x \in Threads |-> out[x]]
      /\ CheckSound(check, op[Checker], launches, Takes("Kernel", CheckRound)) /\ DecodeExact
  BY ONLY DecodeInv, InvIs
<1>1. /\ device' = device /\ scale' = 2 /\ out' = out
      /\ check.stage = "Inject" /\ check' = [check EXCEPT !.stage = "Injected"]
      /\ op' = [op EXCEPT ![Checker] = {Registered(CheckRound)}]
  BY DEF CheckInjected, Stage, Register, SetOutputScale
<1>2. /\ Takes("Kernel", CheckRound) /\ Shown(check.kernel, 1)
      /\ check.verdict = {[NoVerdict EXCEPT !.kernelDelta = 1]}
  BY ONLY <1>0, <1>1 DEF CheckSound
<1>3. check' = [stage |-> "Injected", kernel |-> check.kernel, injected |-> check.injected,
                verdict |-> check.verdict]
  BY ONLY <1>0, <1>1, CheckIs
<1>4. OpSound(Registered(CheckRound), scale') /\ Ours({Registered(CheckRound)})
  BY ONLY <1>2, RegisteredSound, OwnRound DEF Ours
<1>5. /\ op' = [x \in Threads |-> op'[x]] /\ op'[Checker] = {Registered(CheckRound)}
      /\ \A x \in Threads : \A w \in op'[x] : OpSound(w, scale')
      /\ \A x \in Threads \ {Checker} : op'[x] = {}
  <2> PICK ops : ops = {Registered(CheckRound)}
    OBVIOUS
  <2>1. check.stage # "Over" /\ \A w \in ops : OpSound(w, scale')
    BY ONLY <1>1, <1>4, ops = {Registered(CheckRound)}
  <2>2. op' = [op EXCEPT ![Checker] = ops]
    BY ONLY <1>1, ops = {Registered(CheckRound)}
  <2>3. /\ op' = [x \in Threads |-> op'[x]] /\ op'[Checker] = ops
        /\ \A x \in Threads : \A w \in op'[x] : OpSound(w, scale')
        /\ \A x \in Threads \ {Checker} : op'[x] = {}
    BY ONLY <2>1, <2>2, CheckerOps, DecodeInv
  <2> QED BY ONLY <2>3, ops = {Registered(CheckRound)}
<1>6. CheckSound(check', op'[Checker], launches', Takes("Kernel", CheckRound))
  BY ONLY <1>2, <1>3, <1>4, <1>5 DEF CheckSound
<1>7. scale' = ScaleOf(check'.stage)
  BY ONLY <1>1, <1>3 DEF ScaleOf
<1>8. CheckHonest'
  BY <1>3 DEF CheckHonest
<1>9. DecodeExact' /\ out' = [x \in Threads |-> out'[x]]
  BY <1>0, <1>1, ExactKept
<1> QED
  BY ONLY <1>1, <1>5, <1>6, <1>7, <1>8, <1>9, DecodeInv, InvFrom

LEMMA CheckRestoredKeeps ==
  ASSUME DecodeInv, CheckRestored PROVE DecodeInv'
<1>0. /\ out = [x \in Threads |-> out[x]] /\ scale = ScaleOf(check.stage)
      /\ CheckSound(check, op[Checker], launches, Takes("Kernel", CheckRound)) /\ DecodeExact
  BY ONLY DecodeInv, InvIs
<1> PICK seen : seen = Seen
  OBVIOUS
<1>1. /\ device' = device /\ scale' = 1 /\ out' = out /\ seen # {}
      /\ check.stage = "Injected"
      /\ check' = [check EXCEPT !.stage = "Restored", !.injected = seen]
      /\ op' = [op EXCEPT ![Checker] = {Registered(CheckRound)}]
  BY DEF CheckRestored, Register, SetOutputScale
<1>2. /\ Takes("Kernel", CheckRound) /\ Shown(check.kernel, 1) /\ Ours(op[Checker])
      /\ check.verdict = {[NoVerdict EXCEPT !.kernelDelta = 1]}
  BY ONLY <1>0, <1>1 DEF CheckSound
<1>3. check' = [stage |-> "Restored", kernel |-> check.kernel, injected |-> seen,
                verdict |-> check.verdict]
  <2>1. check = [stage |-> check.stage, kernel |-> check.kernel, injected |-> check.injected,
                 verdict |-> check.verdict]
    BY ONLY <1>0, CheckIs
  <2>2. check' = [check EXCEPT !.stage = "Restored", !.injected = seen]
    BY ONLY <1>1
  <2> QED BY ONLY <2>1, <2>2
<1>4. Shown(seen, 2)
  <2>1. scale = 2
    BY ONLY <1>0, <1>1 DEF ScaleOf
  <2> QED BY ONLY <1>1, <1>2, <2>1, SeenRight, DecodeInv, seen = Seen
<1>5. OpSound(Registered(CheckRound), scale') /\ Ours({Registered(CheckRound)})
  BY ONLY <1>2, RegisteredSound, OwnRound DEF Ours
<1>6. /\ op' = [x \in Threads |-> op'[x]] /\ op'[Checker] = {Registered(CheckRound)}
      /\ \A x \in Threads : \A w \in op'[x] : OpSound(w, scale')
      /\ \A x \in Threads \ {Checker} : op'[x] = {}
  <2> PICK ops : ops = {Registered(CheckRound)}
    OBVIOUS
  <2>1. check.stage # "Over" /\ \A w \in ops : OpSound(w, scale')
    BY ONLY <1>1, <1>5, ops = {Registered(CheckRound)}
  <2>2. op' = [op EXCEPT ![Checker] = ops]
    BY ONLY <1>1, ops = {Registered(CheckRound)}
  <2>3. /\ op' = [x \in Threads |-> op'[x]] /\ op'[Checker] = ops
        /\ \A x \in Threads : \A w \in op'[x] : OpSound(w, scale')
        /\ \A x \in Threads \ {Checker} : op'[x] = {}
    BY ONLY <2>1, <2>2, CheckerOps, DecodeInv
  <2> QED BY ONLY <2>3, ops = {Registered(CheckRound)}
<1>7. CheckSound(check', op'[Checker], launches', Takes("Kernel", CheckRound))
  BY ONLY <1>2, <1>3, <1>4, <1>5, <1>6 DEF CheckSound
<1>8. scale' = ScaleOf(check'.stage)
  BY ONLY <1>1, <1>3 DEF ScaleOf
<1>9. CheckHonest'
  BY <1>3 DEF CheckHonest
<1>10. DecodeExact' /\ out' = [x \in Threads |-> out'[x]]
  BY <1>0, <1>1, ExactKept
<1> QED
  BY ONLY <1>1, <1>6, <1>7, <1>8, <1>9, <1>10, DecodeInv, InvFrom

LEMMA CheckVerdictKeeps ==
  ASSUME DecodeInv, CheckVerdict PROVE DecodeInv'
<1>0. /\ out = [x \in Threads |-> out[x]] /\ scale = ScaleOf(check.stage)
      /\ CheckSound(check, op[Checker], launches, Takes("Kernel", CheckRound)) /\ DecodeExact
  BY ONLY DecodeInv, InvIs
<1>1. /\ device' = device /\ scale' = scale /\ out' = out /\ launches' = launches
      /\ check.stage = "Restored" /\ Seen # {} /\ op' = [op EXCEPT ![Checker] = {}]
  BY DEF CheckVerdict, None
<1>2. /\ Takes("Kernel", CheckRound) /\ Shown(check.kernel, 1) /\ Shown(check.injected, 2)
      /\ check.verdict = {[NoVerdict EXCEPT !.kernelDelta = 1]} /\ Ours(op[Checker])
  BY ONLY <1>0, <1>1 DEF CheckSound
<1>3. scale = 1
  BY ONLY <1>0, <1>1 DEF ScaleOf
<1>4. Shown(Seen, 1)
  BY ONLY <1>1, <1>2, <1>3, SeenRight, DecodeInv
<1>5. Shown({DecodeReferenceOnline(CheckRound)}, 1)
  <2>1. CheckRound.heads = CheckRound.kvHeads * CheckRound.nRep
    BY <1>2 DEF Takes
  <2>2. RightRows(DecodeReferenceOnline(CheckRound), CheckRound, 1)
    BY ONLY <2>1, OnlineRight, OwnRound
  <2> QED BY ONLY <2>2 DEF Shown
<1>6. /\ ~Difference(check.kernel, {DecodeReferenceOnline(CheckRound)})
      /\ Difference(check.kernel, check.injected) /\ ~Difference(check.kernel, Seen)
  BY ONLY <1>2, <1>4, <1>5, DifferenceIs
<1> PICK v : v = [NoVerdict EXCEPT !.kernelDelta = 1]
  OBVIOUS
<1>7. v = [kernelDelta |-> 1, referenceDelta |-> 0, ran |-> FALSE, vsOracle |-> TRUE,
           injectedDiffers |-> FALSE, restored |-> TRUE]
  BY ONLY v = [NoVerdict EXCEPT !.kernelDelta = 1] DEF NoVerdict
<1> PICK u : u = [v EXCEPT !.ran = TRUE,
             !.vsOracle = ~Difference(check.kernel, {DecodeReferenceOnline(CheckRound)}),
             !.injectedDiffers = Difference(check.kernel, check.injected),
             !.restored = ~Difference(check.kernel, Seen)]
  OBVIOUS
<1>8. u.ran = TRUE /\ u.vsOracle /\ u.injectedDiffers /\ u.restored
      /\ u.kernelDelta = 1 /\ u.referenceDelta = 0
  BY ONLY <1>6, <1>7, u = [v EXCEPT !.ran = TRUE,
             !.vsOracle = ~Difference(check.kernel, {DecodeReferenceOnline(CheckRound)}),
             !.injectedDiffers = Difference(check.kernel, check.injected),
             !.restored = ~Difference(check.kernel, Seen)]
<1>9. check' = [check EXCEPT !.stage = "Over", !.verdict = {u}, !.kernel = {}, !.injected = {}]
  <2>1. PICK x \in check.verdict :
          check' = [check EXCEPT !.stage = "Over",
         !.verdict = {[x EXCEPT !.ran = TRUE,
             !.vsOracle = ~Difference(check.kernel, {DecodeReferenceOnline(CheckRound)}),
             !.injectedDiffers = Difference(check.kernel, check.injected),
             !.restored = ~Difference(check.kernel, Seen)]},
         !.kernel = {}, !.injected = {}]
    BY DEF CheckVerdict
  <2>2. x = v
    BY ONLY <1>2, x \in check.verdict, v = [NoVerdict EXCEPT !.kernelDelta = 1]
  <2> QED BY ONLY <2>1, <2>2, u = [v EXCEPT !.ran = TRUE,
             !.vsOracle = ~Difference(check.kernel, {DecodeReferenceOnline(CheckRound)}),
             !.injectedDiffers = Difference(check.kernel, check.injected),
             !.restored = ~Difference(check.kernel, Seen)]
<1>10. /\ check' = [stage |-> "Over", kernel |-> {}, injected |-> {}, verdict |-> {u}]
       /\ check'.stage = "Over" /\ check'.verdict = {u}
  <2>1. check = [stage |-> check.stage, kernel |-> check.kernel, injected |-> check.injected,
                 verdict |-> check.verdict]
    BY ONLY <1>0, CheckIs
  <2>2. check' = [stage |-> "Over", kernel |-> {}, injected |-> {}, verdict |-> {u}]
    BY ONLY <1>9, <2>1
  <2> QED BY ONLY <2>2
<1>11. CheckHonest'
  <2>1. scale' = 1
    BY ONLY <1>1, <1>3
  <2>2. u.ran = Takes("Kernel", CheckRound)'
    <3>1. Takes("Kernel", CheckRound)' = TRUE
      BY <1>1, <1>2, SameLaunch
    <3> QED BY ONLY <1>8, <3>1
  <2> QED BY <1>8, <1>10, <2>1, <2>2 DEF CheckHonest
<1>12. /\ op' = [x \in Threads |-> op'[x]] /\ op'[Checker] = {}
       /\ \A x \in Threads : \A w \in op'[x] : OpSound(w, scale')
       /\ \A x \in Threads \ {Checker} : op'[x] = {}
  <2>1. check.stage # "Over" /\ \A w \in {} : OpSound(w, scale')
    BY ONLY <1>1
  <2> QED BY ONLY <1>1, <2>1, CheckerOps, DecodeInv
<1>13. CheckSound(check', op'[Checker], launches', Takes("Kernel", CheckRound))
  BY ONLY <1>10 DEF CheckSound
<1>14. scale' = ScaleOf(check'.stage)
  BY ONLY <1>1, <1>3, <1>10 DEF ScaleOf
<1>15. DecodeExact' /\ out' = [x \in Threads |-> out'[x]]
  BY <1>0, <1>1, ExactKept
<1> QED
  BY ONLY <1>1, <1>11, <1>12, <1>13, <1>14, <1>15, DecodeInv, InvFrom

-------------------------------------------------------------------------------
LEMMA DecodeStarts == DecodeInit => DecodeInv
<1> SUFFICES ASSUME DecodeInit PROVE DecodeInv
  OBVIOUS
<1>1. /\ device \in Devices /\ launches = 0 /\ scale = 1
      /\ op = [t \in Threads |-> {}] /\ out = [t \in Threads |-> {}]
  BY DEF DecodeInit, None
<1>2. PICK stage \in {"Start", "Over"} :
        check = [stage |-> stage, kernel |-> {}, injected |-> {}, verdict |-> {}]
  BY DEF DecodeInit
<1>3. check.stage = stage /\ check.verdict = {}
      /\ check = [stage |-> check.stage, kernel |-> check.kernel, injected |-> check.injected,
                  verdict |-> check.verdict]
  BY ONLY <1>2
<1>4. op[Checker] = {} /\ \A t \in Threads : op[t] = {} /\ out[t] = {}
  BY <1>1 DEF Threads
<1>5. CheckSound(check, op[Checker], launches, Takes("Kernel", CheckRound))
  BY ONLY <1>1, <1>3, <1>4 DEF CheckSound
<1>6. OpsSound /\ DecodeExact
  BY ONLY <1>4 DEF OpsSound, DecodeExact
<1>7. CheckHonest
  BY ONLY <1>1, <1>3 DEF CheckHonest
<1>8. scale = ScaleOf(check.stage)
  BY ONLY <1>1, <1>3 DEF ScaleOf
<1>9. op = [t \in Threads |-> op[t]] /\ out = [t \in Threads |-> out[t]]
  BY ONLY <1>1
<1> QED
  BY ONLY <1>1, <1>4, <1>5, <1>6, <1>7, <1>8, <1>9 DEF DecodeInv

LEMMA DecodeKeeps == DecodeInv /\ [DecodeNext]_decodeVars => DecodeInv'
<1> SUFFICES ASSUME DecodeInv, [DecodeNext]_decodeVars PROVE DecodeInv'
  OBVIOUS
<1>1. CASE CheckKernel
  BY <1>1, CheckKernelKeeps
<1>2. CASE CheckReference
  BY <1>2, CheckReferenceKeeps
<1>3. CASE CheckInjected
  BY <1>3, CheckInjectedKeeps
<1>4. CASE CheckRestored
  BY <1>4, CheckRestoredKeeps
<1>5. CASE CheckVerdict
  BY <1>5, CheckVerdictKeeps
<1>6. ASSUME NEW t \in Threads,
             \/ Launch(t) \/ WalkBlock(t) \/ Publish(t) \/ Epilogue(t) \/ ReadOutput(t)
             \/ \E r \in DecodeRounds : PagedAttention(t, r)
      PROVE  DecodeInv'
  BY <1>6, LaunchKeeps, WalkBlockKeeps, PublishKeeps, EpilogueKeeps, ReadOutputKeeps,
     PagedAttentionKeeps
<1>7. CASE UNCHANGED decodeVars
  <2>1. UNCHANGED <<device, scale, op, out, check, launches>>
    BY <1>7 DEF decodeVars
  <2>2. /\ scale' = ScaleOf(check'.stage)
        /\ op' = [t \in Threads |-> op'[t]] /\ out' = [t \in Threads |-> out'[t]]
        /\ \A t \in Threads : \A o \in op'[t] : OpSound(o, scale')
        /\ check'.stage # "Over" => \A t \in Threads \ {Checker} : op'[t] = {}
        /\ CheckSound(check', op'[Checker], launches', Takes("Kernel", CheckRound))
    BY <2>1, InvIs
  <2>3. DecodeExact' /\ CheckHonest'
    BY <2>1, InvIs, ExactKept, HonestKept
  <2> QED BY <2>1, <2>2, <2>3, InvFrom
<1> QED
  BY <1>1, <1>2, <1>3, <1>4, <1>5, <1>6, <1>7 DEF DecodeNext

(* Whichever implementation ran, for every device, and whatever rounds are *)
(* decoded: every query head attends each position of its lane's history   *)
(* once.                                                                   *)
THEOREM DecodeAlwaysExact == DecodeSpec => []DecodeExact
<1>1. DecodeInv => DecodeExact
  BY DEF DecodeInv
<1> QED
  BY DecodeStarts, DecodeKeeps, <1>1, PTL DEF DecodeSpec

(* The self-check's verdict means what it is read for.                     *)
THEOREM CheckAlwaysHonest == DecodeSpec => []CheckHonest
<1>1. DecodeInv => CheckHonest
  BY DEF DecodeInv
<1> QED
  BY DecodeStarts, DecodeKeeps, <1>1, PTL DEF DecodeSpec
===============================================================================
