-------------------------- MODULE MeasuredRowsProofs --------------------------
(***************************************************************************)
(* Proofs about the sequential benchmarks, for all options, corpus sizes,  *)
(* schema ids and latencies.                                               *)
(*                                                                         *)
(* The paths of a program differ in the columns of their rows, and loops   *)
(* over the paths and the repetitions write a row for each pair, so every  *)
(* row is found by its columns (Identified) and has its place in the file  *)
(* (InOrder).  What a row says of its loop follows from an invariant of    *)
(* the loop: the checksum and the allocations are those of the encodes so  *)
(* far, the percentiles split the samples, and the bytes are those of      *)
(* whole corpora and the beginning of one more (Measured).  An encode of a *)
(* framing path overwrites whatever its buffer holds, and the id is read   *)
(* back from the four bytes (FramesRead).                                  *)
(***************************************************************************)
EXTENDS MeasuredRows, FiniteSetTheorems, NaturalsInduction, WellFoundedInduction, TLAPS

-------------------------------------------------------------------------------
(* The paths of a program are told apart by their columns *)

\* What the quotient and the remainder of an index are.
LEMMA Division ==
    ASSUME NEW i \in Nat, NEW n \in Nat \ {0}
    PROVE  i = n * (i \div n) + (i % n) /\ i \div n \in Nat /\ i % n \in 0 .. n - 1
  OBVIOUS

\* The outer of two nested loops does not run over.
LEMMA OuterLoop ==
    ASSUME NEW m \in Nat, NEW n \in Nat \ {0}, NEW i \in Nat, i < m * n
    PROVE  i \div n < m
<1>. DEFINE q == i \div n  e == i % n
<1>1. i = n * q + e /\ q \in Nat /\ e \in Nat
  BY Division
<1>. HIDE DEF q, e
<1>2. CASE q >= m
  <2>1. PICK d \in Nat : q = m + d
    <3>1. q - m \in Nat /\ q = m + (q - m)
      BY <1>1, <1>2
    <3>. QED BY <3>1
  <2>2. n * q = m * n + n * d /\ n * d >= 0
    BY <2>1
  <2>3. m * n \in Nat /\ n * d \in Nat
    OBVIOUS
  <2>. QED BY <1>1, <2>2, <2>3
<1>. QED BY <1>1, <1>2 DEF q

\* n values, no two of them equal.
Different(s, n) ==
    n \in Nat \ {0} /\ Len(s) = n /\ \A j, k \in 1 .. n : s[j] = s[k] => j = k

\* The pairs of nested loops over xs and ys, of lengths m and n.
AllPairs(xs, ys, m, n) ==
    /\ DOMAIN Nested(xs, ys) = 1 .. m * n
    /\ \A k \in 1 .. m * n :
            /\ (k - 1) \div n + 1 \in 1 .. m /\ ((k - 1) % n) + 1 \in 1 .. n
            /\ Nested(xs, ys)[k] = <<xs[(k - 1) \div n + 1], ys[((k - 1) % n) + 1]>>
    /\ \A j, k \in 1 .. m * n : Nested(xs, ys)[j] = Nested(xs, ys)[k] => j = k

\* Two loops, one inside the other, meet every pair of their values once.
LEMMA NestedDistinct ==
    ASSUME NEW xs, NEW ys, NEW m, NEW n, Different(xs, m), Different(ys, n)
    PROVE  AllPairs(xs, ys, m, n)
<1>. USE DEF Different
<1>1. /\ DOMAIN Nested(xs, ys) = 1 .. m * n
      /\ \A k \in 1 .. m * n : Nested(xs, ys)[k] = <<xs[(k - 1) \div n + 1], ys[((k - 1) % n) + 1]>>
  BY DEF Nested
<1>2. ASSUME NEW k \in 1 .. m * n
      PROVE  /\ k - 1 = n * ((k - 1) \div n) + ((k - 1) % n)
             /\ (k - 1) \div n \in Nat /\ (k - 1) \div n < m /\ ((k - 1) % n) \in 0 .. n - 1
  <2>1. PICK e \in Nat : e = k - 1 /\ e < m * n
    <3>1. k - 1 \in Nat /\ k - 1 < m * n
      BY m * n \in Nat
    <3>. QED BY <3>1
  <2>2. e = n * (e \div n) + (e % n) /\ e \div n \in Nat /\ e % n \in 0 .. n - 1
    OBVIOUS
  <2>3. e \div n < m
    BY <2>1, OuterLoop
  <2>. QED BY <2>1, <2>2, <2>3
<1>3. ASSUME NEW k \in 1 .. m * n
      PROVE  (k - 1) \div n + 1 \in 1 .. m /\ ((k - 1) % n) + 1 \in 1 .. n
  <2>. DEFINE q == (k - 1) \div n  e == ((k - 1) % n)
  <2>1. q \in Nat /\ q < m /\ e \in 0 .. n - 1
    BY <1>2
  <2>. HIDE DEF q, e
  <2>2. q + 1 \in 1 .. m /\ e + 1 \in 1 .. n
    BY <2>1
  <2>. QED BY <2>2 DEF q, e
<1>4. ASSUME NEW j \in 1 .. m * n, NEW k \in 1 .. m * n, Nested(xs, ys)[j] = Nested(xs, ys)[k]
      PROVE  j = k
  <2>. DEFINE a == (j - 1) \div n  b == ((j - 1) % n)
              c == (k - 1) \div n  d == ((k - 1) % n)
  <2>1. <<xs[a + 1], ys[b + 1]>> = <<xs[c + 1], ys[d + 1]>>
    BY <1>1, <1>4
  <2>2. a + 1 \in 1 .. m /\ c + 1 \in 1 .. m /\ b + 1 \in 1 .. n /\ d + 1 \in 1 .. n
    BY <1>3
  <2>3. j - 1 = n * a + b /\ k - 1 = n * c + d /\ {a, b, c, d} \subseteq Nat
    BY <1>2
  <2>. HIDE DEF a, b, c, d
  <2>4. xs[a + 1] = xs[c + 1] /\ ys[b + 1] = ys[d + 1]
    BY <2>1
  <2>5. a + 1 = c + 1 /\ b + 1 = d + 1
    BY <2>2, <2>4
  <2>6. a = c /\ b = d
    <3>1. {a, b, c, d} \subseteq Nat
      BY <2>3
    <3>. HIDE <2>3
    <3>. QED BY <2>5, <3>1
  <2>. QED BY <2>3, <2>6
<1>. QED BY <1>1, <1>3, <1>4 DEF AllPairs

\* A sequence is given by its n values.
IsList(s, n) == s = [k \in 1 .. n |-> s[k]]

\* n paths, no two of them equal.
DistinctPaths(s, n) ==
    /\ n \in Nat /\ IsList(s, n)
    /\ \A j, k \in 1 .. n : s[j] = s[k] => j = k

\* n different paths whose second labels are of a set.
Labelled(s, n, labels) == DistinctPaths(s, n) /\ \A k \in 1 .. n : s[k].label[2] \in labels

\* Loops whose paths have different labels may follow one another.
LEMMA LabelledConcat ==
    ASSUME NEW s, NEW t, NEW m, NEW n, NEW L, NEW M, Labelled(s, m, L), Labelled(t, n, M), L \cap M = {}
    PROVE  Labelled(s \o t, m + n, L \cup M)
<1>0. DistinctPaths(s, m) /\ DistinctPaths(t, n) /\ \A j \in 1 .. m, k \in 1 .. n : s[j] # t[k]
  BY DEF Labelled
<1>. DEFINE S == {s[k] : k \in 1 .. m} \cup {t[k] : k \in 1 .. n}
<1>1. m \in Nat /\ n \in Nat /\ s \in Seq(S) /\ t \in Seq(S) /\ Len(s) = m /\ Len(t) = n
  <2>1. /\ m \in Nat /\ s = [k \in 1 .. m |-> s[k]] /\ \A k \in 1 .. m : s[k] \in S
        /\ n \in Nat /\ t = [k \in 1 .. n |-> t[k]] /\ \A k \in 1 .. n : t[k] \in S
    BY <1>0 DEF DistinctPaths, IsList
  <2>. HIDE DEF S
  <2>2. s \in [1 .. m -> S] /\ t \in [1 .. n -> S]
    BY <2>1
  <2>. QED BY <2>1, <2>2
<1>. HIDE DEF S
<1>2. /\ s \o t = [k \in 1 .. m + n |-> (s \o t)[k]]
      /\ \A k \in 1 .. m : (s \o t)[k] = s[k]
      /\ \A k \in 1 .. n : (s \o t)[m + k] = t[k]
  <2>1. s \o t \in Seq(S) /\ Len(s \o t) = m + n
    BY <1>1
  <2>2. s \o t = [k \in 1 .. m + n |-> (s \o t)[k]]
    <3>. DEFINE u == s \o t  l == m + n
    <3>1. u \in Seq(S) /\ Len(u) = l
      BY <2>1
    <3>. HIDE DEF u, l
    <3>2. u = [k \in 1 .. l |-> u[k]]
      BY <3>1
    <3>. QED BY <3>2 DEF u, l
  <2>3. \A k \in 1 .. m : (s \o t)[k] = s[k]
    BY <1>1
  <2>4. \A k \in 1 .. n : (s \o t)[m + k] = t[k]
    BY <1>1
  <2>. QED BY <2>2, <2>3, <2>4
<1>3. \A k \in 1 .. m + n : k \in 1 .. m \/ (k - m \in 1 .. n /\ k = m + (k - m))
  BY <1>1
<1>4. \A k \in 1 .. m + n : k \in 1 .. m \/ (k - m \in 1 .. n /\ (s \o t)[k] = t[k - m])
  BY <1>2, <1>3
<1>5. ASSUME NEW j \in 1 .. m + n, NEW k \in 1 .. m + n, (s \o t)[j] = (s \o t)[k] PROVE j = k
  <2>1. CASE j \in 1 .. m /\ k \in 1 .. m
    BY <1>0, <1>2, <1>5, <2>1 DEF DistinctPaths
  <2>2. CASE j \in 1 .. m /\ k \notin 1 .. m
    <3>1. k - m \in 1 .. n /\ s[j] = t[k - m]
      BY <1>2, <1>4, <1>5, <2>2
    <3>. QED BY <1>0, <2>2, <3>1
  <2>3. CASE j \notin 1 .. m /\ k \in 1 .. m
    <3>1. j - m \in 1 .. n /\ s[k] = t[j - m]
      BY <1>2, <1>4, <1>5, <2>3
    <3>. QED BY <1>0, <2>3, <3>1
  <2>4. CASE j \notin 1 .. m /\ k \notin 1 .. m
    <3>1. j - m \in 1 .. n /\ k - m \in 1 .. n /\ t[j - m] = t[k - m]
      BY <1>4, <1>5, <2>4
    <3>2. j - m = k - m
      BY <1>0, <3>1 DEF DistinctPaths
    <3>. QED BY <1>1, <3>2
  <2>. QED BY <2>1, <2>2, <2>3, <2>4
<1>6. DistinctPaths(s \o t, m + n)
  <2>1. m + n \in Nat
    BY <1>1
  <2>2. \A j, k \in 1 .. m + n : (s \o t)[j] = (s \o t)[k] => j = k
    BY <1>5
  <2>. QED BY <1>2, <2>1, <2>2, Zenon DEF DistinctPaths, IsList
<1>7. \A k \in 1 .. m + n : (s \o t)[k].label[2] \in L \cup M
  BY <1>2, <1>4 DEF Labelled
<1>. QED BY <1>6, <1>7 DEF Labelled

\* The three cases of the benchmarks are different.
LEMMA CasesFacts ==
    Different(Cases, 3)
<1>1. \A k \in 1 .. 3 : k = 1 \/ k = 2 \/ k = 3
  OBVIOUS
<1>2. Len(Cases) = 3 /\ Cases[1] = Int64 /\ Cases[2] = Decimals /\ Cases[3] = Wide
  BY DEF Cases
<1>3. Int64 # Decimals /\ Int64 # Wide /\ Decimals # Wide
  BY DEF Int64, Decimals, Wide
<1>. QED BY <1>1, <1>2, <1>3 DEF Different

\* Of n paths made by loops over xs and ys, equal ones are of the same pair.
TellsPairs(s, xs, ys, n) ==
    \A j, k \in 1 .. n : s[j] = s[k] => /\ Nested(xs, ys)[j][1] = Nested(xs, ys)[k][1]
                                       /\ Nested(xs, ys)[j][2] = Nested(xs, ys)[k][2]

\* Paths that are told apart by what a pair of loops gives them.
LEMMA LoopDistinct ==
    ASSUME NEW xs, NEW ys, NEW m, NEW n, AllPairs(xs, ys, m, n), m * n \in Nat, NEW s,
           IsList(s, m * n), TellsPairs(s, xs, ys, m * n)
    PROVE  DistinctPaths(s, m * n)
<1>. DEFINE loop == Nested(xs, ys)
<1>1. /\ \A k \in 1 .. m * n : loop[k] = <<loop[k][1], loop[k][2]>>
      /\ \A j, k \in 1 .. m * n : loop[j] = loop[k] => j = k
  BY DEF AllPairs
<1>2. ASSUME NEW j \in 1 .. m * n, NEW k \in 1 .. m * n, s[j] = s[k] PROVE j = k
  <2>1. loop[j][1] = loop[k][1] /\ loop[j][2] = loop[k][2]
    BY <1>2 DEF TellsPairs
  <2>2. loop[j] = loop[k]
    BY <1>1, <2>1
  <2>. QED BY <1>1, <2>2
<1>. QED BY <1>2 DEF DistinctPaths

\* The paths of one code generator: each case with each of the two calls.
LEMMA GoogleDistinct ==
    ASSUME NEW codegen
    PROVE  /\ DistinctPaths(GooglePaths(codegen), 6)
           /\ \A k \in 1 .. 6 : GooglePaths(codegen)[k].label[2] = codegen
<1>. DEFINE apis == <<"SerializeToString", "SerializeToArray_preallocated">>
            loop == Nested(Cases, apis)
            s == GooglePaths(codegen)
<1>1. Different(apis, 2)
  <2>1. \A k \in 1 .. 2 : k = 1 \/ k = 2
    OBVIOUS
  <2>2. Len(apis) = 2 /\ apis[1] # apis[2]
    OBVIOUS
  <2>. HIDE DEF apis
  <2>. QED BY <2>1, <2>2 DEF Different
<1>2. AllPairs(Cases, apis, 3, 2) /\ DOMAIN loop = 1 .. 3 * 2
  <2>. HIDE DEF apis
  <2>1. AllPairs(Cases, apis, 3, 2)
    BY <1>1, CasesFacts, NestedDistinct
  <2>. QED BY <2>1 DEF AllPairs
<1>3. s = [k \in 1 .. 3 * 2 |-> [case |-> loop[k][1], label |-> <<"google_protobuf", codegen, loop[k][2]>>]]
  <2>1. s = [k \in DOMAIN loop |-> [case |-> loop[k][1], label |-> <<"google_protobuf", codegen, loop[k][2]>>]]
    BY DEF GooglePaths, Path
  <2>. HIDE DEF s, loop
  <2>. QED BY <1>2, <2>1
<1>. HIDE DEF apis, loop, s
<1>4. ASSUME NEW j \in 1 .. 3 * 2, NEW k \in 1 .. 3 * 2, s[j] = s[k]
      PROVE  loop[j][1] = loop[k][1] /\ loop[j][2] = loop[k][2]
  <2>1. s[j].case = s[k].case /\ s[j].label[3] = s[k].label[3]
    BY <1>4
  <2>. QED BY <1>3, <2>1
<1>5. DistinctPaths(s, 3 * 2)
  <2>1. IsList(s, 3 * 2)
    BY <1>3 DEF IsList
  <2>2. 3 * 2 \in Nat
    OBVIOUS
  <2>3. TellsPairs(s, Cases, apis, 3 * 2)
    BY <1>4 DEF TellsPairs, loop
  <2>. QED BY <1>2, <2>1, <2>2, <2>3, LoopDistinct
<1>6. \A k \in 1 .. 6 : s[k].label[2] = codegen
  BY <1>3
<1>. QED BY <1>5, <1>6 DEF s

\* protobuf-c has one path for each case.
LEMMA ProtobufCDistinct ==
    /\ DistinctPaths(ProtobufCPaths, 3)
    /\ \A k \in 1 .. 3 : ProtobufCPaths[k].label[2] = "c_generated"
<1>1. ProtobufCPaths = [k \in 1 .. 3 |-> [case |-> Cases[k], label |-> <<"protobuf_c", "c_generated", "pack_preallocated">>]]
  <2>1. DOMAIN Cases = 1 .. 3
    BY DEF Cases
  <2>. QED BY <2>1 DEF ProtobufCPaths, Path
<1>2. \A j, k \in 1 .. 3 : ProtobufCPaths[j] = ProtobufCPaths[k] => j = k
  <2>1. ASSUME NEW j \in 1 .. 3, NEW k \in 1 .. 3, ProtobufCPaths[j] = ProtobufCPaths[k] PROVE j = k
    <3>1. ProtobufCPaths[j].case = ProtobufCPaths[k].case
      BY <2>1
    <3>2. Cases[j] = Cases[k]
      BY <1>1, <3>1
    <3>. QED BY <3>2, CasesFacts DEF Different
  <2>. QED BY <2>1
<1>. QED BY <1>1, <1>2 DEF DistinctPaths, IsList

\* The paths of the JSON libraries: each case with each of the five.
LEMMA JsonDistinct ==
    /\ DistinctPaths(JsonPaths, 15)
    /\ \A k \in 1 .. 15 : JsonPaths[k].label[2] = "n/a"
<1>. DEFINE writers == <<<<"rapidjson", "n/a", "writer">>, <<"nlohmann_json", "n/a", "dump">>,
                         <<"jsoncpp", "n/a", "writeString">>, <<"boost_json", "n/a", "serialize">>,
                         <<"yyjson", "n/a", "mut_write">>>>
            loop == Nested(Cases, writers)
<1>1. Different(writers, 5) /\ \A k \in 1 .. 5 : writers[k][2] = "n/a"
  <2>1. \A k \in 1 .. 5 : k = 1 \/ k = 2 \/ k = 3 \/ k = 4 \/ k = 5
    OBVIOUS
  <2>2. /\ writers[1][1] = "rapidjson" /\ writers[2][1] = "nlohmann_json" /\ writers[3][1] = "jsoncpp"
        /\ writers[4][1] = "boost_json" /\ writers[5][1] = "yyjson" /\ Len(writers) = 5
    OBVIOUS
  <2>3. /\ writers[1][2] = "n/a" /\ writers[2][2] = "n/a" /\ writers[3][2] = "n/a"
        /\ writers[4][2] = "n/a" /\ writers[5][2] = "n/a"
    OBVIOUS
  <2>. HIDE DEF writers
  <2>4. \A j, k \in 1 .. 5 : writers[j][1] = writers[k][1] => j = k
    BY <2>1, <2>2
  <2>5. \A k \in 1 .. 5 : writers[k][2] = "n/a"
    BY <2>1, <2>3
  <2>. QED BY <2>2, <2>4, <2>5 DEF Different
<1>2. /\ AllPairs(Cases, writers, 3, 5) /\ DOMAIN loop = 1 .. 3 * 5
      /\ \A k \in 1 .. 3 * 5 : loop[k][2][2] = "n/a"
  <2>. HIDE DEF writers
  <2>1. AllPairs(Cases, writers, 3, 5)
    BY <1>1, CasesFacts, NestedDistinct
  <2>2. \A k \in 1 .. 3 * 5 : ((k - 1) % 5) + 1 \in 1 .. 5 /\ loop[k][2] = writers[((k - 1) % 5) + 1]
    BY <2>1 DEF AllPairs
  <2>3. DOMAIN loop = 1 .. 3 * 5
    BY <2>1 DEF AllPairs
  <2>. HIDE DEF loop
  <2>. QED BY <1>1, <2>1, <2>2, <2>3
<1>3. JsonPaths = [k \in 1 .. 3 * 5 |-> [case |-> loop[k][1], label |-> loop[k][2]]]
  <2>1. JsonPaths = [k \in DOMAIN loop |-> [case |-> loop[k][1], label |-> loop[k][2]]]
    BY DEF JsonPaths, Path
  <2>. HIDE DEF loop
  <2>. QED BY <1>2, <2>1
<1>. HIDE DEF writers, loop
<1>4. DistinctPaths(JsonPaths, 3 * 5)
  <2>1. IsList(JsonPaths, 3 * 5)
    BY <1>3 DEF IsList
  <2>2. ASSUME NEW j \in 1 .. 3 * 5, NEW k \in 1 .. 3 * 5, JsonPaths[j] = JsonPaths[k]
        PROVE  loop[j][1] = loop[k][1] /\ loop[j][2] = loop[k][2]
    <3>1. JsonPaths[j].case = JsonPaths[k].case /\ JsonPaths[j].label = JsonPaths[k].label
      BY <2>2
    <3>. QED BY <1>3, <3>1
  <2>3. 3 * 5 \in Nat
    OBVIOUS
  <2>4. TellsPairs(JsonPaths, Cases, writers, 3 * 5)
    BY <2>2 DEF TellsPairs, loop
  <2>. QED BY <1>2, <2>1, <2>3, <2>4, LoopDistinct
<1>5. \A k \in 1 .. 15 : JsonPaths[k].label[2] = "n/a"
  BY <1>2, <1>3
<1>. QED BY <1>4, <1>5

\* The paths of the encode benchmark: a loop for each code generator, and those of the libraries.
LEMMA EncodeDistinct == DistinctPaths(EncodePaths, 36)
<1>. DEFINE s == GooglePaths("speed")  c == GooglePaths("code_size")  l == GooglePaths("lite_runtime")
            p == ProtobufCPaths  j == JsonPaths
<1>1. /\ Labelled(s, 6, {"speed"}) /\ Labelled(c, 6, {"code_size"}) /\ Labelled(l, 6, {"lite_runtime"})
      /\ Labelled(p, 3, {"c_generated"}) /\ Labelled(j, 15, {"n/a"})
  BY GoogleDistinct, ProtobufCDistinct, JsonDistinct DEF Labelled
<1>. HIDE DEF s, c, l, p, j
<1>2. Labelled(s \o c, 12, {"speed", "code_size"})
  <2>1. Labelled(s \o c, 6 + 6, {"speed"} \cup {"code_size"})
    BY <1>1, LabelledConcat
  <2>2. {"speed"} \cup {"code_size"} = {"speed", "code_size"}
    OBVIOUS
  <2>. QED BY <2>1, <2>2
<1>3. Labelled(s \o c \o l, 18, {"speed", "code_size", "lite_runtime"})
  <2>1. Labelled(s \o c \o l, 12 + 6, {"speed", "code_size"} \cup {"lite_runtime"})
    BY <1>1, <1>2, LabelledConcat
  <2>2. {"speed", "code_size"} \cup {"lite_runtime"} = {"speed", "code_size", "lite_runtime"}
    OBVIOUS
  <2>. QED BY <2>1, <2>2
<1>4. Labelled(s \o c \o l \o p, 21, {"speed", "code_size", "lite_runtime", "c_generated"})
  <2>1. Labelled(s \o c \o l \o p, 18 + 3, {"speed", "code_size", "lite_runtime"} \cup {"c_generated"})
    BY <1>1, <1>3, LabelledConcat
  <2>2. {"speed", "code_size", "lite_runtime"} \cup {"c_generated"}
            = {"speed", "code_size", "lite_runtime", "c_generated"}
    OBVIOUS
  <2>. QED BY <2>1, <2>2
<1>5. DistinctPaths(s \o c \o l \o p \o j, 21 + 15)
  <2>1. Labelled(s \o c \o l \o p \o j, 21 + 15, {"speed", "code_size", "lite_runtime", "c_generated"} \cup {"n/a"})
    BY <1>1, <1>4, LabelledConcat
  <2>. QED BY <2>1 DEF Labelled
<1>. QED BY <1>5 DEF EncodePaths, s, c, l, p, j

\* The paths of a pair of loops, whose label is what the inner one gives.
LoopPaths(s, xs, ys) ==
    s = [k \in DOMAIN Nested(xs, ys) |-> Path(Nested(xs, ys)[k][1], <<Nested(xs, ys)[k][2]>>)]

\* The label of each path is the value of the inner loop.
InnerLabels(s, ys, m, n) ==
    \A k \in 1 .. m * n : ((k - 1) % n) + 1 \in 1 .. n /\ s[k].label = <<ys[((k - 1) % n) + 1]>>

\* Different values in both loops give different paths.
LEMMA LoopPathsDistinct ==
    ASSUME NEW s, NEW xs, NEW ys, NEW m, NEW n, Different(xs, m), Different(ys, n), LoopPaths(s, xs, ys)
    PROVE  DistinctPaths(s, m * n) /\ InnerLabels(s, ys, m, n)
<1>. DEFINE loop == Nested(xs, ys)
<1>1. AllPairs(xs, ys, m, n) /\ m * n \in Nat
  BY NestedDistinct DEF Different
<1>2. /\ DOMAIN loop = 1 .. m * n
      /\ \A k \in 1 .. m * n : ((k - 1) % n) + 1 \in 1 .. n /\ loop[k][2] = ys[((k - 1) % n) + 1]
  BY <1>1 DEF AllPairs
<1>3. s = [k \in 1 .. m * n |-> [case |-> loop[k][1], label |-> <<loop[k][2]>>]]
  <2>1. s = [k \in DOMAIN loop |-> [case |-> loop[k][1], label |-> <<loop[k][2]>>]]
    BY DEF LoopPaths, Path
  <2>. HIDE DEF loop
  <2>. QED BY <1>2, <2>1
<1>. HIDE DEF loop
<1>4. TellsPairs(s, xs, ys, m * n)
  <2>1. ASSUME NEW j \in 1 .. m * n, NEW k \in 1 .. m * n, s[j] = s[k]
        PROVE  loop[j][1] = loop[k][1] /\ loop[j][2] = loop[k][2]
    <3>1. s[j].case = s[k].case /\ s[j].label[1] = s[k].label[1]
      BY <2>1
    <3>. QED BY <1>3, <3>1
  <2>. QED BY <2>1 DEF TellsPairs, loop
<1>5. IsList(s, m * n)
  BY <1>3 DEF IsList
<1>6. DistinctPaths(s, m * n)
  BY <1>1, <1>4, <1>5, LoopDistinct
<1>7. \A k \in 1 .. m * n : s[k].label = <<ys[((k - 1) % n) + 1]>>
  BY <1>2, <1>3
<1>. QED BY <1>2, <1>6, <1>7 DEF InnerLabels

\* The paths of the latency benchmark: each case with each of four calls.
LEMMA LatencyDistinct == DistinctPaths(LatencyPaths, 12)
<1>. DEFINE ys == <<"serialize_array_reuse", "serialize_array_fresh_buffer",
                    "serialize_string_reserved", "serialize_array_arena_message">>
<1>1. Different(ys, 4)
  <2>1. \A k \in 1 .. 4 : k = 1 \/ k = 2 \/ k = 3 \/ k = 4
    OBVIOUS
  <2>2. /\ Len(ys) = 4 /\ ys[1] = "serialize_array_reuse" /\ ys[2] = "serialize_array_fresh_buffer"
        /\ ys[3] = "serialize_string_reserved" /\ ys[4] = "serialize_array_arena_message"
    OBVIOUS
  <2>. HIDE DEF ys
  <2>. QED BY <2>1, <2>2 DEF Different
<1>2. LoopPaths(LatencyPaths, Cases, ys)
  BY DEF LoopPaths, LatencyPaths
<1>3. DistinctPaths(LatencyPaths, 3 * 4)
  <2>. HIDE DEF ys
  <2>. QED BY <1>1, <1>2, CasesFacts, LoopPathsDistinct
<1>. QED BY <1>3

\* The paths of the distribution benchmark: one for each corpus.
LEMMA DistributionDistinct == DistinctPaths(DistributionPaths, 7)
<1>1. \A k \in 1 .. 7 : k = 1 \/ k = 2 \/ k = 3 \/ k = 4 \/ k = 5 \/ k = 6 \/ k = 7
  OBVIOUS
<1>2. /\ DOMAIN Distributions = 1 .. 7
      /\ Distributions[1] = "int64_small_varints" /\ Distributions[2] = "int64_large_varints"
      /\ Distributions[3] = "int64_negative_standard_varint" /\ Distributions[4] = "int64_mixed_distribution"
      /\ Distributions[5] = "string_short_ascii" /\ Distributions[6] = "string_long_ascii_256"
      /\ Distributions[7] = "string_multibyte_utf8"
  BY DEF Distributions
<1>3. \A j, k \in 1 .. 7 : Distributions[j] = Distributions[k] => j = k
  BY <1>1, <1>2
<1>4. DistributionPaths = [k \in 1 .. 7 |-> [case |-> Distributions[k], label |-> <<>>]]
  BY <1>2 DEF DistributionPaths, Path
<1>5. \A j, k \in 1 .. 7 : DistributionPaths[j] = DistributionPaths[k] => Distributions[j] = Distributions[k]
  <2>1. \A k \in 1 .. 7 : DistributionPaths[k].case = Distributions[k]
    BY <1>4
  <2>. QED BY <2>1
<1>. QED BY <1>3, <1>4, <1>5 DEF DistinctPaths, IsList

\* The paths of the fixed64 benchmark: each range of values with each encoding.
LEMMA Fixed64Distinct == DistinctPaths(Fixed64Paths, 6)
<1>. DEFINE xs == <<"positive_small", "positive_scaled_price", "positive_near_max">>
            ys == <<"int64", "fixed64">>
<1>1. Different(xs, 3)
  <2>1. \A k \in 1 .. 3 : k = 1 \/ k = 2 \/ k = 3
    OBVIOUS
  <2>2. /\ Len(xs) = 3 /\ xs[1] = "positive_small" /\ xs[2] = "positive_scaled_price"
        /\ xs[3] = "positive_near_max"
    OBVIOUS
  <2>. HIDE DEF xs
  <2>. QED BY <2>1, <2>2 DEF Different
<1>2. Different(ys, 2)
  <2>1. \A k \in 1 .. 2 : k = 1 \/ k = 2
    OBVIOUS
  <2>2. Len(ys) = 2 /\ ys[1] = "int64" /\ ys[2] = "fixed64"
    OBVIOUS
  <2>. HIDE DEF ys
  <2>. QED BY <2>1, <2>2 DEF Different
<1>3. LoopPaths(Fixed64Paths, xs, ys)
  BY DEF LoopPaths, Fixed64Paths
<1>4. DistinctPaths(Fixed64Paths, 3 * 2)
  <2>. HIDE DEF xs, ys
  <2>. QED BY <1>1, <1>2, <1>3, LoopPathsDistinct
<1>. QED BY <1>4

\* The paths of the representation benchmark: one for each representation.
LEMMA RepresentationDistinct == DistinctPaths(RepresentationPaths, 4)
<1>. DEFINE ys == <<"decimal_string", "scaled_sint64_scale_8", "fixed64_scale_8",
                    "bytes_128bit_coefficient_scale_8">>
<1>1. \A j, k \in 1 .. 4 : ys[j] = ys[k] => j = k
  <2>1. \A k \in 1 .. 4 : k = 1 \/ k = 2 \/ k = 3 \/ k = 4
    OBVIOUS
  <2>2. /\ ys[1] = "decimal_string" /\ ys[2] = "scaled_sint64_scale_8" /\ ys[3] = "fixed64_scale_8"
        /\ ys[4] = "bytes_128bit_coefficient_scale_8"
    OBVIOUS
  <2>. HIDE DEF ys
  <2>. QED BY <2>1, <2>2
<1>2. RepresentationPaths = [k \in 1 .. 4 |-> [case |-> "one_string_ten_decimal", label |-> <<ys[k]>>]]
  BY DEF RepresentationPaths, Path
<1>. HIDE DEF ys
<1>3. \A k \in 1 .. 4 : RepresentationPaths[k].label[1] = ys[k]
  BY <1>2
<1>. QED BY <1>1, <1>2, <1>3 DEF DistinctPaths, IsList

\* The paths of the framing part: the second of a case finds the buffer of the first.
FramingLabel(k) ==
    <<"cached_id_framed_in_place", "cached_id_framed_with_copy", "cached_serializer_string">>[((k - 1) % 3) + 1]

\* The paths of the framing part: each case with each of three ways to frame it.
LEMMA FramingDistinct ==
    DistinctPaths(FramingPaths, 9) /\ \A k \in 1 .. 9 : FramingPaths[k].label[1] = FramingLabel(k)
<1>. DEFINE ys == <<"cached_id_framed_in_place", "cached_id_framed_with_copy", "cached_serializer_string">>
<1>1. Different(ys, 3)
  <2>1. \A k \in 1 .. 3 : k = 1 \/ k = 2 \/ k = 3
    OBVIOUS
  <2>2. /\ Len(ys) = 3 /\ ys[1] = "cached_id_framed_in_place" /\ ys[2] = "cached_id_framed_with_copy"
        /\ ys[3] = "cached_serializer_string"
    OBVIOUS
  <2>. HIDE DEF ys
  <2>. QED BY <2>1, <2>2 DEF Different
<1>2. LoopPaths(FramingPaths, Cases, ys)
  BY DEF LoopPaths, FramingPaths
<1>3. DistinctPaths(FramingPaths, 3 * 3) /\ InnerLabels(FramingPaths, ys, 3, 3)
  <2>. HIDE DEF ys
  <2>. QED BY <1>1, <1>2, CasesFacts, LoopPathsDistinct
<1>4. \A k \in 1 .. 9 : FramingPaths[k].label[1] = ys[((k - 1) % 3) + 1]
  <2>. HIDE DEF ys
  <2>. QED BY <1>3 DEF InnerLabels
<1>. QED BY <1>3, <1>4 DEF FramingLabel

\* No program has two paths whose rows have the same columns.
LEMMA PathsDistinct ==
    ASSUME NEW p \in Programs
    PROVE  \E n \in Nat \ {0} : /\ DOMAIN Paths[p] = 1 .. n /\ Len(Paths[p]) = n
                               /\ \A j, k \in 1 .. n : Paths[p][j] = Paths[p][k] => j = k
<1>1. ASSUME NEW s, NEW n \in Nat, DistinctPaths(s, n)
      PROVE  DOMAIN s = 1 .. n /\ Len(s) = n /\ \A j, k \in 1 .. n : s[j] = s[k] => j = k
  BY <1>1 DEF DistinctPaths, IsList
<1>2. PICK n \in Nat \ {0} : DistinctPaths(Paths[p], n)
  <2>1. /\ Paths["encode"] = EncodePaths /\ Paths["latency"] = LatencyPaths
        /\ Paths["distribution"] = DistributionPaths /\ Paths["fixed64"] = Fixed64Paths
        /\ Paths["representation"] = RepresentationPaths /\ Paths["framing"] = FramingPaths
    BY DEF Paths
  <2>. QED BY <2>1, EncodeDistinct, LatencyDistinct, DistributionDistinct, Fixed64Distinct,
              RepresentationDistinct, FramingDistinct DEF Programs
<1>. QED BY <1>1, <1>2

-------------------------------------------------------------------------------
(* Sums *)

\* Every set of natural numbers that has one has a least one.
LEMMA LeastNumber ==
    ASSUME NEW T \in SUBSET Nat, T # {}
    PROVE  Min(T) \in T /\ \A m \in T : Min(T) =< m
<1>1. \E n \in T : \A m \in T : ~(<<m, n>> \in OpToRel(<, Nat))
  BY NatLessThanWellFounded, WFMin
<1>2. \A m, n \in Nat : m < n => <<m, n>> \in OpToRel(<, Nat)
  BY DEF OpToRel
<1>3. PICK n \in T : \A m \in T : ~(<<m, n>> \in OpToRel(<, Nat))
  BY <1>1
<1>4. \A m \in T : m \in Nat /\ n \in Nat /\ ~(m < n)
  BY <1>2, <1>3
<1>5. \A m \in T : n =< m
  BY <1>4
<1>. QED BY <1>5 DEF Min

\* The largest of some numbers up to n.
LEMMA GreatestNumber ==
    ASSUME NEW n \in Nat, NEW T \in SUBSET (0 .. n), T # {}
    PROVE  Max(T) \in T /\ \A m \in T : m =< Max(T)
<1>. DEFINE U == {k \in Nat : n - k \in T}
<1>1. U \in SUBSET Nat /\ U # {}
  <2>1. PICK m \in T : TRUE
    OBVIOUS
  <2>2. n - m \in Nat /\ n - (n - m) = m
    BY <2>1
  <2>. QED BY <2>1, <2>2
<1>2. PICK k \in U : \A j \in U : k =< j
  <2>. HIDE DEF U
  <2>. QED BY <1>1, LeastNumber
<1>3. ASSUME NEW m \in T PROVE n - m \in U
  <2>1. n - m \in Nat /\ n - (n - m) = m
    OBVIOUS
  <2>. QED BY <2>1
<1>4. \A m \in T : k =< n - m
  <2>. HIDE DEF U
  <2>. QED BY <1>2, <1>3
<1>5. k \in Nat /\ n - k \in T
  BY <1>2
<1>6. \A m \in T : m =< n - k
  BY <1>4, <1>5
<1>7. \E x \in T : \A m \in T : x >= m
  BY <1>5, <1>6
<1>. QED BY <1>7 DEF Max

\* Counting up from zero reaches every number up to n: induction over an interval, with the set
\* of the numbers that have what is claimed for the claim.
LEMMA CountingUp ==
    ASSUME NEW n \in Nat, NEW S, 0 \in S, \A i \in 0 .. n - 1 : i \in S => i + 1 \in S
    PROVE  \A i \in 0 .. n : i \in S
<1>. DEFINE T == {i \in 0 .. n : i \notin S}
<1>. SUFFICES ASSUME T # {} PROVE FALSE
  OBVIOUS
<1>1. T \in SUBSET Nat
  OBVIOUS
<1>2. PICK i \in T : \A m \in T : i =< m
  <2>. HIDE DEF T
  <2>. QED BY <1>1, LeastNumber
<1>3. i # 0 /\ i - 1 \in 0 .. n - 1 /\ i - 1 \notin T
  BY <1>2
<1>4. (i - 1) + 1 = i
  BY <1>2
<1>. QED BY <1>2, <1>3, <1>4

\* The element the fold of the library takes next.
Picked(S) == CHOOSE x \in S : TRUE

\* The sums of the values of f over the sets of indices S, as the library computes them.
AreSums(sum, f, D) ==
    sum = [S \in SUBSET D |-> IF S = {} THEN 0 ELSE f[Picked(S)] + sum[S \ {Picked(S)}]]

\* There is a function that gives these sums, so that the one the fold chooses is one.
LEMMA SumsExist ==
    ASSUME NEW D, IsFiniteSet(D), NEW f
    PROVE  \E sum : AreSums(sum, f, D) /\ SumFunctionOnSet(f, D) = sum[D]
<1>. DEFINE Body(g, s) == IF s = {} THEN 0 ELSE f[Picked(s)] + g[s \ {Picked(s)}]
            iter == CHOOSE g : g = [s \in SUBSET D |-> Body(g, s)]
            Small(m) == {s \in SUBSET D : Cardinality(s) =< m}
            n == Cardinality(D)
            Done == {m \in Nat : \E g : g = [s \in Small(m) |-> Body(g, s)]}
<1>0. n \in Nat /\ \A s \in SUBSET D : IsFiniteSet(s) /\ Cardinality(s) \in Nat /\ Cardinality(s) =< n
  BY FS_Subset, FS_CardinalityType
<1>1. SumFunctionOnSet(f, D) = iter[D]
  BY DEF SumFunctionOnSet, FoldFunctionOnSet, MapThenFoldSet, Picked
<1>2. 0 \in Done
  <2>1. \A s \in Small(0) : s = {}
    BY <1>0, FS_EmptySet
  <2>. DEFINE h == [s \in Small(0) |-> 0]
  <2>2. h = [s \in Small(0) |-> Body(h, s)]
    <3>1. \A s \in Small(0) : Body(h, s) = 0
      BY <2>1
    <3>. HIDE DEF Body, Small
    <3>. QED BY <3>1
  <2>. HIDE DEF h, Body, Small
  <2>. QED BY <2>2
<1>3. ASSUME NEW m \in 0 .. n - 1, m \in Done PROVE m + 1 \in Done
  <2>1. PICK g : g = [s \in Small(m) |-> Body(g, s)]
    BY <1>3
  <2>. DEFINE h == [s \in Small(m + 1) |-> Body(g, s)]
  <2>2. \A s \in Small(m + 1) : s # {} => s \ {Picked(s)} \in Small(m)
    <3>1. ASSUME NEW s \in SUBSET D, Cardinality(s) =< m + 1, s # {}
          PROVE  s \ {Picked(s)} \in SUBSET D /\ Cardinality(s \ {Picked(s)}) =< m
      <4>1. Picked(s) \in s
        BY <3>1 DEF Picked
      <4>2. Cardinality(s \ {Picked(s)}) = Cardinality(s) - 1
        BY <1>0, <4>1, FS_RemoveElement
      <4>. QED BY <1>0, <3>1, <4>2
    <3>. QED BY <3>1
  <2>3. \A s \in Small(m) : h[s] = g[s]
    <3>1. \A s \in Small(m) : s \in Small(m + 1)
      BY <1>0
    <3>. HIDE DEF Body, Small
    <3>. QED BY <2>1, <3>1
  <2>4. \A s \in Small(m + 1) : Body(h, s) = Body(g, s)
    <3>. HIDE DEF h, Small
    <3>. QED BY <2>2, <2>3
  <2>5. h = [s \in Small(m + 1) |-> Body(h, s)]
    <3>. HIDE DEF Body, Small
    <3>. QED BY <2>4
  <2>. HIDE DEF h, Body, Small
  <2>. QED BY <2>5
<1>4. n \in Done
  <2>. HIDE DEF Done, n
  <2>. QED BY <1>0, <1>2, <1>3, CountingUp
<1>5. Small(n) = SUBSET D
  BY <1>0
<1>6. \E g : g = [s \in SUBSET D |-> Body(g, s)]
  <2>1. \E g : g = [s \in Small(n) |-> Body(g, s)]
    BY <1>4
  <2>. HIDE DEF Body, Small
  <2>. QED BY <1>5, <2>1
<1>7. iter = [s \in SUBSET D |-> Body(iter, s)]
  <2>. HIDE DEF Body
  <2>. QED BY <1>6
<1>8. AreSums(iter, f, D)
  <2>. HIDE DEF iter
  <2>. QED BY <1>7 DEF AreSums
<1>. HIDE DEF iter
<1>. QED BY <1>1, <1>8

\* Sums of natural numbers, in whatever order they are added.
SumsOfNat(sum, f, D) ==
    /\ sum[{}] = 0
    /\ \A S \in SUBSET D : sum[S] \in Nat /\ \A x \in S : sum[S] = f[x] + sum[S \ {x}]

\* A sum of natural numbers may take any of them first.
LEMMA AnyOrder ==
    ASSUME NEW D, IsFiniteSet(D), NEW f, \A x \in D : f[x] \in Nat, NEW sum, AreSums(sum, f, D)
    PROVE  SumsOfNat(sum, f, D)
<1>. DEFINE n == Cardinality(D)
            Holds(S) == sum[S] \in Nat /\ \A x \in S : sum[S] = f[x] + sum[S \ {x}]
            Done == {m \in Nat : \A S \in SUBSET D : Cardinality(S) =< m => Holds(S)}
<1>0. n \in Nat /\ \A S \in SUBSET D : IsFiniteSet(S) /\ Cardinality(S) \in Nat /\ Cardinality(S) =< n
  BY FS_Subset, FS_CardinalityType
<1>1. sum[{}] = 0 /\ \A S \in SUBSET D : S # {} => Picked(S) \in S /\ sum[S] = f[Picked(S)] + sum[S \ {Picked(S)}]
  BY DEF AreSums, Picked
<1>2. 0 \in Done
  <2>1. \A S \in SUBSET D : Cardinality(S) =< 0 => S = {}
    BY <1>0, FS_EmptySet
  <2>2. Holds({})
    BY <1>1
  <2>. HIDE DEF Holds
  <2>. QED BY <2>1, <2>2
<1>3. ASSUME NEW m \in 0 .. n - 1, m \in Done PROVE m + 1 \in Done
  <2>1. \A S \in SUBSET D : Cardinality(S) =< m => Holds(S)
    BY <1>3
  <2>2. ASSUME NEW S \in SUBSET D, Cardinality(S) =< m + 1, S # {} PROVE Holds(S)
    <3>. DEFINE c == Picked(S)
    <3>2. c \in S /\ sum[S] = f[c] + sum[S \ {c}]
      BY <1>1, <2>2
    <3>. HIDE DEF c
    <3>3. \A x \in S : \A y \in S :
             /\ S \ {x} \in SUBSET D /\ Cardinality(S \ {x}) =< m
             /\ (S \ {x}) \ {y} \in SUBSET D /\ Cardinality((S \ {x}) \ {y}) =< m
      <4>1. ASSUME NEW x \in S, NEW y \in S
            PROVE  /\ S \ {x} \in SUBSET D /\ Cardinality(S \ {x}) =< m
                   /\ (S \ {x}) \ {y} \in SUBSET D /\ Cardinality((S \ {x}) \ {y}) =< m
        <5>1. S \ {x} \in SUBSET D /\ Cardinality(S \ {x}) = Cardinality(S) - 1
          BY <1>0, FS_RemoveElement
        <5>2. /\ (S \ {x}) \ {y} \in SUBSET D
              /\ Cardinality((S \ {x}) \ {y}) =< Cardinality(S \ {x})
          BY <1>0, <5>1, FS_Subset
        <5>3. Cardinality(S) \in Nat /\ Cardinality(S \ {x}) \in Nat /\ Cardinality((S \ {x}) \ {y}) \in Nat
          BY <1>0, <5>1, <5>2
        <5>. QED BY <2>2, <5>1, <5>2, <5>3
      <4>. QED BY <4>1
    <3>4. \A x \in S : \A y \in S : Holds(S \ {x}) /\ Holds((S \ {x}) \ {y})
      <4>. HIDE DEF Holds
      <4>. QED BY <2>1, <3>3
    <3>5. sum[S] \in Nat
      <4>1. sum[S \ {c}] \in Nat /\ f[c] \in Nat
        BY <3>2, <3>4
      <4>. QED BY <3>2, <4>1
    <3>6. ASSUME NEW x \in S, x # c PROVE sum[S] = f[x] + sum[S \ {x}]
      <4>1. sum[S \ {c}] = f[x] + sum[(S \ {c}) \ {x}]
        <5>1. x \in S \ {c} /\ Holds(S \ {c})
          <6>. HIDE DEF Holds
          <6>. QED BY <3>2, <3>4, <3>6
        <5>. QED BY <5>1
      <4>2. sum[S \ {x}] = f[c] + sum[(S \ {x}) \ {c}]
        <5>1. c \in S \ {x} /\ Holds(S \ {x})
          <6>. HIDE DEF Holds
          <6>. QED BY <3>2, <3>4, <3>6
        <5>. QED BY <5>1
      <4>3. (S \ {c}) \ {x} = (S \ {x}) \ {c} /\ sum[(S \ {x}) \ {c}] \in Nat
        BY <3>2, <3>4
      <4>. DEFINE z == sum[(S \ {x}) \ {c}]
      <4>4. f[x] \in Nat /\ f[c] \in Nat /\ z \in Nat
        BY <3>2, <4>3
      <4>5. sum[S \ {c}] = f[x] + z /\ sum[S \ {x}] = f[c] + z
        BY <4>1, <4>2, <4>3
      <4>. HIDE DEF z
      <4>. QED BY <3>2, <4>4, <4>5
    <3>. QED BY <3>2, <3>5, <3>6
  <2>3. Holds({})
    BY <1>1
  <2>. HIDE DEF Holds
  <2>. QED BY <2>2, <2>3
<1>4. \A i \in 0 .. n : i \in Done
  <2>. HIDE DEF Done, n
  <2>. QED BY <1>0, <1>2, <1>3, CountingUp
<1>5. \A S \in SUBSET D : Holds(S)
  <2>. HIDE DEF Holds
  <2>. QED BY <1>0, <1>4
<1>. QED BY <1>1, <1>5 DEF SumsOfNat

\* The sum of natural numbers over a finite set is one of them and the sum over the rest.
LEMMA Summing ==
    ASSUME NEW D, IsFiniteSet(D), NEW f, \A x \in D : f[x] \in Nat
    PROVE  /\ SumFunctionOnSet(f, {}) = 0
           /\ SumFunctionOnSet(f, D) \in Nat
           /\ \A x \in D : SumFunctionOnSet(f, D) = f[x] + SumFunctionOnSet(f, D \ {x})
<1>1. PICK sum : AreSums(sum, f, D) /\ SumFunctionOnSet(f, D) = sum[D] /\ SumsOfNat(sum, f, D)
  <2>1. PICK sum : AreSums(sum, f, D) /\ SumFunctionOnSet(f, D) = sum[D]
    BY SumsExist
  <2>2. SumsOfNat(sum, f, D)
    BY <2>1, AnyOrder
  <2>. QED BY <2>1, <2>2
<1>2. ASSUME NEW E \in SUBSET D PROVE SumFunctionOnSet(f, E) = sum[E]
  <2>1. IsFiniteSet(E) /\ \A x \in E : f[x] \in Nat
    BY FS_Subset
  <2>2. PICK sub : AreSums(sub, f, E) /\ SumFunctionOnSet(f, E) = sub[E]
    BY <2>1, SumsExist
  <2>. DEFINE n == Cardinality(E)
              Done == {m \in Nat : \A S \in SUBSET E : Cardinality(S) =< m => sub[S] = sum[S]}
  <2>3. n \in Nat /\ \A S \in SUBSET E : IsFiniteSet(S) /\ Cardinality(S) \in Nat /\ Cardinality(S) =< n
    BY <2>1, FS_Subset, FS_CardinalityType
  <2>4. /\ sub[{}] = 0 /\ sum[{}] = 0
        /\ \A S \in SUBSET E : S # {} => /\ Picked(S) \in S
                                        /\ sub[S] = f[Picked(S)] + sub[S \ {Picked(S)}]
                                        /\ sum[S] = f[Picked(S)] + sum[S \ {Picked(S)}]
    BY <1>1, <2>2 DEF AreSums, Picked
  <2>5. 0 \in Done
    <3>1. \A S \in SUBSET E : Cardinality(S) =< 0 => S = {}
      BY <2>3, FS_EmptySet
    <3>. QED BY <2>4, <3>1
  <2>6. ASSUME NEW m \in 0 .. n - 1, m \in Done PROVE m + 1 \in Done
    <3>1. ASSUME NEW S \in SUBSET E, Cardinality(S) =< m + 1, S # {} PROVE sub[S] = sum[S]
      <4>1. PICK c \in S : sub[S] = f[c] + sub[S \ {c}] /\ sum[S] = f[c] + sum[S \ {c}]
        BY <2>4, <3>1
      <4>2. S \ {c} \in SUBSET E /\ Cardinality(S \ {c}) =< m
        <5>1. Cardinality(S \ {c}) = Cardinality(S) - 1
          BY <2>3, <4>1, FS_RemoveElement
        <5>. QED BY <2>3, <3>1, <5>1
      <4>3. sub[S \ {c}] = sum[S \ {c}]
        BY <2>6, <4>2
      <4>. QED BY <4>1, <4>3
    <3>2. \A S \in SUBSET E : Cardinality(S) =< m + 1 => sub[S] = sum[S]
      BY <2>4, <3>1
    <3>. QED BY <3>2
  <2>7. \A i \in 0 .. n : i \in Done
    <3>. HIDE DEF Done, n
    <3>. QED BY <2>3, <2>5, <2>6, CountingUp
  <2>. QED BY <2>2, <2>3, <2>7
<1>3. SumFunctionOnSet(f, {}) = sum[{}] /\ \A x \in D : SumFunctionOnSet(f, D \ {x}) = sum[D \ {x}]
  BY <1>2
<1>4. /\ sum[{}] = 0 /\ sum[D] \in Nat
      /\ \A x \in D : sum[D] = f[x] + sum[D \ {x}]
  BY <1>1 DEF SumsOfNat
<1>. QED BY <1>1, <1>3, <1>4

\* The sizes of the messages of a corpus, and the bytes of its first r messages.
Sizes(case) == [index \in 0 .. CorpusSize - 1 |-> CorpusBytes(case, index)]
FirstBytes(case, r) == SumFunctionOnSet(Sizes(case), 0 .. r - 1)

\* A number has at least one digit: to_string does not give an empty text.
LEMMA DigitsAreSome ==
    ASSUME NEW n
    PROVE  Len(ToDigits(n)) \in Nat
<1>. DEFINE W == {1} \cup {w \in 2 .. 10 : n >= 10 ^ (w - 1)}
<1>1. W \in SUBSET (0 .. 10) /\ W # {}
  OBVIOUS
<1>2. Max(W) \in W
  <2>. HIDE DEF W
  <2>. QED BY <1>1, GreatestNumber
<1>3. Max(W) \in Nat
  BY <1>1, <1>2
<1>. DEFINE width == Max(W)
            digits == [k \in 1 .. width |-> (n \div 10 ^ (width - k)) % 10]
<1>4. ToDigits(n) = digits
  BY DEF ToDigits
<1>. HIDE DEF W
<1>5. DOMAIN digits = 1 .. width /\ width \in Nat
  BY <1>3
<1>6. digits = [k \in 1 .. width |-> digits[k]]
  OBVIOUS
<1>. HIDE DEF digits, width
<1>7. Len(digits) \in Nat
  BY <1>5, <1>6
<1>. QED BY <1>4, <1>7

\* Every message has a size.
LEMMA SizeOfMessage ==
    ASSUME NEW case, NEW index \in Nat
    PROVE  CorpusBytes(case, index) \in Nat
<1>. DEFINE fields == [field \in 1 .. 10 |-> 1 + Varint[IntegerKind(case, index, field)]]
            symbol == SymbolBytes(case, index)
<1>1. \A field \in 1 .. 10 : IntegerKind(case, index, field) \in {"small", "million", "large", "negative"}
  <2>1. ASSUME NEW field \in 1 .. 10
        PROVE  <<"negative", "small", "million", "large">>[((index + field) % 4) + 1]
                    \in {"small", "million", "large", "negative"}
    <3>1. ((index + field) % 4) \in 0 .. 3
      OBVIOUS
    <3>2. PICK k \in 1 .. 4 : k = ((index + field) % 4) + 1
      BY <3>1
    <3>3. k = 1 \/ k = 2 \/ k = 3 \/ k = 4
      OBVIOUS
    <3>4. <<"negative", "small", "million", "large">>[k] \in {"small", "million", "large", "negative"}
      BY <3>3
    <3>. QED BY <3>2, <3>4
  <2>. QED BY <2>1 DEF IntegerKind
<1>2. \A field \in 1 .. 10 : fields[field] \in Nat
  <2>1. \A kind \in {"small", "million", "large", "negative"} : 1 + Varint[kind] \in Nat
    BY DEF Varint
  <2>. QED BY <1>1, <2>1
<1>3. SumFunction(fields) \in Nat
  <2>1. DOMAIN fields = 1 .. 10
    OBVIOUS
  <2>3. IsFiniteSet(1 .. 10)
    <3>1. \A a, b \in Int : IsFiniteSet(a .. b)
      BY FS_Interval
    <3>2. 1 \in Int /\ 10 \in Int
      OBVIOUS
    <3>. QED BY <3>1, <3>2, Zenon
  <2>2. SumFunction(fields) = SumFunctionOnSet(fields, 1 .. 10)
    BY <2>1 DEF SumFunction
  <2>. HIDE DEF fields
  <2>. QED BY <1>2, <2>2, <2>3, Summing
<1>4. symbol \in Nat
  BY DigitsAreSome DEF SymbolBytes
<1>5. CorpusBytes(case, index) = 1 + (IF symbol < 128 THEN 1 ELSE 2) + symbol + SumFunction(fields)
  BY DEF CorpusBytes
<1>. HIDE DEF fields, symbol
<1>. QED BY <1>3, <1>4, <1>5

\* The bytes of the first messages grow by the size of the next one.
LEMMA FirstBytesFacts ==
    ASSUME NEW case, CorpusSize \in Nat
    PROVE  /\ FirstBytes(case, 0) = 0
           /\ FirstBytes(case, CorpusSize) = SumFunction(Sizes(case))
           /\ \A r \in 0 .. CorpusSize : FirstBytes(case, r) \in Nat
           /\ \A r \in 0 .. CorpusSize - 1 :
                /\ Sizes(case)[r] = CorpusBytes(case, r) /\ Sizes(case)[r] \in Nat
                /\ FirstBytes(case, r + 1) = FirstBytes(case, r) + Sizes(case)[r]
<1>. DEFINE f == Sizes(case)
<1>1. DOMAIN f = 0 .. CorpusSize - 1 /\ \A r \in 0 .. CorpusSize - 1 : f[r] = CorpusBytes(case, r) /\ f[r] \in Nat
  BY SizeOfMessage DEF Sizes
<1>. HIDE DEF f
<1>2. FirstBytes(case, CorpusSize) = SumFunction(f)
  BY <1>1 DEF FirstBytes, SumFunction, f
<1>3. SumFunctionOnSet(f, {}) = 0 /\ 0 .. 0 - 1 = {}
  BY Summing, FS_EmptySet
<1>4. ASSUME NEW r \in 0 .. CorpusSize PROVE FirstBytes(case, r) \in Nat
  <2>1. IsFiniteSet(0 .. r - 1) /\ \A x \in 0 .. r - 1 : f[x] \in Nat
    <3>1. r - 1 \in Int /\ \A x \in 0 .. r - 1 : x \in 0 .. CorpusSize - 1
      OBVIOUS
    <3>2. \A a, b \in Int : IsFiniteSet(a .. b)
      BY FS_Interval
    <3>. QED BY <1>1, <3>1, <3>2
  <2>2. SumFunctionOnSet(f, 0 .. r - 1) \in Nat
    BY <2>1, Summing
  <2>. QED BY <2>2 DEF FirstBytes, f
<1>5. ASSUME NEW r \in 0 .. CorpusSize - 1 PROVE FirstBytes(case, r + 1) = FirstBytes(case, r) + f[r]
  <2>1. IsFiniteSet(0 .. r) /\ (\A x \in 0 .. r : f[x] \in Nat) /\ r \in 0 .. r /\ (r + 1) - 1 = r
    BY <1>1, FS_Interval
  <2>2. SumFunctionOnSet(f, 0 .. r) = f[r] + SumFunctionOnSet(f, (0 .. r) \ {r})
    BY <2>1, Summing
  <2>3. (0 .. r) \ {r} = 0 .. r - 1
    OBVIOUS
  <2>4. FirstBytes(case, r + 1) = f[r] + FirstBytes(case, r)
    BY <2>1, <2>2, <2>3 DEF FirstBytes, f
  <2>. QED BY <1>1, <1>4, <2>4
<1>. QED BY <1>1, <1>2, <1>3, <1>4, <1>5 DEF FirstBytes, f

\* A part of the corpus has no more than as many of the largest size, and no less than of the
\* smallest.
LEMMA PartOfCorpus ==
    ASSUME NEW case, CorpusSize \in Nat \ {0}, NEW least \in Nat, NEW most \in Nat,
           \A r \in 0 .. CorpusSize - 1 : least =< Sizes(case)[r] /\ Sizes(case)[r] =< most,
           NEW b \in 0 .. CorpusSize
    PROVE  \A a \in 0 .. b : /\ (b - a) * least =< FirstBytes(case, b) - FirstBytes(case, a)
                             /\ FirstBytes(case, b) - FirstBytes(case, a) =< (b - a) * most
<1>. DEFINE F(r) == FirstBytes(case, r)
            Done == {j \in 0 .. CorpusSize : \A a \in 0 .. j : /\ (j - a) * least =< F(j) - F(a)
                                                              /\ F(j) - F(a) =< (j - a) * most}
<1>1. 0 \in Done
  BY FirstBytesFacts
<1>2. ASSUME NEW j \in 0 .. CorpusSize - 1, j \in Done PROVE j + 1 \in Done
  <2>1. PICK size \in Nat : F(j + 1) = F(j) + size /\ least =< size /\ size =< most
    BY FirstBytesFacts
  <2>2. ASSUME NEW a \in 0 .. j + 1
        PROVE  (j + 1 - a) * least =< F(j + 1) - F(a) /\ F(j + 1) - F(a) =< (j + 1 - a) * most
    <3>1. F(j + 1) \in Nat /\ F(j) \in Nat /\ F(a) \in Nat
      BY FirstBytesFacts
    <3>2. CASE a = j + 1
      BY <3>1, <3>2
    <3>3. CASE a # j + 1
      <4>1. a \in 0 .. j
        BY <3>3
      <4>2. (j - a) * least =< F(j) - F(a) /\ F(j) - F(a) =< (j - a) * most
        BY <1>2, <4>1
      <4>. HIDE DEF F
      <4>3. (j + 1 - a) * least = (j - a) * least + least /\ (j + 1 - a) * most = (j - a) * most + most
        BY <4>1
      <4>4. PICK x \in Int, y \in Int : x = (j - a) * least /\ y = (j - a) * most
        BY <4>1
      <4>. QED BY <2>1, <3>1, <4>2, <4>3, <4>4
    <3>. QED BY <3>2, <3>3
  <2>. HIDE DEF F
  <2>. QED BY <2>2
<1>3. \A j \in 0 .. CorpusSize : j \in Done
  <2>. HIDE DEF Done
  <2>. QED BY <1>1, <1>2, CountingUp
<1>. QED BY <1>3

\* What an unfinished corpus moves the mean by: r of n messages, with p bytes, and the rest with q.
LEMMA Spread ==
    ASSUME NEW n \in Nat, NEW r \in 0 .. n, NEW least \in Nat, NEW most \in Nat, least =< most,
           NEW p \in Nat, NEW q \in Nat, r * least =< p, p =< r * most, (n - r) * least =< q, q =< (n - r) * most
    PROVE  LET distance == n * p - r * (p + q)
           IN /\ 4 * distance =< n * n * (most - least)
              /\ -4 * distance =< n * n * (most - least)
<1>. DEFINE s == n - r  d == most - least
<1>1. s \in Nat /\ n = r + s
  OBVIOUS
<1>2. n * p - r * (p + q) = s * p - r * q
  <2>. HIDE DEF s
  <2>. QED BY <1>1
<1>3. s * p =< s * (r * most) /\ r * (s * least) =< r * q
  <2>. HIDE DEF s
  <2>1. \A a, b, c \in Nat : a =< b => c * a =< c * b
    OBVIOUS
  <2>. QED BY <1>1, <2>1 DEF s
<1>4. s * (r * least) =< s * p /\ r * q =< r * (s * most)
  <2>. HIDE DEF s
  <2>1. \A a, b, c \in Nat : a =< b => c * a =< c * b
    OBVIOUS
  <2>. QED BY <1>1, <2>1 DEF s
<1>5. 4 * (r * s) =< n * n
  <2>. HIDE DEF s
  <2>1. n * n = (r - s) * (r - s) + 4 * (r * s)
    BY <1>1
  <2>2. \A z \in Int : z * z >= 0
    OBVIOUS
  <2>3. PICK x \in Int, y \in Int : x = (r - s) * (r - s) /\ y = r * s /\ x >= 0
    BY <1>1, <2>2
  <2>. QED BY <2>1, <2>3
<1>6. /\ s * p - r * q =< (r * s) * d
      /\ r * q - s * p =< (r * s) * d
  <2>. HIDE DEF s, d
  <2>1. (r * s) * d = s * (r * most) - r * (s * least)
    <3>. HIDE DEF s
    <3>. QED BY <1>1 DEF d
  <2>2. (r * s) * d = r * (s * most) - s * (r * least)
    <3>. HIDE DEF s
    <3>. QED BY <1>1 DEF d
  <2>3. PICK x1 \in Int, x2 \in Int, y1 \in Int, y2 \in Int, z \in Int, u \in Int, v \in Int :
            /\ x1 = s * (r * most) /\ x2 = r * (s * least) /\ y1 = r * (s * most) /\ y2 = s * (r * least)
            /\ z = (r * s) * d /\ u = s * p /\ v = r * q
    BY <1>1 DEF d
  <2>. QED BY <1>3, <1>4, <2>1, <2>2, <2>3
<1>7. 0 =< d => 4 * ((r * s) * d) =< n * n * d
  <2>. HIDE DEF s, d
  <2>1. ASSUME 0 =< d PROVE (4 * (r * s)) * d =< (n * n) * d
    <3>1. \A a, b, c \in Nat : a =< b => a * c =< b * c
      OBVIOUS
    <3>2. d \in Nat
      BY <2>1 DEF d
    <3>. QED BY <1>1, <1>5, <3>1, <3>2
  <2>2. (4 * (r * s)) * d = 4 * ((r * s) * d)
    BY <1>1 DEF d
  <2>. QED BY <2>1, <2>2
<1>8. 0 =< d
  OBVIOUS
<1>. QED BY <1>1, <1>2, <1>6, <1>7, <1>8 DEF d

-------------------------------------------------------------------------------
(* The state *)

\* The frame of the message.
Frame(id) == Prefix(id) \o Payload

\* What the concatenation of two sequences of bytes is.
LEMMA Concatenation ==
    ASSUME NEW B, NEW p \in Seq(B), NEW q \in Seq(B)
    PROVE  /\ p \o q \in Seq(B) /\ Len(p \o q) = Len(p) + Len(q)
           /\ \A k \in 1 .. Len(p) : (p \o q)[k] = p[k]
           /\ \A k \in 1 .. Len(q) : (p \o q)[Len(p) + k] = q[k]
  OBVIOUS

\* A frame is eight bytes long: the prefix of six and the message.
LEMMA FrameFacts ==
    ASSUME NEW id \in Nat
    PROVE  /\ Prefix(id) \in Seq(0 .. 255) /\ Len(Prefix(id)) = 6
           /\ Payload \in Seq(0 .. 255) /\ Len(Payload) = 2
           /\ Frame(id) \in Seq(0 .. 255) /\ Len(Frame(id)) = 8
           /\ \A k \in 1 .. 6 : Frame(id)[k] = Prefix(id)[k]
           /\ Frame(id)[7] = Payload[1] /\ Frame(id)[8] = Payload[2]
<1>1. Payload \in Seq(0 .. 255) /\ Len(Payload) = 2
  BY DEF Payload
<1>2. Prefix(id) \in Seq(0 .. 255) /\ Len(Prefix(id)) = 6
  <2>1. \A x \in Nat : (x % 256) \in 0 .. 255
    OBVIOUS
  <2>2. 2 ^ 24 \in Nat \ {0} /\ 2 ^ 16 \in Nat \ {0} /\ 2 ^ 8 \in Nat \ {0}
    BY SMT
  <2>3. \A n \in Nat \ {0} : id \div n \in Nat
    OBVIOUS
  <2>. DEFINE a == ((id \div 2 ^ 24) % 256)  b == ((id \div 2 ^ 16) % 256)
              c == ((id \div 2 ^ 8) % 256)  d == (id % 256)
  <2>4. {a, b, c, d} \subseteq 0 .. 255
    BY <2>1, <2>2, <2>3
  <2>5. Prefix(id) = <<0, a, b, c, d, 0>>
    BY DEF Prefix
  <2>. HIDE DEF a, b, c, d
  <2>. QED BY <2>4, <2>5
<1>. DEFINE B == 0 .. 255
<1>3. PICK p \in Seq(B), q \in Seq(B) : p = Prefix(id) /\ q = Payload /\ Len(p) = 6 /\ Len(q) = 2
  BY <1>1, <1>2
<1>. HIDE DEF B
<1>4. /\ p \o q \in Seq(B) /\ Len(p \o q) = 8
      /\ \A k \in 1 .. 6 : (p \o q)[k] = p[k]
      /\ (p \o q)[7] = q[1] /\ (p \o q)[8] = q[2]
  <2>0. /\ p \o q \in Seq(B) /\ Len(p \o q) = Len(p) + Len(q)
        /\ \A k \in 1 .. Len(p) : (p \o q)[k] = p[k]
        /\ \A k \in 1 .. Len(q) : (p \o q)[Len(p) + k] = q[k]
    BY Concatenation
  <2>1. /\ p \o q \in Seq(B) /\ Len(p \o q) = 6 + 2
        /\ \A k \in 1 .. 6 : (p \o q)[k] = p[k]
        /\ \A k \in 1 .. 2 : (p \o q)[6 + k] = q[k]
    BY <1>3, <2>0, Zenon
  <2>4. 1 \in 1 .. 2 /\ 2 \in 1 .. 2 /\ 6 + 1 = 7 /\ 6 + 2 = 8
    OBVIOUS
  <2>5. (p \o q)[7] = q[1] /\ (p \o q)[8] = q[2]
    BY <2>1, <2>4
  <2>. QED BY <2>1, <2>4, <2>5, Zenon
<1>5. Frame(id) = p \o q
  BY <1>3 DEF Frame
<1>. QED BY <1>1, <1>2, <1>3, <1>4, <1>5 DEF B

\* The bytes of source go to places at + 1 and on of a buffer, which keeps its length.
Copied(c, target, at, source) ==
    /\ c \in Seq(0 .. 255) /\ Len(c) = Len(target)
    /\ \A k \in 1 .. Len(target) :
        c[k] = IF k - at \in 1 .. Len(source) THEN source[k - at] ELSE target[k]

\* CopyTo copies: the source lies in the target, the rest of which stays.
LEMMA CopyFacts ==
    ASSUME NEW target \in Seq(0 .. 255), NEW source \in Seq(0 .. 255), NEW at \in Nat
    PROVE  Copied(CopyTo(target, at, source), target, at, source)
<1>. DEFINE c == CopyTo(target, at, source)  B == 0 .. 255
<1>1. c = [k \in 1 .. Len(target) |-> IF k - at \in 1 .. Len(source) THEN source[k - at] ELSE target[k]]
  BY DEF CopyTo
<1>. HIDE DEF c
<1>2. target \in Seq(B) /\ source \in Seq(B)
  OBVIOUS
<1>. HIDE DEF B
<1>3. \A k \in 1 .. Len(target) : c[k] \in B
  <2>1. (\A k \in 1 .. Len(target) : target[k] \in B) /\ (\A k \in 1 .. Len(source) : source[k] \in B)
    BY <1>2
  <2>. QED BY <1>1, <2>1
<1>4. Len(target) \in Nat /\ c \in [1 .. Len(target) -> B]
  BY <1>1, <1>2, <1>3
<1>5. c \in Seq(B) /\ Len(c) = Len(target)
  <2>1. PICK n \in Nat : n = Len(target)
    BY <1>4
  <2>2. c \in [1 .. n -> B]
    BY <1>4, <2>1
  <2>3. c \in Seq(B) /\ Len(c) = n
    BY <2>2
  <2>. QED BY <2>1, <2>3
<1>. QED BY <1>1, <1>5 DEF c, B, Copied

\* Whatever is in it, a buffer that fits holds the frame after an encode.
LEMMA FrameInPlace ==
    ASSUME NEW target \in Seq(0 .. 255), Len(target) = 8, NEW id \in Nat
    PROVE  CopyTo(CopyTo(target, 0, Prefix(id)), 6, Payload) = Frame(id)
<1>. DEFINE once == CopyTo(target, 0, Prefix(id))  twice == CopyTo(once, 6, Payload)
<1>0. 0 \in Nat /\ 6 \in Nat
  OBVIOUS
<1>1. Copied(once, target, 0, Prefix(id))
  BY <1>0, FrameFacts, CopyFacts
<1>. HIDE DEF once
<1>2. once \in Seq(0 .. 255) /\ Len(once) = 8
  BY <1>1 DEF Copied
<1>3. Copied(twice, once, 6, Payload)
  BY <1>0, <1>2, FrameFacts, CopyFacts
<1>. HIDE DEF twice
<1>4. twice \in Seq(0 .. 255) /\ Len(twice) = 8
  BY <1>2, <1>3 DEF Copied
<1>5. \A k \in 1 .. 6 : twice[k] = Frame(id)[k]
  <2>1. Len(Prefix(id)) = 6 /\ Len(Payload) = 2 /\ \A k \in 1 .. 6 : Frame(id)[k] = Prefix(id)[k]
    BY FrameFacts
  <2>2. \A k \in 1 .. 6 : once[k] = Prefix(id)[k]
    <3>1. \A k \in 1 .. 6 : k \in 1 .. 8 /\ k - 0 \in 1 .. 6 /\ k - 0 = k
      OBVIOUS
    <3>. QED BY <1>1, <2>1, <3>1 DEF Copied
  <2>3. \A k \in 1 .. 6 : twice[k] = once[k]
    <3>1. \A k \in 1 .. 6 : k \in 1 .. 8 /\ k - 6 \notin 1 .. 2
      OBVIOUS
    <3>. QED BY <1>2, <1>3, <2>1, <3>1 DEF Copied
  <2>. QED BY <2>1, <2>2, <2>3
<1>6. twice[7] = Frame(id)[7] /\ twice[8] = Frame(id)[8]
  <2>1. Len(Payload) = 2 /\ Frame(id)[7] = Payload[1] /\ Frame(id)[8] = Payload[2]
    BY FrameFacts
  <2>2. 7 \in 1 .. 8 /\ 8 \in 1 .. 8 /\ 7 - 6 = 1 /\ 8 - 6 = 2 /\ 1 \in 1 .. 2 /\ 2 \in 1 .. 2
    OBVIOUS
  <2>3. twice[7] = Payload[1] /\ twice[8] = Payload[2]
    BY <1>2, <1>3, <2>1, <2>2 DEF Copied
  <2>. QED BY <2>1, <2>3
<1>7. \A k \in 1 .. 8 : twice[k] = Frame(id)[k]
  <2>1. \A k \in 1 .. 8 : k \in 1 .. 6 \/ k = 7 \/ k = 8
    OBVIOUS
  <2>. QED BY <1>5, <1>6, <2>1
<1>8. Frame(id) \in Seq(0 .. 255) /\ Len(Frame(id)) = 8
  BY FrameFacts
<1>9. \A s \in Seq(0 .. 255) : Len(s) = 8 => s = [k \in 1 .. 8 |-> s[k]]
  OBVIOUS
<1>10. twice = Frame(id)
  <2>1. twice = [k \in 1 .. 8 |-> twice[k]] /\ Frame(id) = [k \in 1 .. 8 |-> Frame(id)[k]]
    BY <1>4, <1>8, <1>9
  <2>. QED BY <1>7, <2>1
<1>. QED BY <1>10 DEF twice, once

\* The arguments are checked before anything else, and the first path is the first.
Checked ==
    /\ pc \notin {"args", "failed"} =>
            config.iterations >= MinIterations /\ config.repetitions >= MinRepetitions
    /\ pc \in {"args", "open"} => path = 1

\* A path has made its samples, and a buffer for the paths that do not make one of their own.
Prepared ==
    /\ program = "latency" /\ pc \in {"repetition", "loop"} => Len(samples) = config.iterations
    /\ program = "framing" =>
        /\ pc \in {"repetition", "loop"} /\ FramingLabel(path) # "cached_serializer_string" => Len(buffer) = 8
        /\ pc = "build" /\ FramingLabel(path) = "cached_id_framed_with_copy" => Len(buffer) = 8

\* What holds of a run of any of the programs.
RunInv == TypeOK /\ Checked /\ Prepared

\* What the assumption says of each constant.
LEMMA ConstantFacts ==
    /\ Iterations \subseteq Nat /\ Repetitions \subseteq Nat /\ Warmups \subseteq Nat /\ SchemaIds \subseteq Nat
    /\ MinIterations \in Nat \ {0} /\ MinRepetitions \in Nat \ {0} /\ CorpusSize \in Nat \ {0}
    /\ Samples \subseteq Nat /\ 0 \in Samples
  BY MeasuredAssumption

\* What the constants, the configuration and the program give.
LEMMA RunFacts ==
    ASSUME RunInv
    PROVE  /\ config.iterations \in Nat /\ config.repetitions \in Nat /\ config.id \in Nat
           /\ config.warmups \in Nat /\ MinIterations \in Nat \ {0} /\ MinRepetitions \in Nat \ {0}
           /\ pc \notin {"args", "failed"} => config.iterations >= 1 /\ config.repetitions >= 1
           /\ Len(Paths[program]) \in Nat \ {0} /\ DOMAIN Paths[program] = 1 .. Len(Paths[program])
           /\ path \in 1 .. Len(Paths[program]) /\ iteration \in Nat
<1>1. /\ config.iterations \in Nat /\ config.repetitions \in Nat /\ config.id \in Nat /\ config.warmups \in Nat
      /\ MinIterations \in Nat \ {0} /\ MinRepetitions \in Nat \ {0}
  <2>1. /\ config.iterations \in Iterations /\ config.repetitions \in Repetitions
        /\ config.warmups \in Warmups /\ config.id \in SchemaIds
    BY DEF RunInv, TypeOK
  <2>. QED BY <2>1, ConstantFacts
<1>2. Len(Paths[program]) \in Nat \ {0} /\ DOMAIN Paths[program] = 1 .. Len(Paths[program])
  BY PathsDistinct DEF RunInv, TypeOK
<1>3. path \in 1 .. Len(Paths[program]) /\ iteration \in Nat
  BY <1>1, <1>2 DEF RunInv, TypeOK
<1>4. pc \notin {"args", "failed"} => config.iterations >= 1 /\ config.repetitions >= 1
  BY <1>1 DEF RunInv, Checked
<1>. QED BY <1>1, <1>2, <1>3, <1>4

\* A framing path has one of three labels, by its place within its case.
LEMMA FramingFacts ==
    /\ Len(FramingPaths) = 9
    /\ \A k \in 1 .. 9 : /\ FramingPaths[k].label[1] = FramingLabel(k)
                         /\ FramingLabel(k) \in {"cached_id_framed_in_place", "cached_id_framed_with_copy",
                                                 "cached_serializer_string"}
    /\ FramingLabel(1) # "cached_id_framed_with_copy"
    /\ \A k \in 1 .. 8 : FramingLabel(k + 1) = "cached_id_framed_with_copy"
                            => FramingLabel(k) = "cached_id_framed_in_place"
<1>1. Len(FramingPaths) = 9 /\ \A k \in 1 .. 9 : FramingPaths[k].label[1] = FramingLabel(k)
  BY FramingDistinct DEF DistinctPaths, IsList
<1>2. ((1 - 1) % 3) + 1 = 1
  OBVIOUS
<1>3. /\ ((1 - 1) % 3) + 1 = 1 /\ ((2 - 1) % 3) + 1 = 2 /\ ((3 - 1) % 3) + 1 = 3 /\ ((4 - 1) % 3) + 1 = 1
      /\ ((5 - 1) % 3) + 1 = 2 /\ ((6 - 1) % 3) + 1 = 3 /\ ((7 - 1) % 3) + 1 = 1
      /\ ((8 - 1) % 3) + 1 = 2 /\ ((9 - 1) % 3) + 1 = 3
  OBVIOUS
<1>. DEFINE a == "cached_id_framed_in_place"  b == "cached_id_framed_with_copy"  c == "cached_serializer_string"
<1>4. /\ FramingLabel(1) = a /\ FramingLabel(2) = b /\ FramingLabel(3) = c
      /\ FramingLabel(4) = a /\ FramingLabel(5) = b /\ FramingLabel(6) = c
      /\ FramingLabel(7) = a /\ FramingLabel(8) = b /\ FramingLabel(9) = c
  BY <1>3 DEF FramingLabel
<1>5. \A k \in 1 .. 9 : k = 1 \/ k = 2 \/ k = 3 \/ k = 4 \/ k = 5 \/ k = 6 \/ k = 7 \/ k = 8 \/ k = 9
  OBVIOUS
<1>6. \A k \in 1 .. 9 : FramingLabel(k) \in {a, b, c}
  BY <1>4, <1>5
<1>7. \A k \in 1 .. 8 : FramingLabel(k + 1) = b => FramingLabel(k) = a
  <2>1. ASSUME NEW k \in 1 .. 8, FramingLabel(k + 1) = b PROVE FramingLabel(k) = a
    <3>1. k = 1 \/ k = 2 \/ k = 3 \/ k = 4 \/ k = 5 \/ k = 6 \/ k = 7 \/ k = 8
      OBVIOUS
    <3>. QED BY <1>4, <2>1, <3>1
  <2>. QED BY <2>1
<1>. QED BY <1>1, <1>4, <1>6, <1>7

\* It holds at the start.
LEMMA RunInit == Init => RunInv
<1>. SUFFICES ASSUME Init PROVE RunInv
  OBVIOUS
<1>0. config \in [iterations : Iterations, repetitions : Repetitions, warmups : Warmups, id : SchemaIds]
  BY DEF Init
<1>1. config.iterations \in Nat /\ program \in Programs
  BY <1>0, ConstantFacts DEF Init
<1>2. 1 \in DOMAIN Paths[program] /\ 0 \in 0 .. config.iterations
  <2>1. \A n \in Nat \ {0} : 1 \in 1 .. n
    OBVIOUS
  <2>. QED BY <1>1, <2>1, PathsDistinct
<1>3. TypeOK
  BY <1>0, <1>1, <1>2 DEF Init, TypeOK
<1>. QED BY <1>3 DEF Init, RunInv, Checked, Prepared

\* A percentile is at the index of one of the samples, if there are any: more than the fraction of
\* them are up to there, and at most the fraction are before.
LEMMA IndexFacts ==
    ASSUME Len(samples) \in Nat \ {0}, NEW fraction \in Nat, fraction < 10000
    PROVE  /\ PercentileIndex(fraction) \in 0 .. Len(samples) - 1
           /\ 10000 * (PercentileIndex(fraction) + 1) > fraction * Len(samples)
           /\ 10000 * PercentileIndex(fraction) =< fraction * Len(samples)
<1>. DEFINE l == Len(samples)  z == l * fraction  q == z \div 10000  n == PercentileIndex(fraction)
<1>1. l \in Nat \ {0} /\ z \in Nat /\ fraction * l = z /\ z < 10000 * l
  <2>. HIDE DEF l
  <2>1. l \in Nat \ {0}
    BY DEF l
  <2>. QED BY <2>1
<1>2. n = Min({l - 1, q})
  BY DEF PercentileIndex
<1>. HIDE DEF l, z, n
<1>3. q \in Nat /\ 10000 * q =< z /\ z < 10000 * (q + 1)
  BY <1>1
<1>. HIDE DEF q
<1>4. n \in {l - 1, q} /\ n =< l - 1 /\ n =< q
  <2>. DEFINE T == {l - 1, q}
  <2>1. T \in SUBSET Nat /\ T # {}
    BY <1>1, <1>3
  <2>. HIDE DEF T
  <2>2. Min(T) \in T /\ \A m \in T : Min(T) =< m
    BY <2>1, LeastNumber
  <2>. QED BY <1>2, <2>2 DEF T
<1>5. n \in 0 .. l - 1 /\ 10000 * (n + 1) > fraction * l /\ 10000 * n =< fraction * l
  BY <1>1, <1>3, <1>4
<1>. QED BY <1>5 DEF n, l

\* The fractions of the percentiles are proper ones.
LEMMA FractionFacts ==
    /\ Len(Fractions) = 5 /\ DOMAIN Fractions = 1 .. 5
    /\ \A k \in 1 .. 5 : Fractions[k] \in Nat /\ Fractions[k] < 10000
<1>1. \A k \in 1 .. 5 : k = 1 \/ k = 2 \/ k = 3 \/ k = 4 \/ k = 5
  OBVIOUS
<1>2. /\ Len(Fractions) = 5 /\ DOMAIN Fractions = 1 .. 5
      /\ Fractions[1] = 5000 /\ Fractions[2] = 9000 /\ Fractions[3] = 9900 /\ Fractions[4] = 9990
      /\ Fractions[5] = 9999
  BY DEF Fractions
<1>. QED BY <1>1, <1>2

\* A list of zeros is a list.
LEMMA ZerosFacts ==
    ASSUME NEW n \in Nat, NEW S, 0 \in S
    PROVE  Zeros(n) \in Seq(S) /\ Len(Zeros(n)) = n
  BY DEF Zeros

\* Building a path leaves samples and a buffer of the right lengths.
LEMMA BuildStep ==
    ASSUME RunInv, BuildAndWarmUp PROVE RunInv'
<1>. USE DEF BuildAndWarmUp
<1>1. UNCHANGED <<program, config, path, repetition, rows, iteration, checksum, bytes, total, quantiles>>
  OBVIOUS
<1>2. pc = "build" /\ pc' = "repetition"
  OBVIOUS
<1>3. samples' \in Seq(Samples) /\ (program = "latency" => Len(samples') = config.iterations)
  <2>1. CASE program = "latency"
    <3>1. samples' = Zeros(config.iterations) /\ config.iterations \in Nat /\ 0 \in Samples
      BY <2>1, RunFacts, ConstantFacts
    <3>. QED BY <3>1, ZerosFacts
  <2>2. CASE program # "latency"
    BY <2>2 DEF RunInv, TypeOK
  <2>. QED BY <2>1, <2>2
<1>4. allocations' \in Nat
  <2>1. AllocationsPerEncode \in Nat /\ config.warmups \in Nat /\ allocations \in Nat
    BY RunFacts DEF AllocationsPerEncode, RunInv, TypeOK
  <2>2. allocations + 1 + config.warmups * AllocationsPerEncode \in Nat
    BY <2>1
  <2>. QED BY <2>1, <2>2
<1>5. /\ buffer' \in Seq(0 .. 255)
      /\ program = "framing" /\ FramingLabel(path) # "cached_serializer_string" => Len(buffer') = 8
  <2>1. buffer \in Seq(0 .. 255)
    BY DEF RunInv, TypeOK
  <2>2. CASE program = "framing"
    <3>1. Current.label[1] = FramingLabel(path) /\ path \in 1 .. 9
      BY <2>2, RunFacts, FramingFacts DEF Current, Paths
    <3>2. CASE FramingLabel(path) = "cached_id_framed_in_place"
      <4>1. 6 + Len(Payload) = 8 /\ config.id \in Nat
        <5>1. config.id \in Nat
          BY RunFacts
        <5>2. Len(Payload) = 2
          BY <5>1, FrameFacts
        <5>. QED BY <5>1, <5>2
      <4>. DEFINE zeros == Zeros(8)
      <4>2. zeros \in Seq(0 .. 255) /\ Len(zeros) = 8
        <5>1. 8 \in Nat /\ 0 \in 0 .. 255
          OBVIOUS
        <5>. QED BY <5>1, ZerosFacts
      <4>. HIDE DEF zeros
      <4>3. buffer' = CopyTo(zeros, 0, Prefix(config.id))
        BY <2>2, <3>1, <3>2, <4>1 DEF BufferAtStart, zeros
      <4>4. Copied(buffer', zeros, 0, Prefix(config.id))
        <5>1. Prefix(config.id) \in Seq(0 .. 255) /\ 0 \in Nat
          BY <4>1, FrameFacts
        <5>. QED BY <4>2, <4>3, <5>1, CopyFacts
      <4>. QED BY <4>2, <4>4 DEF Copied
    <3>3. CASE FramingLabel(path) = "cached_id_framed_with_copy"
      <4>1. buffer' = buffer
        BY <2>2, <3>1, <3>3 DEF BufferAtStart
      <4>. QED BY <1>2, <2>1, <2>2, <3>3, <4>1 DEF RunInv, Prepared
    <3>4. CASE FramingLabel(path) = "cached_serializer_string"
      <4>1. buffer' = <<>>
        BY <2>2, <3>1, <3>4 DEF BufferAtStart
      <4>2. \A B : <<>> \in Seq(B)
        OBVIOUS
      <4>. QED BY <3>4, <4>1, <4>2, Zenon
    <3>5. \/ FramingLabel(path) = "cached_id_framed_in_place" \/ FramingLabel(path) = "cached_id_framed_with_copy"
          \/ FramingLabel(path) = "cached_serializer_string"
      BY <3>1, FramingFacts
    <3>. QED BY <3>2, <3>3, <3>4, <3>5
  <2>3. CASE program # "framing"
    BY <2>1, <2>3
  <2>. QED BY <2>2, <2>3
<1>6. TypeOK'
  BY <1>1, <1>2, <1>3, <1>4, <1>5 DEF RunInv, TypeOK
<1>7. Checked'
  BY <1>1, <1>2 DEF RunInv, Checked
<1>8. Prepared'
  BY <1>1, <1>2, <1>3, <1>5 DEF Prepared, FramingLabel
<1>. QED BY <1>6, <1>7, <1>8 DEF RunInv

\* An encode of a framing path leaves the frame in the buffer.
LEMMA EncodeFrames ==
    ASSUME RunInv, program = "framing", pc = "loop"
    PROVE  Framed(Current.label[1]) = Frame(config.id)
<1>1. Current.label[1] = FramingLabel(path)
  BY RunFacts, FramingFacts DEF Current, Paths
<1>2. CASE FramingLabel(path) = "cached_serializer_string"
  BY <1>1, <1>2 DEF Framed, Frame
<1>3. CASE FramingLabel(path) # "cached_serializer_string"
  <2>1. Len(buffer) = 8 /\ buffer \in Seq(0 .. 255) /\ config.id \in Nat
    BY <1>3, RunFacts DEF RunInv, Prepared, TypeOK
  <2>2. Framed(Current.label[1]) = CopyTo(CopyTo(buffer, 0, Prefix(config.id)), 6, Payload)
    BY <1>1, <1>3 DEF Framed
  <2>. QED BY <2>1, <2>2, FrameInPlace
<1>. QED BY <1>2, <1>3

\* What any of the encodes does.
LEMMA IterateFacts ==
    ASSUME RunInv, Iterate
    PROVE  /\ UNCHANGED <<program, config, pc, path, repetition, rows, quantiles>>
           /\ pc = "loop" /\ iteration' = iteration + 1 /\ iteration' \in 0 .. config.iterations
  BY RunFacts DEF Iterate

\* An encode of the encode benchmark has the size of its path; whatever yyjson reads has some size.
LEMMA SizeFacts ==
    ASSUME RunInv
    PROVE  EncodeSizes \subseteq Nat /\ (~KeysDangle(program, Current) => EncodeSizes = {path})
<1>1. path \in Nat /\ path + Len(EncodePaths) \in Nat
  <2>. DEFINE e == EncodePaths
  <2>1. e = [k \in 1 .. 36 |-> e[k]]
    BY EncodeDistinct DEF DistinctPaths, IsList
  <2>. HIDE DEF e
  <2>2. Len(e) = 36
    BY <2>1
  <2>. QED BY <2>2, RunFacts DEF e
<1>2. ASSUME NEW message PROVE YyjsonSizes(message) \subseteq Nat
  BY <1>1 DEF YyjsonSizes
<1>3. CASE KeysDangle(program, Current)
  BY <1>2, <1>3 DEF EncodeSizes
<1>4. CASE ~KeysDangle(program, Current)
  BY <1>1, <1>4 DEF EncodeSizes
<1>. QED BY <1>3, <1>4

\* An encode of one size keeps what holds of a run.
LEMMA SizeStep ==
    ASSUME RunInv, NEW size \in Nat, EncodeSize(size),
           buffer' = buffer \/ (buffer' \in Seq(0 .. 255) /\ Len(buffer') = 8)
    PROVE  RunInv'
<1>1. /\ UNCHANGED <<program, config, pc, path, repetition, rows, quantiles>>
      /\ pc = "loop" /\ iteration' \in 0 .. config.iterations
  BY IterateFacts DEF EncodeSize
<1>2. UNCHANGED <<total, allocations, samples>> /\ bytes' \in Nat /\ checksum' \in Nat
  BY DEF EncodeSize, RunInv, TypeOK
<1>3. TypeOK'
  BY <1>1, <1>2 DEF RunInv, TypeOK
<1>4. Checked'
  BY <1>1 DEF RunInv, Checked
<1>5. Prepared'
  BY <1>1, <1>2 DEF RunInv, Prepared, FramingLabel
<1>. QED BY <1>3, <1>4, <1>5 DEF RunInv

\* So does a timed encode, whose sample goes to a place of the samples.
LEMMA LatencyStep ==
    ASSUME RunInv, EncodeLatency PROVE RunInv'
<1>1. /\ UNCHANGED <<program, config, pc, path, repetition, rows, quantiles>>
      /\ pc = "loop" /\ iteration' \in 0 .. config.iterations /\ program = "latency"
  BY IterateFacts DEF EncodeLatency
<1>2. PICK sample \in Samples : samples' = [samples EXCEPT ![iteration + 1] = sample]
  BY DEF EncodeLatency
<1>3. samples' \in Seq(Samples) /\ Len(samples') = Len(samples)
  <2>1. samples \in Seq(Samples)
    BY DEF RunInv, TypeOK
  <2>2. PICK l \in Nat : l = Len(samples) /\ samples \in [1 .. l -> Samples]
    BY <2>1
  <2>3. samples' \in [1 .. l -> Samples]
    BY <1>2, <2>2
  <2>. QED BY <2>2, <2>3
<1>4. UNCHANGED <<total, buffer>> /\ {bytes', checksum', allocations'} \subseteq Nat
  <2>1. AllocationsPerEncode \in Nat
    BY DEF AllocationsPerEncode
  <2>2. path \in Nat
    BY RunFacts
  <2>3. allocations \in Nat /\ checksum \in Nat
    BY DEF RunInv, TypeOK
  <2>. QED BY <2>1, <2>2, <2>3 DEF EncodeLatency
<1>5. TypeOK'
  BY <1>1, <1>3, <1>4 DEF RunInv, TypeOK
<1>6. Checked'
  BY <1>1 DEF RunInv, Checked
<1>7. Prepared'
  BY <1>1, <1>3 DEF RunInv, Prepared
<1>. QED BY <1>5, <1>6, <1>7 DEF RunInv

\* So does an encode of a message of a corpus.
LEMMA DistributionStep ==
    ASSUME RunInv, EncodeDistribution PROVE RunInv'
<1>1. /\ UNCHANGED <<program, config, pc, path, repetition, rows, quantiles>>
      /\ pc = "loop" /\ iteration' \in 0 .. config.iterations /\ program = "distribution"
  BY IterateFacts DEF EncodeDistribution
<1>2. bytes' \in Nat
  <2>1. \A i \in Nat, n \in Nat \ {0} : (i % n) \in Nat
    OBVIOUS
  <2>2. (iteration % CorpusSize) \in Nat
    BY <2>1, RunFacts, ConstantFacts
  <2>. QED BY <2>2, SizeOfMessage DEF EncodeDistribution
<1>3. UNCHANGED <<allocations, samples, buffer>> /\ {checksum', total'} \subseteq Nat
  <2>1. checksum \in Nat /\ total \in Nat
    BY DEF RunInv, TypeOK
  <2>2. PICK size \in Nat : checksum' = checksum + 10 /\ total' = total + size
    BY <1>2 DEF EncodeDistribution
  <2>3. checksum' \in Nat /\ total' \in Nat
    BY <2>1, <2>2
  <2>. QED BY <2>3 DEF EncodeDistribution
<1>4. TypeOK'
  BY <1>1, <1>2, <1>3 DEF RunInv, TypeOK
<1>5. Checked'
  BY <1>1 DEF RunInv, Checked
<1>6. Prepared'
  BY <1>1 DEF Prepared
<1>. QED BY <1>4, <1>5, <1>6 DEF RunInv

\* So does a percentile: it reads the samples at an index they have.
LEMMA PercentileStep ==
    ASSUME RunInv, Percentile PROVE RunInv'
<1>1. /\ UNCHANGED <<program, config, pc, path, repetition, rows, iteration, checksum, bytes, total,
                     allocations, buffer>>
      /\ program = "latency" /\ pc = "loop"
  BY DEF Percentile
<1>. DEFINE fraction == Fractions[Len(quantiles) + 1]
            n == PercentileIndex(fraction)
<1>2. PICK reordered \in [DOMAIN samples -> Samples] :
        samples' = reordered /\ quantiles' = Append(quantiles, reordered[n + 1])
  BY DEF Percentile
<1>3. samples \in Seq(Samples) /\ quantiles \in Seq(Samples) /\ Len(samples) = config.iterations
  BY <1>1 DEF RunInv, TypeOK, Prepared
<1>4. Len(samples) \in Nat \ {0}
  BY <1>1, <1>3, RunFacts
<1>5. fraction \in Nat /\ fraction < 10000
  <2>1. Len(quantiles) < Len(Fractions) /\ Len(quantiles) \in Nat
    BY <1>3 DEF Percentile
  <2>2. Len(Fractions) = 5 /\ \A k \in 1 .. 5 : Fractions[k] \in Nat /\ Fractions[k] < 10000
    BY FractionFacts
  <2>3. PICK k \in 1 .. 5 : k = Len(quantiles) + 1
    <3>1. Len(quantiles) + 1 \in 1 .. 5
      BY <2>1, <2>2
    <3>. QED BY <3>1
  <2>. QED BY <2>2, <2>3
<1>. HIDE DEF fraction
<1>6. n \in 0 .. Len(samples) - 1
  BY <1>4, <1>5, IndexFacts
<1>. HIDE DEF n
<1>7. samples' \in Seq(Samples) /\ Len(samples') = Len(samples)
  <2>1. PICK l \in Nat : l = Len(samples) /\ DOMAIN samples = 1 .. l
    BY <1>3
  <2>2. samples' \in [1 .. l -> Samples]
    BY <1>2, <2>1
  <2>. QED BY <2>1, <2>2
<1>8. quantiles' \in Seq(Samples)
  <2>1. n + 1 \in DOMAIN samples
    BY <1>3, <1>4, <1>6
  <2>. QED BY <1>2, <1>3, <2>1
<1>9. TypeOK'
  BY <1>1, <1>7, <1>8 DEF RunInv, TypeOK
<1>10. Checked'
  BY <1>1 DEF RunInv, Checked
<1>11. Prepared'
  BY <1>1, <1>7 DEF RunInv, Prepared
<1>. QED BY <1>9, <1>10, <1>11 DEF RunInv

\* So does the end of a repetition, of a path or of the run.
LEMMA WriteRowStep ==
    ASSUME RunInv, WriteRow PROVE RunInv'
<1>1. UNCHANGED <<program, config, loopVars>> /\ pc = "loop" /\ rows' = Append(rows, <<Current, repetition>>)
  BY DEF WriteRow, RowReady
<1>2. /\ config.repetitions \in Nat /\ config.repetitions >= 1 /\ path \in 1 .. Len(Paths[program])
      /\ Len(Paths[program]) \in Nat /\ DOMAIN Paths[program] = 1 .. Len(Paths[program])
      /\ repetition \in 1 .. config.repetitions
  <2>1. repetition = 1 \/ repetition \in 1 .. config.repetitions
    BY DEF RunInv, TypeOK
  <2>. QED BY <1>1, <2>1, RunFacts
<1>3. /\ path' \in 1 .. Len(Paths[program]) /\ repetition' \in 1 .. config.repetitions
      /\ pc' \in {"repetition", "build", "done"}
      /\ pc' = "repetition" => path' = path
      /\ pc' = "build" => path' = path + 1
  BY <1>2 DEF WriteRow, LastRepetition
<1>4. rows' \in Seq({Paths[program][k] : k \in DOMAIN Paths[program]} \X (1 .. config.repetitions))
  <2>. DEFINE R == {Paths[program][k] : k \in DOMAIN Paths[program]} \X (1 .. config.repetitions)
  <2>1. rows \in Seq(R)
    BY DEF RunInv, TypeOK
  <2>2. <<Current, repetition>> \in R
    BY <1>2 DEF Current
  <2>. HIDE DEF R
  <2>3. rows' \in Seq(R)
    BY <1>1, <2>1, <2>2
  <2>. QED BY <2>3 DEF R
<1>5. TypeOK'
  <2>1. UNCHANGED <<iteration, checksum, bytes, total, allocations, samples, quantiles, buffer>>
    BY <1>1 DEF loopVars
  <2>2. program' = program /\ config' = config
    BY <1>1
  <2>3. path' \in DOMAIN Paths[program] /\ repetition' \in 1 .. config.repetitions
        /\ pc' \in {"args", "open", "build", "repetition", "loop", "done", "failed"}
    BY <1>2, <1>3
  <2>. QED BY <1>4, <2>1, <2>2, <2>3 DEF RunInv, TypeOK
<1>6. Checked'
  BY <1>1, <1>3 DEF RunInv, Checked
<1>7. Prepared'
  <2>1. program' = "latency" /\ pc' \in {"repetition", "loop"} => Len(samples') = config'.iterations
    BY <1>1 DEF RunInv, Prepared, loopVars
  <2>2. ASSUME program = "framing", pc' = "build", FramingLabel(path') = "cached_id_framed_with_copy"
        PROVE  Len(buffer) = 8
    <3>1. path \in 1 .. 8 /\ path' = path + 1
      <4>1. Paths[program] = FramingPaths
        BY <2>2 DEF Paths
      <4>. QED BY <1>2, <1>3, <2>2, <4>1, FramingFacts
    <3>2. FramingLabel(path) = "cached_id_framed_in_place"
      BY <2>2, <3>1, FramingFacts
    <3>. QED BY <1>1, <2>2, <3>2 DEF RunInv, Prepared
  <2>3. ASSUME program = "framing", pc' = "repetition", FramingLabel(path') # "cached_serializer_string"
        PROVE  Len(buffer) = 8
    <3>1. FramingLabel(path) # "cached_serializer_string"
      BY <1>3, <2>3
    <3>. QED BY <1>1, <2>3, <3>1 DEF RunInv, Prepared
  <2>. DEFINE l == FramingLabel(path')
  <2>4. FramingLabel(path)' = l
    BY DEF FramingLabel
  <2>. HIDE DEF l
  <2>5. program' = program /\ buffer' = buffer /\ pc' \in {"repetition", "build", "done"}
    BY <1>1, <1>3 DEF loopVars
  <2>. QED BY <2>1, <2>2, <2>3, <2>4, <2>5 DEF Prepared, l
<1>. QED BY <1>5, <1>6, <1>7 DEF RunInv

\* Every step keeps it.
LEMMA RunStep == RunInv /\ [Next]_vars => RunInv'
<1>. SUFFICES ASSUME RunInv, [Next]_vars PROVE RunInv'
  OBVIOUS
<1>1. CASE ParseArgs
  <2>1. UNCHANGED <<program, config, path, repetition, rows, loopVars>> /\ pc' \in {"open", "failed"}
    BY <1>1 DEF ParseArgs
  <2>2. TypeOK'
    BY <2>1 DEF RunInv, TypeOK, loopVars
  <2>3. Checked'
    <3>1. pc' = "open" => ~ Undersized
      BY <1>1 DEF ParseArgs
    <3>2. ~ Undersized => config.iterations >= MinIterations /\ config.repetitions >= MinRepetitions
      BY RunFacts DEF Undersized
    <3>. QED BY <1>1, <2>1, <3>1, <3>2 DEF RunInv, Checked, ParseArgs
  <2>4. Prepared'
    BY <2>1 DEF Prepared
  <2>. QED BY <2>2, <2>3, <2>4 DEF RunInv
<1>2. CASE OpenCsv
  <2>1. /\ UNCHANGED <<program, config, path, repetition, rows, loopVars>>
        /\ pc = "open" /\ pc' \in {"build", "failed"}
    BY <1>2 DEF OpenCsv
  <2>2. TypeOK'
    BY <2>1 DEF RunInv, TypeOK, loopVars
  <2>3. Checked'
    BY <2>1 DEF RunInv, Checked
  <2>4. Prepared'
    <3>1. FramingLabel(path') # "cached_id_framed_with_copy"
      BY <2>1, FramingFacts DEF RunInv, Checked
    <3>. DEFINE l == FramingLabel(path')
    <3>2. FramingLabel(path)' = l
      BY DEF FramingLabel
    <3>. HIDE DEF l
    <3>. QED BY <2>1, <3>1, <3>2 DEF Prepared, l
  <2>. QED BY <2>2, <2>3, <2>4 DEF RunInv
<1>3. CASE BuildAndWarmUp
  BY <1>3, BuildStep
<1>4. CASE StartRepetition
  <2>1. /\ UNCHANGED <<program, config, path, repetition, rows, samples, buffer>>
        /\ pc = "repetition" /\ pc' = "loop"
        /\ iteration' = 0 /\ checksum' = 0 /\ bytes' = 0 /\ total' = 0 /\ quantiles' = <<>>
        /\ allocations' \in {0, allocations}
    BY <1>4 DEF StartRepetition
  <2>2. TypeOK'
    <3>1. 0 \in 0 .. config.iterations
      BY RunFacts
    <3>. QED BY <2>1, <3>1 DEF RunInv, TypeOK
  <2>3. Checked'
    BY <2>1 DEF RunInv, Checked
  <2>4. Prepared'
    BY <2>1 DEF RunInv, Prepared, FramingLabel
  <2>. QED BY <2>2, <2>3, <2>4 DEF RunInv
<1>5. CASE EncodeMeasured \/ EncodeRepresentation \/ EncodeFixed64
  <2>1. PICK size \in Nat : EncodeSize(size) /\ buffer' = buffer
    <3>1. CASE EncodeMeasured
      BY <3>1, SizeFacts DEF EncodeMeasured
    <3>2. CASE EncodeRepresentation \/ EncodeFixed64
      BY <3>2, RunFacts DEF EncodeRepresentation, EncodeFixed64
    <3>. QED BY <1>5, <3>1, <3>2
  <2>. QED BY <2>1, SizeStep
<1>6. CASE EncodeFramed
  <2>1. program = "framing" /\ pc = "loop" /\ buffer' = Framed(Current.label[1]) /\ EncodeSize(Len(buffer'))
    BY <1>6 DEF EncodeFramed, EncodeSize, Iterate
  <2>2. config.id \in Nat /\ buffer' = Frame(config.id)
    BY <2>1, EncodeFrames, RunFacts
  <2>3. buffer' \in Seq(0 .. 255) /\ Len(buffer') = 8
    BY <2>2, FrameFacts
  <2>4. Len(buffer') \in Nat
    BY <2>3
  <2>. QED BY <2>1, <2>3, <2>4, SizeStep
<1>7. CASE EncodeLatency
  BY <1>7, LatencyStep
<1>8. CASE EncodeDistribution
  BY <1>8, DistributionStep
<1>9. CASE Percentile
  BY <1>9, PercentileStep
<1>10. CASE WriteRow
  BY <1>10, WriteRowStep
<1>11. CASE UNCHANGED vars
  <2>1. /\ UNCHANGED <<program, config, pc, path, repetition, rows, iteration, checksum, bytes, total>>
        /\ UNCHANGED <<allocations, samples, quantiles, buffer>>
    BY <1>11 DEF vars, loopVars
  <2>2. TypeOK'
    BY <2>1 DEF RunInv, TypeOK
  <2>3. Checked' /\ Prepared'
    BY <2>1 DEF RunInv, Checked, Prepared, FramingLabel
  <2>. QED BY <2>2, <2>3 DEF RunInv
<1>12. CASE Ended
  <2>1. /\ UNCHANGED <<program, config, pc, path, repetition, rows, iteration, checksum, bytes, total>>
        /\ UNCHANGED <<allocations, samples, quantiles, buffer>>
    BY <1>12 DEF Ended, vars, loopVars
  <2>2. TypeOK'
    BY <2>1 DEF RunInv, TypeOK
  <2>3. Checked' /\ Prepared'
    BY <2>1 DEF RunInv, Checked, Prepared, FramingLabel
  <2>. QED BY <2>2, <2>3 DEF RunInv
<1>. QED BY <1>1, <1>2, <1>3, <1>4, <1>5, <1>6, <1>7, <1>8, <1>9, <1>10, <1>11, <1>12 DEF Next

\* RunInv is an invariant.
THEOREM Running == Spec => []RunInv
  BY RunInit, RunStep, PTL DEF Spec

\* The configuration, the counters, the samples, the buffer and the rows have their types: no encode
\* or percentile of any program takes an index its samples or its corpus do not have.
THEOREM Typed == Spec => []TypeOK
  BY Running, PTL DEF RunInv

-------------------------------------------------------------------------------
(* The rows *)

\* The row of repetition r of path k.
RowOf(k, r) == <<Paths[program][k], r>>

\* The repetitions that are over: of the paths before the present one, and of it.
Over(k, r) ==
    /\ k \in DOMAIN Paths[program] /\ r \in 1 .. config.repetitions
    /\ k < path \/ (k = path /\ r < repetition) \/ pc = "done"

\* There is a row of each of them, of nothing else, and no two rows are the same.
Written ==
    /\ \A n \in DOMAIN rows : \E k \in DOMAIN Paths[program], r \in 1 .. config.repetitions :
            Over(k, r) /\ rows[n] = RowOf(k, r)
    /\ \A k \in DOMAIN Paths[program], r \in 1 .. config.repetitions :
            Over(k, r) => \E n \in DOMAIN rows : rows[n] = RowOf(k, r)
    /\ \A m, n \in DOMAIN rows : rows[m] = rows[n] => m = n

\* Repetitions that are over are repetitions of paths.
LEMMA WrittenFacts ==
    /\ Written <=> /\ \A n \in DOMAIN rows : \E k, r : Over(k, r) /\ rows[n] = RowOf(k, r)
                   /\ \A k, r : Over(k, r) => \E n \in DOMAIN rows : rows[n] = RowOf(k, r)
                   /\ \A m, n \in DOMAIN rows : rows[m] = rows[n] => m = n
    /\ Written' <=> /\ \A n \in DOMAIN rows' : \E k, r : Over(k, r)' /\ rows'[n] = RowOf(k, r)'
                    /\ \A k, r : Over(k, r)' => \E n \in DOMAIN rows' : rows'[n] = RowOf(k, r)'
                    /\ \A m, n \in DOMAIN rows' : rows'[m] = rows'[n] => m = n
  BY DEF Written, Over

\* A step that writes no row and stays within the repetition leaves what is written.
LEMMA WrittenKept ==
    ASSUME Written, UNCHANGED <<program, config, path, repetition, rows>>, pc = "done" <=> pc' = "done"
    PROVE  Written'
<1>1. \A k, r : Over(k, r)' <=> Over(k, r)
  BY DEF Over
<1>2. \A k, r : RowOf(k, r)' = RowOf(k, r)
  BY DEF RowOf
<1>. QED BY <1>1, <1>2, WrittenFacts

\* A row written is that of the repetition that is over with it.
LEMMA WrittenRow ==
    ASSUME RunInv, Written, WriteRow
    PROVE  Written'
<1>1. /\ UNCHANGED <<program, config>> /\ pc = "loop" /\ rows' = Append(rows, RowOf(path, repetition))
  BY DEF WriteRow, RowReady, RowOf, Current
<1>2. /\ config.repetitions \in Nat /\ path \in 1 .. Len(Paths[program])
      /\ Len(Paths[program]) \in Nat /\ DOMAIN Paths[program] = 1 .. Len(Paths[program])
      /\ repetition \in 1 .. config.repetitions
  <2>1. repetition = 1 \/ repetition \in 1 .. config.repetitions
    BY DEF RunInv, TypeOK
  <2>. QED BY <1>1, <2>1, RunFacts
\* The repetition that has just ended is the only new one among those that are over.
<1>3. \A k, r : Over(k, r)' <=> Over(k, r) \/ (k = path /\ r = repetition)
  <2>0. /\ program' = program /\ config' = config /\ pc # "done" /\ path \in DOMAIN Paths[program]
    BY <1>1, <1>2
  <2>1. CASE repetition # config.repetitions
    <3>1. path' = path /\ repetition' = repetition + 1 /\ pc' = "repetition"
      BY <2>1 DEF WriteRow, LastRepetition
    <3>2. \A r \in 1 .. config.repetitions : r < repetition + 1 <=> r < repetition \/ r = repetition
      BY <1>2
    <3>. QED BY <1>2, <2>0, <3>1, <3>2 DEF Over
  <2>2. CASE repetition = config.repetitions /\ path < Len(Paths[program])
    <3>1. path' = path + 1 /\ repetition' = 1 /\ pc' = "build"
      BY <2>2 DEF WriteRow, LastRepetition
    <3>2. \A k \in DOMAIN Paths[program] : k < path + 1 <=> k < path \/ k = path
      BY <1>2
    <3>3. \A r \in 1 .. config.repetitions : ~(r < 1) /\ (r < repetition \/ r = repetition)
      BY <1>2, <2>2
    <3>. QED BY <1>2, <2>0, <3>1, <3>2, <3>3 DEF Over
  <2>3. CASE repetition = config.repetitions /\ ~(path < Len(Paths[program]))
    <3>1. path' = path /\ repetition' = 1 /\ pc' = "done"
      BY <2>3 DEF WriteRow, LastRepetition
    <3>2. \A k \in DOMAIN Paths[program] : k < path \/ k = path
      BY <1>2, <2>3
    <3>3. \A r \in 1 .. config.repetitions : r < repetition \/ r = repetition
      BY <1>2, <2>3
    <3>. QED BY <1>2, <2>0, <3>1, <3>2, <3>3 DEF Over
  <2>. QED BY <2>1, <2>2, <2>3
<1>4. \A k, r : RowOf(k, r)' = RowOf(k, r)
  BY <1>1 DEF RowOf
<1>5. PICK l \in Nat : DOMAIN rows = 1 .. l /\ DOMAIN rows' = 1 .. l + 1
                     /\ rows'[l + 1] = RowOf(path, repetition) /\ \A n \in 1 .. l : rows'[n] = rows[n]
  <2>. DEFINE R == {Paths[program][k] : k \in DOMAIN Paths[program]} \X (1 .. config.repetitions)
  <2>1. rows \in Seq(R)
    BY DEF RunInv, TypeOK
  <2>2. RowOf(path, repetition) \in R
    BY <1>2 DEF RowOf
  <2>. HIDE DEF R
  <2>3. PICK l \in Nat : l = Len(rows) /\ DOMAIN rows = 1 .. l
    BY <2>1
  <2>4. rows' \in Seq(R) /\ Len(rows') = l + 1 /\ rows'[l + 1] = RowOf(path, repetition)
        /\ \A n \in 1 .. l : rows'[n] = rows[n]
    BY <1>1, <2>1, <2>2, <2>3
  <2>5. DOMAIN rows' = 1 .. l + 1
    BY <2>4
  <2>. QED BY <2>3, <2>4, <2>5
<1>6. \A n \in 1 .. l + 1 : n \in 1 .. l \/ n = l + 1
  OBVIOUS
<1>7. \A n \in 1 .. l : n \in 1 .. l + 1
  OBVIOUS
<1>8. l + 1 \in 1 .. l + 1
  OBVIOUS
<1>9. \A n \in 1 .. l : rows[n] # RowOf(path, repetition)
  <2>1. ~ Over(path, repetition)
    BY <1>1, <1>2 DEF Over
  <2>2. ASSUME NEW n \in 1 .. l, rows[n] = RowOf(path, repetition) PROVE FALSE
    <3>1. PICK k, r : Over(k, r) /\ rows[n] = RowOf(k, r)
      BY <1>5, WrittenFacts
    <3>2. k \in DOMAIN Paths[program] /\ path \in DOMAIN Paths[program]
      BY <1>2, <3>1 DEF Over
    <3>3. k = path /\ r = repetition
      <4>1. RowOf(k, r) = RowOf(path, repetition)
        BY <2>2, <3>1
      <4>2. Paths[program][k] = Paths[program][path] /\ r = repetition
        BY <4>1 DEF RowOf
      <4>3. program \in Programs
        BY DEF RunInv, TypeOK
      <4>. QED BY <3>2, <4>2, <4>3, PathsDistinct
    <3>. QED BY <2>1, <3>1, <3>3
  <2>. QED BY <2>2
<1>10. \A n \in DOMAIN rows' : \E k, r : Over(k, r)' /\ rows'[n] = RowOf(k, r)'
  <2>1. ASSUME NEW n \in 1 .. l PROVE \E k, r : Over(k, r)' /\ rows'[n] = RowOf(k, r)'
    BY <1>3, <1>4, <1>5, WrittenFacts
  <2>2. \E k, r : Over(k, r)' /\ rows'[l + 1] = RowOf(k, r)'
    BY <1>3, <1>4, <1>5
  <2>. QED BY <1>5, <1>6, <2>1, <2>2
<1>11. ASSUME NEW k, NEW r, Over(k, r)' PROVE \E n \in DOMAIN rows' : rows'[n] = RowOf(k, r)'
  <2>1. CASE Over(k, r)
    <3>1. PICK n \in 1 .. l : rows[n] = RowOf(k, r)
      BY <1>5, <2>1, WrittenFacts
    <3>. QED BY <1>4, <1>5, <1>7, <3>1
  <2>2. CASE k = path /\ r = repetition
    BY <1>4, <1>5, <1>8, <2>2
  <2>. QED BY <1>3, <1>11, <2>1, <2>2
<1>12. ASSUME NEW m \in DOMAIN rows', NEW n \in DOMAIN rows', rows'[m] = rows'[n] PROVE m = n
  <2>1. (m \in 1 .. l \/ m = l + 1) /\ (n \in 1 .. l \/ n = l + 1)
    BY <1>5, <1>6
  <2>2. CASE m \in 1 .. l /\ n \in 1 .. l
    BY <1>5, <1>12, <2>2, WrittenFacts
  <2>3. CASE (m = l + 1) # (n = l + 1)
    BY <1>5, <1>9, <1>12, <2>1, <2>3
  <2>. QED BY <2>1, <2>2, <2>3
<1>. QED BY <1>10, <1>11, <1>12, WrittenFacts

\* Nothing is written at the start, and no repetition is over.
LEMMA WrittenInit == Init => Written
<1>. SUFFICES ASSUME Init PROVE Written
  OBVIOUS
<1>0. RunInv
  BY RunInit
<1>1. DOMAIN rows = {} /\ path = 1 /\ repetition = 1 /\ pc = "args"
  BY DEF Init
<1>2. \A k, r : ~ Over(k, r)
  <2>1. \A k \in DOMAIN Paths[program] : ~ (k < 1)
    BY <1>0, RunFacts
  <2>2. config.repetitions \in Nat
    BY <1>0, RunFacts
  <2>3. \A r \in 1 .. config.repetitions : ~ (r < 1)
    BY <2>2
  <2>. QED BY <1>1, <2>1, <2>3 DEF Over
<1>. QED BY <1>1, <1>2, WrittenFacts

\* Every step keeps what is written true to the repetitions that are over.
LEMMA WrittenStep == RunInv /\ Written /\ [Next]_vars => Written'
<1>. SUFFICES ASSUME RunInv, Written, [Next]_vars PROVE Written'
  OBVIOUS
<1>. DEFINE Stays == /\ UNCHANGED <<program, config, path, repetition, rows>>
                     /\ pc = "done" <=> pc' = "done"
<1>1. CASE WriteRow
  BY <1>1, WrittenRow
<1>2. CASE ParseArgs \/ OpenCsv \/ BuildAndWarmUp \/ StartRepetition
  <2>1. Stays
    BY <1>2 DEF ParseArgs, OpenCsv, BuildAndWarmUp, StartRepetition
  <2>. QED BY <2>1, WrittenKept
<1>3. CASE EncodeMeasured \/ EncodeRepresentation \/ EncodeFixed64 \/ EncodeFramed
           \/ EncodeLatency \/ EncodeDistribution
  <2>1. Iterate
    BY <1>3 DEF EncodeMeasured, EncodeRepresentation, EncodeFixed64, EncodeFramed, EncodeLatency,
                EncodeDistribution, EncodeSize
  <2>2. Stays
    BY <2>1 DEF Iterate
  <2>. QED BY <2>2, WrittenKept
<1>4. CASE Percentile
  <2>1. Stays
    BY <1>4 DEF Percentile
  <2>. QED BY <2>1, WrittenKept
<1>5. CASE Ended \/ UNCHANGED vars
  <2>1. Stays
    BY <1>5 DEF Ended, vars
  <2>. QED BY <2>1, WrittenKept
<1>. QED BY <1>1, <1>2, <1>3, <1>4, <1>5 DEF Next

\* At the end all repetitions are over: each has one row.
LEMMA WrittenIdentifies == RunInv /\ Written => RowsIdentified
<1>. SUFFICES ASSUME RunInv, Written, pc = "done",
                     NEW k \in DOMAIN Paths[program], NEW r \in 1 .. config.repetitions
              PROVE  /\ config.repetitions >= MinRepetitions /\ config.iterations >= MinIterations
                     /\ Cardinality({n \in DOMAIN rows : rows[n] = <<Paths[program][k], r>>}) = 1
  BY DEF RowsIdentified
<1>1. config.repetitions >= MinRepetitions /\ config.iterations >= MinIterations
  BY DEF RunInv, Checked
<1>2. PICK n \in DOMAIN rows : rows[n] = RowOf(k, r)
  BY WrittenFacts DEF Over
<1>3. {m \in DOMAIN rows : rows[m] = <<Paths[program][k], r>>} = {n}
  BY <1>2, WrittenFacts DEF RowOf
<1>4. Cardinality({n}) = 1
  BY FS_Singleton
<1>. QED BY <1>1, <1>3, <1>4

\* A run that ends well has written one row for each repetition of each path, and no two paths
\* of a program share the columns by which the reports group the rows.
THEOREM Identified == Spec => []RowsIdentified
<1>1. Init => RunInv /\ Written
  BY RunInit, WrittenInit
<1>2. (RunInv /\ Written) /\ [Next]_vars => (RunInv /\ Written)'
  BY RunStep, WrittenStep
<1>. QED BY <1>1, <1>2, WrittenIdentifies, PTL DEF Spec

\* Where the row of repetition r of path k belongs: path after path, repetition after repetition.
Place(k, r) == (k - 1) * config.repetitions + r

\* The rows written are those before the present repetition, each in its place.
Placed ==
    /\ Len(rows) = IF pc = "done" THEN Len(Paths[program]) * config.repetitions
                                  ELSE Place(path, repetition) - 1
    /\ \A k \in DOMAIN Paths[program], r \in 1 .. config.repetitions :
            Place(k, r) =< Len(rows) => rows[Place(k, r)] = RowOf(k, r)

\* At any moment the file is the beginning of one list, the repetitions of the paths in their order,
\* and at the end it is that list.
RowsInOrder ==
    /\ Len(rows) =< Len(Paths[program]) * config.repetitions
    /\ pc = "done" => Len(rows) = Len(Paths[program]) * config.repetitions
    /\ \A k \in DOMAIN Paths[program], r \in 1 .. config.repetitions :
            Place(k, r) =< Len(rows) => rows[Place(k, r)] = RowOf(k, r)

\* The repetitions of a path come before those of the paths behind it.
LEMMA PathsApart ==
    ASSUME NEW m \in Nat, NEW a \in Nat, NEW b \in Nat, a < b
    PROVE  (a - 1) * m + m =< (b - 1) * m
<1>1. PICK d \in Nat : b = a + 1 + d
  <2>1. b - a - 1 \in Nat /\ b = a + 1 + (b - a - 1)
    OBVIOUS
  <2>. QED BY <2>1
<1>2. d * m \in Nat /\ a * m \in Nat
  OBVIOUS
<1>3. (b - 1) * m = a * m + d * m /\ (a - 1) * m = a * m - m
  BY <1>1
<1>. QED BY <1>2, <1>3

\* Different repetitions have different places.
LEMMA PlacesDiffer ==
    ASSUME config.repetitions \in Nat, NEW a \in Nat, NEW b \in Nat,
           NEW r \in 1 .. config.repetitions, NEW s \in 1 .. config.repetitions, Place(a, r) = Place(b, s)
    PROVE  a = b /\ r = s
<1>. DEFINE m == config.repetitions
<1>1. (a - 1) * m \in Int /\ (b - 1) * m \in Int /\ (a - 1) * m + r = (b - 1) * m + s
  BY DEF Place
<1>2. (a < b => (a - 1) * m + m =< (b - 1) * m) /\ (b < a => (b - 1) * m + m =< (a - 1) * m)
  BY PathsApart
<1>. HIDE DEF m
<1>3. r \in 1 .. m /\ s \in 1 .. m /\ m \in Nat
  BY DEF m
<1>4. a = b
  BY <1>1, <1>2, <1>3
<1>. QED BY <1>1, <1>3, <1>4

\* A row goes to the place after the last one, and that is where it belongs.
LEMMA PlacedRow ==
    ASSUME RunInv, Placed, WriteRow
    PROVE  Placed'
<1>1. /\ program' = program /\ config' = config /\ pc = "loop"
      /\ rows' = Append(rows, RowOf(path, repetition))
  BY DEF WriteRow, RowReady, RowOf, Current
<1>2. /\ config.repetitions \in Nat /\ path \in 1 .. Len(Paths[program])
      /\ Len(Paths[program]) \in Nat /\ DOMAIN Paths[program] = 1 .. Len(Paths[program])
      /\ repetition \in 1 .. config.repetitions
  <2>1. repetition = 1 \/ repetition \in 1 .. config.repetitions
    BY DEF RunInv, TypeOK
  <2>. QED BY <1>1, <2>1, RunFacts
<1>. DEFINE R == {Paths[program][k] : k \in DOMAIN Paths[program]} \X (1 .. config.repetitions)
<1>3. rows \in Seq(R) /\ RowOf(path, repetition) \in R
  BY <1>2 DEF RunInv, TypeOK, RowOf
<1>. HIDE DEF R
<1>4. PICK l \in Nat : l = Len(rows) /\ Len(rows') = l + 1 /\ rows'[l + 1] = RowOf(path, repetition)
                     /\ \A n \in 1 .. l : rows'[n] = rows[n]
  BY <1>1, <1>3
<1>5. l + 1 = Place(path, repetition)
  <2>1. Place(path, repetition) \in Int
    BY <1>2 DEF Place
  <2>. QED BY <1>1, <1>4, <2>1 DEF Placed
<1>6. Len(rows') = IF pc' = "done" THEN Len(Paths[program]) * config.repetitions
                                   ELSE ((path' - 1) * config.repetitions + repetition') - 1
  <2>1. CASE repetition # config.repetitions
    <3>1. path' = path /\ repetition' = repetition + 1 /\ pc' = "repetition"
      BY <2>1 DEF WriteRow, LastRepetition
    <3>2. (path - 1) * config.repetitions \in Int
      BY <1>2
    <3>. QED BY <1>2, <1>4, <1>5, <3>1, <3>2 DEF Place
  <2>2. CASE repetition = config.repetitions
    <3>1. (path - 1) * config.repetitions + config.repetitions = path * config.repetitions
      BY <1>2
    <3>2. l + 1 = path * config.repetitions
      BY <1>5, <2>2, <3>1 DEF Place
    <3>3. CASE path < Len(Paths[program])
      <4>1. path' = path + 1 /\ repetition' = 1 /\ pc' = "build"
        BY <2>2, <3>3 DEF WriteRow, LastRepetition
      <4>2. path' - 1 = path
        BY <1>2, <4>1
      <4>3. (path' - 1) * config.repetitions = l + 1
        BY <3>2, <4>2
      <4>4. ((path' - 1) * config.repetitions + repetition') - 1 = l + 1
        BY <1>4, <4>1, <4>3
      <4>. QED BY <1>4, <4>1, <4>4
    <3>4. CASE ~(path < Len(Paths[program]))
      <4>1. pc' = "done" /\ path = Len(Paths[program])
        BY <1>2, <2>2, <3>4 DEF WriteRow, LastRepetition
      <4>. QED BY <1>4, <3>2, <4>1
    <3>. QED BY <3>3, <3>4
  <2>. QED BY <2>1, <2>2
<1>7. ASSUME NEW k \in DOMAIN Paths[program], NEW r \in 1 .. config.repetitions, Place(k, r) =< l + 1
      PROVE  rows'[Place(k, r)] = RowOf(k, r)
  <2>1. k \in Nat \ {0} /\ (k - 1) * config.repetitions \in Nat /\ Place(k, r) \in Nat \ {0}
    <3>1. k - 1 \in Nat
      BY <1>2
    <3>2. (k - 1) * config.repetitions \in Nat
      BY <1>2, <3>1
    <3>. QED BY <1>2, <3>2 DEF Place
  <2>2. CASE Place(k, r) =< l
    <3>1. Place(k, r) \in 1 .. l
      BY <1>4, <2>1, <2>2
    <3>2. rows[Place(k, r)] = RowOf(k, r)
      BY <1>4, <2>2 DEF Placed
    <3>. QED BY <1>4, <3>1, <3>2
  <2>3. CASE Place(k, r) = l + 1
    <3>1. path \in Nat /\ k \in Nat
      BY <1>2
    <3>2. k = path /\ r = repetition
      BY <1>2, <1>5, <2>3, <3>1, PlacesDiffer
    <3>. QED BY <1>4, <2>3, <3>2
  <2>. QED BY <1>4, <1>7, <2>1, <2>2, <2>3
<1>8. \A k, r : Place(k, r)' = Place(k, r) /\ RowOf(k, r)' = RowOf(k, r)
  BY <1>1 DEF Place, RowOf
<1>9. Len(rows') = IF pc' = "done" THEN Len(Paths[program]) * config.repetitions
                                   ELSE Place(path, repetition)' - 1
  BY <1>1, <1>6 DEF Place
<1>. QED BY <1>1, <1>4, <1>7, <1>8, <1>9 DEF Placed

\* A step that writes no row leaves the places.
LEMMA PlacedKept ==
    ASSUME Placed, UNCHANGED <<program, config, path, repetition, rows>>, pc = "done" <=> pc' = "done"
    PROVE  Placed'
  BY DEF Placed, Place, RowOf

\* No row is written at the start, and the first path is the first.
LEMMA PlacedInit == Init => Placed
<1>. SUFFICES ASSUME Init PROVE Placed
  OBVIOUS
<1>1. rows = <<>> /\ path = 1 /\ repetition = 1 /\ pc = "args"
  BY DEF Init
<1>2. config.repetitions \in Nat /\ DOMAIN Paths[program] \subseteq Nat \ {0}
  BY RunInit, RunFacts
<1>3. ASSUME NEW k \in DOMAIN Paths[program], NEW r \in 1 .. config.repetitions PROVE Place(k, r) > 0
  <2>1. k - 1 \in Nat
    BY <1>2
  <2>2. (k - 1) * config.repetitions \in Nat
    BY <1>2, <2>1
  <2>. QED BY <1>2, <2>2 DEF Place
<1>4. Place(1, 1) = 1
  <2>1. (1 - 1) * config.repetitions = 0
    BY <1>2
  <2>. QED BY <2>1 DEF Place
<1>5. \A k \in DOMAIN Paths[program], r \in 1 .. config.repetitions : Place(k, r) \in Int
  BY <1>2 DEF Place
<1>. QED BY <1>1, <1>3, <1>4, <1>5 DEF Placed

\* Every step keeps the rows in place.
LEMMA PlacedStep == RunInv /\ Placed /\ [Next]_vars => Placed'
<1>. SUFFICES ASSUME RunInv, Placed, [Next]_vars PROVE Placed'
  OBVIOUS
<1>. DEFINE Stays == /\ UNCHANGED <<program, config, path, repetition, rows>>
                     /\ pc = "done" <=> pc' = "done"
<1>1. CASE WriteRow
  BY <1>1, PlacedRow
<1>2. CASE ParseArgs \/ OpenCsv \/ BuildAndWarmUp \/ StartRepetition \/ Percentile
  <2>1. Stays
    BY <1>2 DEF ParseArgs, OpenCsv, BuildAndWarmUp, StartRepetition, Percentile
  <2>. QED BY <2>1, PlacedKept
<1>3. CASE EncodeMeasured \/ EncodeRepresentation \/ EncodeFixed64 \/ EncodeFramed
           \/ EncodeLatency \/ EncodeDistribution
  <2>1. Iterate
    BY <1>3 DEF EncodeMeasured, EncodeRepresentation, EncodeFixed64, EncodeFramed, EncodeLatency,
                EncodeDistribution, EncodeSize
  <2>2. Stays
    BY <2>1 DEF Iterate
  <2>. QED BY <2>2, PlacedKept
<1>4. CASE Ended \/ UNCHANGED vars
  <2>1. Stays
    BY <1>4 DEF Ended, vars
  <2>. QED BY <2>1, PlacedKept
<1>. QED BY <1>1, <1>2, <1>3, <1>4 DEF Next

\* Whenever a run stops - refused, failed or done - its file holds the repetitions of the paths up to
\* that point, in their order and without a gap, and a run that ends well has written them all.
THEOREM InOrder == Spec => []RowsInOrder
<1>1. Init => RunInv /\ Placed
  BY RunInit, PlacedInit
<1>2. (RunInv /\ Placed) /\ [Next]_vars => (RunInv /\ Placed)'
  BY RunStep, PlacedStep
<1>3. RunInv /\ Placed => RowsInOrder
  <2>. SUFFICES ASSUME RunInv, Placed PROVE Len(rows) =< Len(Paths[program]) * config.repetitions
    BY RunFacts DEF Placed, RowsInOrder
  <2>1. /\ config.repetitions \in Nat /\ path \in 1 .. Len(Paths[program]) /\ Len(Paths[program]) \in Nat
        /\ repetition = 1 \/ repetition \in 1 .. config.repetitions
    BY RunFacts DEF RunInv, TypeOK
  <2>2. CASE pc = "done"
    <3>1. Len(Paths[program]) * config.repetitions \in Int
      BY <2>1
    <3>. QED BY <2>2, <3>1 DEF Placed
  <2>3. CASE pc # "done"
    <3>1. (path - 1) * config.repetitions + config.repetitions =< Len(Paths[program]) * config.repetitions
      <4>1. path \in Nat /\ Len(Paths[program]) + 1 \in Nat /\ path < Len(Paths[program]) + 1
        BY <2>1
      <4>2. (path - 1) * config.repetitions + config.repetitions
                =< (Len(Paths[program]) + 1 - 1) * config.repetitions
        BY <2>1, <4>1, PathsApart
      <4>3. Len(Paths[program]) + 1 - 1 = Len(Paths[program])
        BY <2>1
      <4>. QED BY <4>2, <4>3
    <3>2. (path - 1) * config.repetitions \in Int /\ Len(Paths[program]) * config.repetitions \in Int
      BY <2>1
    <3>3. Len(rows) = ((path - 1) * config.repetitions + repetition) - 1
      <4>1. Len(rows) = Place(path, repetition) - 1
        BY <2>3 DEF Placed
      <4>. QED BY <4>1 DEF Place
    <3>4. repetition - 1 =< config.repetitions
      BY <2>1
    <3>. DEFINE before == (path - 1) * config.repetitions
                all == Len(Paths[program]) * config.repetitions
    <3>5. before \in Int /\ all \in Int /\ before + config.repetitions =< all
          /\ Len(rows) = (before + repetition) - 1
      BY <3>1, <3>2, <3>3
    <3>. HIDE DEF before, all
    <3>6. repetition \in Int /\ config.repetitions \in Int
      BY <2>1
    <3>7. Len(rows) =< all
      BY <3>4, <3>5, <3>6
    <3>. QED BY <3>7 DEF all
  <2>. QED BY <2>2, <2>3
<1>. QED BY <1>1, <1>2, <1>3, PTL DEF Spec

-------------------------------------------------------------------------------
(* What a row says of its loop *)

\* The bytes of an encode of the present path.
EncodeBytes == IF program = "framing" THEN 8 ELSE path

\* The checksum is that of the encodes so far, unless their sizes differ.
Summed ==
    pc = "loop" /\ program # "distribution" /\ ~KeysDangle(program, Current) =>
        checksum = iteration * EncodeBytes /\ (iteration > 0 => bytes = EncodeBytes)

\* The allocations are those of the encodes so far.
Allocated ==
    pc = "loop" /\ program = "latency" => allocations = iteration * AllocationsPerEncode

\* What samples are at most a value, and less.
UpTo(s, value) == {k \in DOMAIN s : s[k] =< value}
Below(s, value) == {k \in DOMAIN s : s[k] < value}

\* The value is the percentile of samples s.
Splits(s, value, fraction) ==
    /\ 10000 * Cardinality(UpTo(s, value)) > fraction * Len(s)
    /\ 10000 * Cardinality(Below(s, value)) =< fraction * Len(s)

\* The percentiles computed so far still are ones of the samples, reordered or not.
Ranked ==
    pc = "loop" /\ program = "latency" =>
        /\ Len(quantiles) > 0 => iteration = config.iterations
        /\ \A k \in 1 .. Len(quantiles) : Splits(samples, quantiles[k], Fractions[k])

\* The bytes of the whole corpora encoded so far, and of the beginning of the next.
Averaged ==
    pc = "loop" /\ program = "distribution" =>
        total = (iteration \div CorpusSize) * SumFunction(Sizes(Current.case))
                + FirstBytes(Current.case, iteration % CorpusSize)

\* What holds of the loop of a repetition.
LoopInv == Summed /\ Allocated /\ Ranked /\ Averaged

\* Reordering the samples does not change how many are up to a value, or below it.
LEMMA Reordering ==
    ASSUME samples \in Seq(Samples), NEW reordered \in [DOMAIN samples -> Samples], NEW n,
           NthElement(reordered, n), NEW value
    PROVE  /\ Cardinality(UpTo(samples, value)) = Cardinality(UpTo(reordered, value))
           /\ Cardinality(Below(samples, value)) = Cardinality(Below(reordered, value))
<1>. DEFINE few == {x \in Samples : x =< value}  fewer == {x \in Samples : x < value}
<1>1. \A values \in SUBSET Samples : Cardinality({k \in DOMAIN samples : samples[k] \in values})
                                   = Cardinality({k \in DOMAIN reordered : reordered[k] \in values})
  BY DEF NthElement
<1>2. (\A k \in DOMAIN samples : samples[k] \in Samples) /\ (\A k \in DOMAIN reordered : reordered[k] \in Samples)
  OBVIOUS
<1>3. /\ {k \in DOMAIN samples : samples[k] \in few} = UpTo(samples, value)
      /\ {k \in DOMAIN reordered : reordered[k] \in few} = UpTo(reordered, value)
      /\ {k \in DOMAIN samples : samples[k] \in fewer} = Below(samples, value)
      /\ {k \in DOMAIN reordered : reordered[k] \in fewer} = Below(reordered, value)
  BY <1>2 DEF UpTo, Below
<1>4. few \in SUBSET Samples /\ fewer \in SUBSET Samples
  OBVIOUS
<1>. HIDE DEF few, fewer
<1>. QED BY <1>1, <1>3, <1>4

\* The n-th of l samples, from zero, is where a sort puts it.
InPlace(s, l, n) ==
    (\A k \in 1 .. n : s[k] =< s[n + 1]) /\ \A k \in n + 1 .. l : s[k] >= s[n + 1]

\* The n-th element has n + 1 up to it, and no more than n below it.
LEMMA NthCounts ==
    ASSUME NEW l \in Nat \ {0}, NEW s \in [1 .. l -> Nat], NEW n \in 0 .. l - 1, InPlace(s, l, n)
    PROVE  /\ Cardinality(UpTo(s, s[n + 1])) >= n + 1
           /\ Cardinality(Below(s, s[n + 1])) =< n
           /\ Cardinality(UpTo(s, s[n + 1])) \in Nat /\ Cardinality(Below(s, s[n + 1])) \in Nat
<1>0. (\A k \in 1 .. n : s[k] =< s[n + 1]) /\ \A k \in n + 1 .. l : s[k] >= s[n + 1]
  BY DEF InPlace
<1>. DEFINE v == s[n + 1]
<1>1. \A a, b \in Int : IsFiniteSet(a .. b) /\ Cardinality(a .. b) = IF a > b THEN 0 ELSE b - a + 1
  BY FS_Interval
<1>2. Cardinality(1 .. n + 1) = n + 1 /\ IsFiniteSet(1 .. l) /\ IsFiniteSet(1 .. n) /\ Cardinality(1 .. n) = n
  <2>1. 1 \in Int /\ l \in Int /\ n \in Int /\ n + 1 \in Int
    OBVIOUS
  <2>2. IsFiniteSet(1 .. l) /\ IsFiniteSet(1 .. n)
    BY <1>1, <2>1, Zenon
  <2>3. Cardinality(1 .. n) = IF 1 > n THEN 0 ELSE n - 1 + 1
    BY <1>1, <2>1, Zenon
  <2>4. Cardinality(1 .. n + 1) = n + 1
    <3>1. PICK m \in Nat : m = n + 1
      BY <2>1
    <3>2. Cardinality(1 .. m) = IF 1 > m THEN 0 ELSE m - 1 + 1
      BY <1>1, <2>1
    <3>3. Cardinality(1 .. m) = m
      BY <3>2
    <3>. QED BY <3>1, <3>3
  <2>5. (IF 1 > n THEN 0 ELSE n - 1 + 1) = n
    OBVIOUS
  <2>. QED BY <2>2, <2>3, <2>4, <2>5
<1>3. 1 .. n + 1 \subseteq UpTo(s, v)
  <2>1. ASSUME NEW k \in 1 .. n + 1 PROVE k \in DOMAIN s /\ s[k] =< v
    <3>1. k \in 1 .. l /\ (k \in 1 .. n \/ k = n + 1)
      OBVIOUS
    <3>2. CASE k = n + 1
      BY <3>1, <3>2
    <3>. QED BY <1>0, <3>1, <3>2
  <2>. HIDE DEF v
  <2>. QED BY <2>1 DEF UpTo
<1>4. Below(s, v) \subseteq 1 .. n
  <2>1. ASSUME NEW k \in 1 .. l, s[k] < v PROVE k \in 1 .. n
    <3>1. k \in n + 1 .. l => ~(s[k] < v)
      <4>1. s[k] \in Nat /\ v \in Nat
        OBVIOUS
      <4>. QED BY <1>0, <4>1
    <3>2. k \in n + 1 .. l \/ k \in 1 .. n
      OBVIOUS
    <3>. QED BY <2>1, <3>1, <3>2
  <2>. HIDE DEF v
  <2>. QED BY <2>1 DEF Below
<1>5. UpTo(s, v) \subseteq 1 .. l /\ Below(s, v) \subseteq 1 .. l
  BY DEF UpTo, Below
<1>. HIDE DEF v
<1>6. IsFiniteSet(UpTo(s, v)) /\ Cardinality(1 .. n + 1) =< Cardinality(UpTo(s, v))
  BY <1>2, <1>3, <1>5, FS_Subset
<1>7. IsFiniteSet(Below(s, v)) /\ Cardinality(Below(s, v)) =< Cardinality(1 .. n)
  BY <1>2, <1>4, FS_Subset
<1>8. Cardinality(UpTo(s, v)) \in Nat /\ Cardinality(Below(s, v)) \in Nat
  BY <1>6, <1>7, FS_CardinalityType
<1>9. Cardinality(UpTo(s, v)) >= n + 1 /\ Cardinality(Below(s, v)) =< n
  BY <1>2, <1>6, <1>7, <1>8
<1>. QED BY <1>8, <1>9 DEF v

\* The next number's place in a corpus, which begins again at its end.
LEMMA NextPlace ==
    ASSUME NEW i \in Nat, NEW n \in Nat \ {0}
    PROVE  \/ /\ (i % n) + 1 < n
              /\ (i + 1) \div n = i \div n /\ ((i + 1) % n) = (i % n) + 1
           \/ /\ (i % n) + 1 = n
              /\ (i + 1) \div n = (i \div n) + 1 /\ ((i + 1) % n) = 0
<1>. DEFINE q == i \div n  r == (i % n)  c == (i + 1) \div n  e == ((i + 1) % n)
<1>1. i = n * q + r /\ q \in Nat /\ r \in 0 .. n - 1
  BY Division
<1>2. i + 1 = n * c + e /\ c \in Nat /\ e \in 0 .. n - 1
  <2>1. i + 1 \in Nat
    OBVIOUS
  <2>. QED BY <2>1, Division
<1>. HIDE DEF q, r, c, e
<1>3. n * c + e = n * q + r + 1
  BY <1>1, <1>2
<1>4. c = q \/ c = q + 1
  <2>1. CASE c < q
    <3>1. PICK d \in Nat : q = c + 1 + d
      <4>1. q - c - 1 \in Nat /\ q = c + 1 + (q - c - 1)
        BY <1>1, <1>2, <2>1
      <4>. QED BY <4>1
    <3>2. n * q = n * c + n + n * d /\ n * d \in Nat /\ n * c \in Nat
      BY <1>2, <3>1
    <3>. QED BY <1>1, <1>2, <1>3, <3>2
  <2>2. CASE c > q + 1
    <3>1. PICK d \in Nat : c = q + 2 + d
      <4>1. c - q - 2 \in Nat /\ c = q + 2 + (c - q - 2)
        BY <1>1, <1>2, <2>2
      <4>. QED BY <4>1
    <3>2. n * c = n * q + 2 * n + n * d /\ n * d \in Nat /\ n * q \in Nat
      BY <1>1, <3>1
    <3>. QED BY <1>1, <1>2, <1>3, <3>2
  <2>. QED BY <1>1, <1>2, <2>1, <2>2
<1>5. CASE c = q
  <2>1. e = r + 1
    <3>1. n * q \in Nat
      BY <1>1
    <3>. QED BY <1>1, <1>2, <1>3, <1>5, <3>1
  <2>. QED BY <1>1, <1>2, <1>5, <2>1 DEF q, r, c, e
<1>6. CASE c = q + 1
  <2>1. n * c = n * q + n /\ n * q \in Nat
    BY <1>1, <1>6
  <2>2. e = 0 /\ r + 1 = n
    BY <1>1, <1>2, <1>3, <2>1
  <2>. QED BY <1>6, <2>2 DEF q, r, c, e
<1>. QED BY <1>4, <1>5, <1>6

\* It holds before the first repetition.
LEMMA LoopInit == Init => LoopInv
  BY DEF Init, LoopInv, Summed, Allocated, Ranked, Averaged

\* Outside the loop there is nothing to show.
LEMMA LoopLeft ==
    ASSUME pc' # "loop" PROVE LoopInv'
  BY DEF LoopInv, Summed, Allocated, Ranked, Averaged

\* A repetition begins with empty sums, counters and percentiles.
LEMMA LoopEntered ==
    ASSUME RunInv, StartRepetition PROVE LoopInv'
<1>1. /\ UNCHANGED <<program, config, path, repetition, rows, samples, buffer>>
      /\ iteration' = 0 /\ checksum' = 0 /\ total' = 0 /\ quantiles' = <<>>
      /\ program = "latency" => allocations' = 0
  BY DEF StartRepetition
<1>. DEFINE b == EncodeBytes  a == AllocationsPerEncode
<1>2. b' = b /\ a' = a /\ 0 * b = 0 /\ 0 * a = 0
  <2>1. b' = b /\ b \in Nat /\ a' = a /\ a \in Nat
    BY <1>1, RunFacts DEF EncodeBytes, AllocationsPerEncode, Current
  <2>. HIDE DEF a, b
  <2>. QED BY <2>1
<1>3. Summed' /\ Allocated'
  <2>. HIDE DEF a, b
  <2>1. checksum' = iteration' * b /\ ~(iteration' > 0)
    BY <1>1, <1>2
  <2>2. program = "latency" => allocations' = iteration' * a
    BY <1>1, <1>2
  <2>. QED BY <1>1, <1>2, <2>1, <2>2 DEF Summed, Allocated, a, b
<1>4. Ranked'
  BY <1>1 DEF Ranked
<1>5. Averaged'
  <2>. DEFINE case == Current.case
  <2>1. case' = case
    BY <1>1 DEF Current
  <2>. HIDE DEF case
  <2>2. CorpusSize \in Nat \ {0}
    BY ConstantFacts
  <2>3. 0 \div CorpusSize = 0 /\ (0 % CorpusSize) = 0
    BY <2>2
  <2>4. SumFunction(Sizes(case)) \in Nat /\ FirstBytes(case, 0) = 0
    BY <2>2, FirstBytesFacts
  <2>5. total' = 0 * SumFunction(Sizes(case)) + FirstBytes(case, 0)
    BY <1>1, <2>4
  <2>. QED BY <1>1, <2>1, <2>3, <2>5 DEF Averaged, case
<1>. QED BY <1>3, <1>4, <1>5 DEF LoopInv

\* An encode adds its size, which is that of its path, to the checksum; with yyjson any will do.
LEMMA LoopSize ==
    ASSUME RunInv, LoopInv, program \notin {"latency", "distribution"},
           NEW size, EncodeSize(size), KeysDangle(program, Current) \/ size = EncodeBytes
    PROVE  LoopInv'
<1>1. /\ UNCHANGED <<program, config, pc, path, repetition, rows, quantiles>>
      /\ pc = "loop" /\ iteration' = iteration + 1 /\ iteration \in Nat
  BY IterateFacts, RunFacts DEF EncodeSize
<1>2. /\ EncodeBytes' = EncodeBytes /\ EncodeBytes \in Nat
      /\ KeysDangle(program, Current)' <=> KeysDangle(program, Current)
  BY <1>1, RunFacts DEF EncodeBytes, KeysDangle, Current
<1>3. ~KeysDangle(program, Current) => bytes' = EncodeBytes /\ checksum' = checksum + EncodeBytes
  BY DEF EncodeSize
<1>4. ~KeysDangle(program, Current) => checksum = iteration * EncodeBytes
  BY <1>1 DEF LoopInv, Summed
<1>5. iteration * EncodeBytes + EncodeBytes = (iteration + 1) * EncodeBytes
  <2>1. PICK b \in Nat, i \in Nat : b = EncodeBytes /\ i = iteration
    BY <1>1, <1>2
  <2>2. i * b + b = (i + 1) * b
    OBVIOUS
  <2>. QED BY <2>1, <2>2
<1>6. Summed'
  BY <1>1, <1>2, <1>3, <1>4, <1>5 DEF Summed
<1>. QED BY <1>1, <1>6 DEF LoopInv, Allocated, Ranked, Averaged

\* A timed encode adds its size and its allocation.
LEMMA LoopLatency ==
    ASSUME RunInv, LoopInv, EncodeLatency PROVE LoopInv'
<1>1. /\ UNCHANGED <<program, config, pc, path, repetition, rows, quantiles>>
      /\ pc = "loop" /\ iteration' = iteration + 1 /\ iteration \in Nat /\ program = "latency"
      /\ iteration < config.iterations
  BY IterateFacts, RunFacts DEF EncodeLatency, Iterate
<1>. DEFINE b == EncodeBytes  a == AllocationsPerEncode
<1>2. b' = b /\ b = path /\ b \in Nat /\ a' = a /\ a \in Nat
  BY <1>1, RunFacts DEF EncodeBytes, AllocationsPerEncode, Current
<1>3. bytes' = b /\ checksum' = checksum + b /\ allocations' = allocations + a
  BY <1>2 DEF EncodeLatency
<1>4. checksum = iteration * b /\ allocations = iteration * a
  BY <1>1 DEF LoopInv, Summed, Allocated, KeysDangle
<1>5. iteration * b + b = (iteration + 1) * b /\ iteration * a + a = (iteration + 1) * a
  <2>. HIDE DEF a, b
  <2>1. \A i, x \in Nat : i * x + x = (i + 1) * x
    OBVIOUS
  <2>. QED BY <1>1, <1>2, <2>1
<1>6. Summed'
  <2>. HIDE DEF b
  <2>1. checksum' = iteration' * b /\ bytes' = b
    BY <1>1, <1>3, <1>4, <1>5
  <2>. QED BY <1>2, <2>1 DEF Summed, b
<1>7. Allocated'
  <2>. HIDE DEF a
  <2>1. allocations' = iteration' * a
    BY <1>1, <1>3, <1>4, <1>5
  <2>. QED BY <1>2, <2>1 DEF Allocated, a
<1>8. Ranked'
  <2>1. quantiles \in Seq(Samples) /\ config.iterations \in Nat
    BY RunFacts DEF RunInv, TypeOK
  <2>2. ~ (Len(quantiles) > 0) /\ Len(quantiles) \in Nat
    BY <1>1, <2>1 DEF LoopInv, Ranked
  <2>3. quantiles' = quantiles /\ \A k : k \notin 1 .. Len(quantiles)
    BY <1>1, <2>2
  <2>. QED BY <2>2, <2>3 DEF Ranked
<1>. QED BY <1>1, <1>6, <1>7, <1>8 DEF LoopInv, Averaged

\* An encode of a corpus adds the size of its next message, or of its first one again.
LEMMA LoopDistribution ==
    ASSUME RunInv, LoopInv, EncodeDistribution PROVE LoopInv'
<1>1. /\ UNCHANGED <<program, config, pc, path, repetition, rows, quantiles>>
      /\ pc = "loop" /\ iteration' = iteration + 1 /\ iteration \in Nat /\ program = "distribution"
  BY IterateFacts, RunFacts DEF EncodeDistribution
<1>. DEFINE n == CorpusSize  case == Current.case  S == SumFunction(Sizes(case))
            q == iteration \div n  r == (iteration % n)
<1>2. n \in Nat \ {0} /\ case' = case
  BY <1>1, ConstantFacts DEF Current
<1>. HIDE DEF case
<1>3. /\ FirstBytes(case, 0) = 0 /\ FirstBytes(case, n) = S /\ S \in Nat
      /\ \A k \in 0 .. n : FirstBytes(case, k) \in Nat
      /\ \A k \in 0 .. n - 1 : CorpusBytes(case, k) \in Nat
                               /\ FirstBytes(case, k + 1) = FirstBytes(case, k) + CorpusBytes(case, k)
  BY <1>2, FirstBytesFacts
<1>4. q \in Nat /\ r \in 0 .. n - 1
  BY <1>1, <1>2, Division
<1>5. \/ /\ r + 1 < n
         /\ (iteration + 1) \div n = q /\ ((iteration + 1) % n) = r + 1
      \/ /\ r + 1 = n
         /\ (iteration + 1) \div n = q + 1 /\ ((iteration + 1) % n) = 0
  BY <1>1, <1>2, NextPlace
<1>6. total = q * S + FirstBytes(case, r)
  BY <1>1 DEF LoopInv, Averaged, case
<1>7. total' = total + CorpusBytes(case, r)
  BY DEF EncodeDistribution, case
<1>. HIDE DEF n, S, q, r
<1>8. total' = q * S + FirstBytes(case, r + 1)
  <2>1. r \in 0 .. n /\ q * S \in Nat /\ FirstBytes(case, r) \in Nat /\ CorpusBytes(case, r) \in Nat
    BY <1>2, <1>3, <1>4
  <2>2. FirstBytes(case, r + 1) = FirstBytes(case, r) + CorpusBytes(case, r)
    BY <1>3, <1>4
  <2>. QED BY <1>6, <1>7, <2>1, <2>2
<1>9. total' = ((iteration + 1) \div n) * S + FirstBytes(case, (iteration + 1) % n)
  <2>1. CASE r + 1 < n
    BY <1>4, <1>5, <1>8, <2>1
  <2>2. CASE r + 1 = n
    <3>1. q * S + S = (q + 1) * S + 0
      BY <1>3, <1>4
    <3>2. (iteration + 1) \div n = q + 1 /\ ((iteration + 1) % n) = 0
      BY <1>4, <1>5, <2>2
    <3>. QED BY <1>3, <1>8, <2>2, <3>1, <3>2
  <2>. QED BY <1>5, <2>1, <2>2
<1>10. Averaged'
  BY <1>1, <1>2, <1>9 DEF Averaged, case, n, S
<1>. QED BY <1>1, <1>10 DEF LoopInv, Summed, Allocated, Ranked

\* A percentile is one of the samples, and the earlier ones still are: the samples are reordered
\* and no more.
LEMMA LoopPercentile ==
    ASSUME RunInv, LoopInv, Percentile PROVE LoopInv'
<1>1. /\ UNCHANGED <<program, config, pc, path, repetition, rows, iteration, checksum, bytes, total,
                     allocations, buffer>>
      /\ program = "latency" /\ pc = "loop" /\ iteration = config.iterations
  BY DEF Percentile
<1>. DEFINE fraction == Fractions[Len(quantiles) + 1]
            n == PercentileIndex(fraction)
<1>2. PICK reordered \in [DOMAIN samples -> Samples] :
        /\ NthElement(reordered, n)
        /\ samples' = reordered /\ quantiles' = Append(quantiles, reordered[n + 1])
  BY DEF Percentile
<1>3. samples \in Seq(Samples) /\ quantiles \in Seq(Samples) /\ Len(samples) = config.iterations
  BY <1>1 DEF RunInv, TypeOK, Prepared
<1>4. PICK l \in Nat \ {0} : l = Len(samples) /\ DOMAIN samples = 1 .. l
  <2>1. Len(samples) \in Nat \ {0} /\ DOMAIN samples = 1 .. Len(samples)
    BY <1>1, <1>3, RunFacts
  <2>. QED BY <2>1
<1>5. fraction \in Nat /\ fraction < 10000
  <2>1. Len(quantiles) < Len(Fractions) /\ Len(quantiles) \in Nat
    BY <1>3 DEF Percentile
  <2>2. Len(Fractions) = 5 /\ \A k \in 1 .. 5 : Fractions[k] \in Nat /\ Fractions[k] < 10000
    BY FractionFacts
  <2>3. PICK k \in 1 .. 5 : k = Len(quantiles) + 1
    <3>1. Len(quantiles) + 1 \in 1 .. 5
      BY <2>1, <2>2
    <3>. QED BY <3>1
  <2>. QED BY <2>2, <2>3
<1>. HIDE DEF fraction
<1>6. n \in 0 .. l - 1 /\ 10000 * (n + 1) > fraction * l /\ 10000 * n =< fraction * l
  BY <1>4, <1>5, IndexFacts
<1>. HIDE DEF n
<1>7. reordered \in [1 .. l -> Samples] /\ reordered \in [1 .. l -> Nat] /\ Len(reordered) = l
  <2>1. reordered \in [1 .. l -> Samples]
    BY <1>2, <1>4
  <2>2. reordered \in [1 .. l -> Nat]
    BY <2>1, ConstantFacts
  <2>. QED BY <2>1, <2>2
<1>8. ASSUME NEW value, NEW f, Splits(samples, value, f) PROVE Splits(reordered, value, f)
  <2>1. /\ Cardinality(UpTo(samples, value)) = Cardinality(UpTo(reordered, value))
        /\ Cardinality(Below(samples, value)) = Cardinality(Below(reordered, value))
    BY <1>2, <1>3, Reordering
  <2>. QED BY <1>4, <1>7, <1>8, <2>1 DEF Splits
<1>9. Splits(reordered, reordered[n + 1], fraction)
  <2>. DEFINE v == reordered[n + 1]
  <2>1. InPlace(reordered, l, n)
    BY <1>2, <1>7 DEF NthElement, InPlace
  <2>2. /\ Cardinality(UpTo(reordered, v)) >= n + 1
        /\ Cardinality(Below(reordered, v)) =< n
        /\ Cardinality(UpTo(reordered, v)) \in Nat /\ Cardinality(Below(reordered, v)) \in Nat
    <3>1. n \in 0 .. l - 1 /\ reordered \in [1 .. l -> Nat]
      BY <1>6, <1>7
    <3>. QED BY <2>1, <3>1, NthCounts
  <2>. HIDE DEF v
  <2>3. /\ 10000 * Cardinality(UpTo(reordered, v)) > fraction * l
        /\ 10000 * Cardinality(Below(reordered, v)) =< fraction * l
    <3>1. PICK z \in Nat : z = fraction * l
      BY <1>5
    <3>. QED BY <1>6, <2>2, <3>1
  <2>4. Splits(reordered, v, fraction)
    BY <1>7, <2>3 DEF Splits
  <2>. QED BY <2>4 DEF v
<1>11. Ranked'
  <2>1. PICK m \in Nat : m = Len(quantiles) /\ DOMAIN quantiles = 1 .. m
    BY <1>3
  <2>2. reordered[n + 1] \in Samples
    BY <1>6, <1>7
  <2>3. /\ Len(quantiles') = m + 1 /\ quantiles'[m + 1] = reordered[n + 1]
        /\ \A k \in 1 .. m : quantiles'[k] = quantiles[k]
    BY <1>2, <1>3, <2>1, <2>2
  <2>4. \A k \in 1 .. m : Splits(samples, quantiles[k], Fractions[k])
    BY <1>1, <2>1 DEF LoopInv, Ranked
  <2>5. ASSUME NEW k \in 1 .. m + 1 PROVE Splits(samples', quantiles'[k], Fractions[k])
    <3>1. k \in 1 .. m \/ k = m + 1
      OBVIOUS
    <3>2. CASE k \in 1 .. m
      <4>1. Splits(reordered, quantiles[k], Fractions[k])
        BY <1>8, <2>4, <3>2
      <4>. QED BY <1>2, <2>3, <3>2, <4>1
    <3>3. CASE k = m + 1
      BY <1>2, <1>9, <2>1, <2>3, <3>3 DEF fraction
    <3>. QED BY <3>1, <3>2, <3>3
  <2>. QED BY <1>1, <2>3, <2>5 DEF Ranked
<1>12. Summed' /\ Allocated' /\ Averaged'
  BY <1>1 DEF LoopInv, Summed, Allocated, Averaged, EncodeBytes, AllocationsPerEncode, KeysDangle, Current
<1>. QED BY <1>11, <1>12 DEF LoopInv

\* A step outside the loop leaves what the loop has.
LEMMA LoopStays ==
    ASSUME LoopInv, UNCHANGED vars PROVE LoopInv'
  BY DEF LoopInv, Summed, Allocated, Ranked, Averaged, EncodeBytes, AllocationsPerEncode, KeysDangle,
         Current, vars, loopVars

\* Every step keeps what holds of the loop.
LEMMA LoopStep == RunInv /\ LoopInv /\ [Next]_vars => LoopInv'
<1>. SUFFICES ASSUME RunInv, LoopInv, [Next]_vars PROVE LoopInv'
  OBVIOUS
<1>1. CASE ParseArgs \/ OpenCsv \/ BuildAndWarmUp \/ WriteRow
  <2>1. pc' # "loop"
    BY <1>1 DEF ParseArgs, OpenCsv, BuildAndWarmUp, WriteRow
  <2>. QED BY <2>1, LoopLeft
<1>2. CASE StartRepetition
  BY <1>2, LoopEntered
<1>3. CASE EncodeMeasured \/ EncodeRepresentation \/ EncodeFixed64
  <2>1. program \notin {"latency", "distribution"}
    BY <1>3 DEF EncodeMeasured, EncodeRepresentation, EncodeFixed64
  <2>2. PICK size : EncodeSize(size) /\ (KeysDangle(program, Current) \/ size = EncodeBytes)
    <3>1. CASE EncodeMeasured
      BY <3>1, SizeFacts DEF EncodeMeasured, EncodeBytes
    <3>2. CASE EncodeRepresentation \/ EncodeFixed64
      BY <3>2 DEF EncodeRepresentation, EncodeFixed64, EncodeBytes
    <3>. QED BY <1>3, <3>1, <3>2
  <2>. QED BY <2>1, <2>2, LoopSize
<1>4. CASE EncodeFramed
  <2>1. program = "framing" /\ pc = "loop" /\ buffer' = Framed(Current.label[1]) /\ EncodeSize(Len(buffer'))
    BY <1>4 DEF EncodeFramed, EncodeSize, Iterate
  <2>2. config.id \in Nat /\ buffer' = Frame(config.id)
    BY <2>1, EncodeFrames, RunFacts
  <2>3. Len(buffer') = 8
    BY <2>2, FrameFacts
  <2>4. EncodeSize(EncodeBytes) /\ program \notin {"latency", "distribution"}
    BY <2>1, <2>3 DEF EncodeBytes
  <2>. QED BY <2>4, LoopSize
<1>5. CASE EncodeLatency
  BY <1>5, LoopLatency
<1>6. CASE EncodeDistribution
  BY <1>6, LoopDistribution
<1>7. CASE Percentile
  BY <1>7, LoopPercentile
<1>8. CASE Ended \/ UNCHANGED vars
  BY <1>8, LoopStays DEF Ended
<1>. QED BY <1>1, <1>2, <1>3, <1>4, <1>5, <1>6, <1>7, <1>8 DEF Next

\* The smallest and the largest size of a corpus.
LEMMA SizeBounds ==
    ASSUME NEW case
    PROVE  LET sizes == {Sizes(case)[index] : index \in DOMAIN Sizes(case)}
           IN /\ Min(sizes) \in Nat /\ Max(sizes) \in Nat /\ Min(sizes) =< Max(sizes)
              /\ \A r \in 0 .. CorpusSize - 1 : Min(sizes) =< Sizes(case)[r] /\ Sizes(case)[r] =< Max(sizes)
<1>. DEFINE f == Sizes(case)  D == 0 .. CorpusSize - 1  sizes == {f[index] : index \in DOMAIN f}
<1>1. CorpusSize \in Nat \ {0}
  BY ConstantFacts
<1>2. DOMAIN f = D /\ (\A r \in D : f[r] \in Nat) /\ IsFiniteSet(D) /\ 0 \in D
  <2>1. \A r \in D : f[r] \in Nat
    BY <1>1, FirstBytesFacts
  <2>2. IsFiniteSet(D)
    <3>1. CorpusSize - 1 \in Int
      BY <1>1
    <3>. QED BY <3>1, FS_Interval
  <2>. QED BY <1>1, <2>1, <2>2 DEF Sizes
<1>. HIDE DEF f, D
<1>3. PICK s \in Nat : \A r \in D : f[r] =< s
  <2>1. SumFunctionOnSet(f, D) \in Nat /\ \A x \in D : SumFunctionOnSet(f, D) = f[x] + SumFunctionOnSet(f, D \ {x})
    BY <1>2, Summing
  <2>2. ASSUME NEW x \in D PROVE SumFunctionOnSet(f, D \ {x}) \in Nat
    <3>1. IsFiniteSet(D \ {x})
      BY <1>2, FS_RemoveElement
    <3>. QED BY <1>2, <3>1, Summing
  <2>3. ASSUME NEW x \in D PROVE f[x] =< SumFunctionOnSet(f, D)
    <3>1. f[x] \in Nat /\ SumFunctionOnSet(f, D \ {x}) \in Nat
      BY <1>2, <2>2
    <3>2. SumFunctionOnSet(f, D) = f[x] + SumFunctionOnSet(f, D \ {x})
      BY <2>1
    <3>. QED BY <3>1, <3>2
  <2>. QED BY <2>1, <2>3
<1>4. sizes \in SUBSET Nat /\ sizes \in SUBSET (0 .. s) /\ sizes # {} /\ \A r \in D : f[r] \in sizes
  BY <1>2, <1>3
<1>. HIDE DEF sizes
<1>5. Min(sizes) \in sizes /\ \A m \in sizes : Min(sizes) =< m
  BY <1>4, LeastNumber
<1>6. Max(sizes) \in sizes /\ \A m \in sizes : m =< Max(sizes)
  BY <1>4, GreatestNumber
<1>7. /\ Min(sizes) \in Nat /\ Max(sizes) \in Nat /\ Min(sizes) =< Max(sizes)
      /\ \A r \in D : Min(sizes) =< f[r] /\ f[r] =< Max(sizes)
  BY <1>4, <1>5, <1>6
<1>. QED BY <1>7 DEF sizes, f, D

\* However many of the next corpus have been encoded, the mean is near that of a corpus.
LEMMA MeanFollows ==
    ASSUME RunInv, Averaged, RowReady, program = "distribution"
    PROVE  IsMeanOfCorpus
<1>. DEFINE n == CorpusSize  i == config.iterations  case == Current.case
            size == Sizes(case)  S == SumFunction(size)
            sizes == {size[index] : index \in DOMAIN size}
            least == Min(sizes)  most == Max(sizes)
            q == i \div n  r == (i % n)  p == FirstBytes(case, r)
<1>1. pc = "loop" /\ iteration = i /\ i \in Nat /\ n \in Nat \ {0}
  BY RunFacts, ConstantFacts DEF RowReady
<1>2. total = q * S + p
  BY <1>1 DEF Averaged
<1>3. i = n * q + r /\ q \in Nat /\ r \in 0 .. n - 1
  BY <1>1, Division
<1>4. /\ least \in Nat /\ most \in Nat /\ least =< most
      /\ \A k \in 0 .. n - 1 : least =< size[k] /\ size[k] =< most
  BY SizeBounds
<1>5. IsMeanOfCorpus <=>
        LET distance == n * total - i * S
            bound == n * n * (most - least)
        IN 4 * distance =< bound /\ -4 * distance =< bound
  BY DEF IsMeanOfCorpus, Sizes
<1>. HIDE DEF size, sizes, least, most, q, r, i, case
<1>6. p \in Nat /\ S \in Nat /\ FirstBytes(case, 0) = 0 /\ FirstBytes(case, n) = S
  <2>1. \A k \in 0 .. n : FirstBytes(case, k) \in Nat
    BY <1>1, FirstBytesFacts
  <2>2. FirstBytes(case, 0) = 0 /\ FirstBytes(case, n) = S
    BY <1>1, FirstBytesFacts DEF size
  <2>3. r \in 0 .. n /\ n \in 0 .. n
    BY <1>1, <1>3
  <2>. QED BY <2>1, <2>2, <2>3
<1>7. r * least =< p /\ p =< r * most
  <2>1. r \in 0 .. n /\ 0 \in 0 .. r
    BY <1>1, <1>3
  <2>2. (r - 0) * least =< p - FirstBytes(case, 0) /\ p - FirstBytes(case, 0) =< (r - 0) * most
    BY <1>1, <1>4, <2>1, PartOfCorpus DEF size
  <2>. HIDE DEF p
  <2>3. r - 0 = r /\ p - 0 = p
    BY <1>3, <1>6
  <2>. QED BY <1>6, <2>2, <2>3
<1>8. (n - r) * least =< S - p /\ S - p =< (n - r) * most
  <2>1. n \in 0 .. n /\ r \in 0 .. n
    BY <1>1, <1>3
  <2>2. (n - r) * least =< FirstBytes(case, n) - p /\ FirstBytes(case, n) - p =< (n - r) * most
    BY <1>1, <1>4, <2>1, PartOfCorpus DEF size
  <2>. QED BY <1>6, <2>2
<1>. HIDE DEF p, S, n
<1>9. PICK rest \in Nat : S = p + rest
  <2>1. (n - r) * least \in Nat
    BY <1>1, <1>3, <1>4
  <2>2. S - p \in Nat /\ S = p + (S - p)
    BY <1>6, <1>8, <2>1
  <2>. QED BY <2>2
<1>10. n * total - i * S = n * p - r * (p + rest)
  <2>1. n * total = n * (q * S) + n * p
    BY <1>1, <1>2, <1>3, <1>6
  <2>2. i * S = n * (q * S) + r * S
    BY <1>1, <1>3, <1>6
  <2>3. PICK x \in Int, y \in Int, z \in Int : x = n * (q * S) /\ y = n * p /\ z = r * S
    BY <1>1, <1>3, <1>6
  <2>4. n * total - i * S = n * p - r * S
    BY <2>1, <2>2, <2>3
  <2>. QED BY <1>9, <2>4
<1>11. LET distance == n * p - r * (p + rest)
       IN 4 * distance =< n * n * (most - least) /\ -4 * distance =< n * n * (most - least)
  <2>1. n \in Nat /\ r \in 0 .. n /\ S - p = rest
    BY <1>1, <1>3, <1>6, <1>9
  <2>. QED BY <1>4, <1>6, <1>7, <1>8, <2>1, Spread
<1>. QED BY <1>5, <1>10, <1>11

\* A row that is ready tells of its loop.
LEMMA LoopMeasures == RunInv /\ LoopInv => RowsMeasureTheirLoop
<1>. SUFFICES ASSUME RunInv, LoopInv, RowReady PROVE
        /\ program # "distribution" /\ ~KeysDangle(program, Current) =>
                checksum = config.iterations * bytes
        /\ program = "latency" =>
            /\ allocations = config.iterations * AllocationsPerEncode
            /\ \A k \in DOMAIN Fractions : IsPercentile(quantiles[k], Fractions[k])
        /\ program = "distribution" => IsMeanOfCorpus
  BY DEF RowsMeasureTheirLoop
<1>1. pc = "loop" /\ iteration = config.iterations /\ iteration > 0
  <2>1. config.iterations \in Nat /\ (pc \notin {"args", "failed"} => config.iterations >= 1)
    BY RunFacts
  <2>. QED BY <2>1 DEF RowReady
<1>2. program # "distribution" /\ ~KeysDangle(program, Current) => checksum = config.iterations * bytes
  BY <1>1 DEF LoopInv, Summed
<1>3. program = "latency" => allocations = config.iterations * AllocationsPerEncode
  BY <1>1 DEF LoopInv, Allocated
<1>4. program = "latency" => \A k \in DOMAIN Fractions : IsPercentile(quantiles[k], Fractions[k])
  <2>1. ASSUME program = "latency", NEW k \in DOMAIN Fractions PROVE IsPercentile(quantiles[k], Fractions[k])
    <3>1. Len(quantiles) = 5 /\ k \in 1 .. 5
      BY <2>1, FractionFacts DEF RowReady
    <3>2. Splits(samples, quantiles[k], Fractions[k])
      BY <1>1, <2>1, <3>1 DEF LoopInv, Ranked
    <3>. QED BY <3>2 DEF Splits, UpTo, Below, IsPercentile
  <2>. QED BY <2>1
<1>5. program = "distribution" => IsMeanOfCorpus
  BY MeanFollows DEF LoopInv
<1>. QED BY <1>2, <1>3, <1>4, <1>5

\* A row tells of its own repetition and of nothing before it: its checksum (but for yyjson), its
\* allocations, its percentiles and the mean size of its corpus are those of its encodes.
THEOREM Measured == Spec => []RowsMeasureTheirLoop
<1>1. Init => RunInv /\ LoopInv
  BY RunInit, LoopInit
<1>2. (RunInv /\ LoopInv) /\ [Next]_vars => (RunInv /\ LoopInv)'
  BY RunStep, LoopStep
<1>. QED BY <1>1, <1>2, LoopMeasures, PTL DEF Spec

-------------------------------------------------------------------------------
(* What a consumer reads of a frame *)

\* The numbers that the bytes of b at the places s are, read big-endian, as the library folds.
AreReadings(number, b, n) ==
    number = [s \in SUBSET (1 .. n) |->
                IF s = {} THEN 0 ELSE number[s \ {Max(s)}] * 256 + b[Max(s)]]

\* The last of some places up to n.
LEMMA LastPlace ==
    ASSUME NEW n \in Nat, NEW s \in SUBSET (1 .. n + 1), s # {}
    PROVE  s \ {Max(s)} \in SUBSET (1 .. n)
<1>1. s \in SUBSET (0 .. n + 1) /\ n + 1 \in Nat
  OBVIOUS
<1>2. Max(s) \in s /\ \A m \in s : m =< Max(s)
  BY <1>1, GreatestNumber
<1>. DEFINE m == Max(s)
<1>. HIDE DEF m
<1>3. m \in s /\ \A k \in s : k =< m
  BY <1>2 DEF m
<1>4. \A k \in s \ {m} : k \in 1 .. n
  BY <1>3
<1>. QED BY <1>4 DEF m

\* There is a function that gives these numbers, so that the one the fold chooses is one.
LEMMA ReadingsExist ==
    ASSUME NEW n \in Nat, NEW b
    PROVE  \E number : AreReadings(number, b, n)
<1>. DEFINE Body(g, s) == IF s = {} THEN 0 ELSE g[s \ {Max(s)}] * 256 + b[Max(s)]
            Done == {m \in Nat : \E g : g = [s \in SUBSET (1 .. m) |-> Body(g, s)]}
<1>1. 0 \in Done
  <2>. DEFINE h == [s \in SUBSET (1 .. 0) |-> 0]
  <2>1. \A s \in SUBSET (1 .. 0) : Body(h, s) = 0
    <3>1. \A s \in SUBSET (1 .. 0) : s = {}
      OBVIOUS
    <3>. QED BY <3>1
  <2>2. h = [s \in SUBSET (1 .. 0) |-> Body(h, s)]
    <3>. HIDE DEF Body
    <3>. QED BY <2>1
  <2>. HIDE DEF h, Body
  <2>. QED BY <2>2
<1>2. ASSUME NEW m \in 0 .. n - 1, m \in Done PROVE m + 1 \in Done
  <2>0. m \in Nat /\ m + 1 \in Nat
    OBVIOUS
  <2>1. PICK g : g = [s \in SUBSET (1 .. m) |-> Body(g, s)]
    BY <1>2
  <2>. DEFINE D == SUBSET (1 .. m + 1)
              h == [s \in D |-> Body(g, s)]
  <2>2. \A s \in SUBSET (1 .. m) : s \in D
    BY <2>0
  <2>3. \A s \in SUBSET (1 .. m) : h[s] = g[s]
    <3>. HIDE DEF Body, D
    <3>. QED BY <2>1, <2>2
  <2>4. \A s \in D : s # {} => s \ {Max(s)} \in SUBSET (1 .. m)
    BY <2>0, LastPlace
  <2>5. \A s \in D : Body(h, s) = Body(g, s)
    <3>. HIDE DEF h, D
    <3>. QED BY <2>3, <2>4
  <2>6. h = [s \in D |-> Body(h, s)]
    <3>. HIDE DEF Body, D
    <3>. QED BY <2>5
  <2>7. \E f : f = [s \in SUBSET (1 .. m + 1) |-> Body(f, s)]
    <3>. HIDE DEF h, Body
    <3>. QED BY <2>6
  <2>. HIDE DEF Body
  <2>. QED BY <2>0, <2>7
<1>3. n \in Done
  <2>. HIDE DEF Done
  <2>. QED BY <1>1, <1>2, CountingUp
<1>. QED BY <1>3 DEF AreReadings

\* Four bytes, big-endian.
LEMMA FourBytes ==
    ASSUME NEW b \in [1 .. 4 -> Nat]
    PROVE  FoldLeft(LAMBDA id, byte : id * 256 + byte, 0, b)
            = 256 * (256 * (256 * b[1] + b[2]) + b[3]) + b[4]
<1>. DEFINE number == CHOOSE g : AreReadings(g, b, 4)
<1>1. FoldLeft(LAMBDA id, byte : id * 256 + byte, 0, b) = number[1 .. 4]
  <2>1. DOMAIN b = 1 .. 4
    OBVIOUS
  <2>. QED BY <2>1 DEF FoldLeft, MapThenFoldSet, AreReadings
<1>2. AreReadings(number, b, 4)
  <2>1. \E g : AreReadings(g, b, 4)
    BY ReadingsExist
  <2>. QED BY <2>1
<1>. HIDE DEF number
<1>3. \A k \in 1 .. 4 : b[k] \in Nat
  OBVIOUS
<1>4. number[{}] = 0
  BY <1>2 DEF AreReadings
<1>5. ASSUME NEW k \in 1 .. 4 PROVE number[1 .. k] = number[1 .. k - 1] * 256 + b[k]
  <2>0. k \in Nat /\ k \in 1 .. k
    OBVIOUS
  <2>1. (1 .. k) \in SUBSET (0 .. k) /\ 1 .. k # {}
    <3>1. \A j \in 1 .. k : j \in 0 .. k
      OBVIOUS
    <3>. QED BY <2>0, <3>1
  <2>2. Max(1 .. k) \in 1 .. k /\ \A m \in 1 .. k : m =< Max(1 .. k)
    BY <2>0, <2>1, GreatestNumber
  <2>3. Max(1 .. k) = k
    BY <2>0, <2>2
  <2>4. (1 .. k) \ {k} = 1 .. k - 1
    OBVIOUS
  <2>5. (1 .. k) \in SUBSET (1 .. 4)
    OBVIOUS
  <2>6. number[1 .. k] = number[(1 .. k) \ {Max(1 .. k)}] * 256 + b[Max(1 .. k)]
    BY <1>2, <2>1, <2>5 DEF AreReadings
  <2>. QED BY <2>3, <2>4, <2>6
<1>6. 1 .. 0 = {}
  OBVIOUS
<1>7. number[1 .. 1] = b[1]
  <2>1. number[1 .. 1] = number[1 .. 1 - 1] * 256 + b[1]
    BY <1>5
  <2>. QED BY <1>3, <1>4, <1>6, <2>1
<1>8. number[1 .. 2] = 256 * b[1] + b[2]
  <2>1. number[1 .. 2] = number[1 .. 2 - 1] * 256 + b[2]
    BY <1>5
  <2>. QED BY <1>3, <1>7, <2>1
<1>9. number[1 .. 3] = 256 * (256 * b[1] + b[2]) + b[3]
  <2>1. number[1 .. 3] = number[1 .. 3 - 1] * 256 + b[3]
    BY <1>5
  <2>. QED BY <1>3, <1>8, <2>1
<1>10. number[1 .. 4] = 256 * (256 * (256 * b[1] + b[2]) + b[3]) + b[4]
  <2>1. number[1 .. 4] = number[1 .. 4 - 1] * 256 + b[4]
    BY <1>5
  <2>. QED BY <1>3, <1>9, <2>1
<1>. QED BY <1>1, <1>10

\* The reading of a frame's second to fifth byte is the id, whatever id the Schema Registry gave.
LEMMA FrameRead ==
    ASSUME NEW id \in Nat, id =< MaxInt, buffer = Frame(id)
    PROVE  FrameId = id
<1>. DEFINE b == SubSeq(buffer, 2, 5)
            p == ((id \div 2 ^ 24) % 256)  q == ((id \div 2 ^ 16) % 256)
            r == ((id \div 2 ^ 8) % 256)  t == (id % 256)
<1>1. buffer \in Seq(0 .. 255) /\ Len(buffer) = 8 /\ \A k \in 1 .. 6 : buffer[k] = Prefix(id)[k]
  BY FrameFacts
<1>2. \A k \in 1 .. 4 : b[k] = buffer[k + 1]
  BY <1>1
<1>3. b = [k \in 1 .. 4 |-> b[k]]
  BY <1>1
<1>4. /\ Prefix(id)[2] = p /\ Prefix(id)[3] = q
      /\ Prefix(id)[4] = r /\ Prefix(id)[5] = t
  BY DEF Prefix
<1>. HIDE DEF b, p, q, r, t
<1>5. b[1] = p /\ b[2] = q /\ b[3] = r /\ b[4] = t
  BY <1>1, <1>2, <1>4
<1>6. {p, q, r, t} \subseteq Nat
  <2>1. 2 ^ 24 \in Nat \ {0} /\ 2 ^ 16 \in Nat \ {0} /\ 2 ^ 8 \in Nat \ {0}
    BY SMT
  <2>2. \A n \in Nat \ {0} : id \div n \in Nat
    OBVIOUS
  <2>3. \A x \in Nat : (x % 256) \in Nat
    OBVIOUS
  <2>. QED BY <2>1, <2>2, <2>3 DEF p, q, r, t
<1>7. b \in [1 .. 4 -> Nat]
  <2>1. \A k \in 1 .. 4 : k = 1 \/ k = 2 \/ k = 3 \/ k = 4
    OBVIOUS
  <2>2. \A k \in 1 .. 4 : b[k] \in Nat
    BY <1>5, <1>6, <2>1
  <2>. QED BY <1>3, <2>2
<1>8. FrameId = 256 * (256 * (256 * b[1] + b[2]) + b[3]) + b[4]
  <2>1. FrameId = FoldLeft(LAMBDA i, byte : i * 256 + byte, 0, b)
    BY DEF FrameId, b
  <2>. QED BY <1>7, <2>1, FourBytes
<1>9. id = 256 * (256 * (256 * p + q) + r) + t
  <2>1. id < 2 ^ 31
    <3>1. MaxInt < 2 ^ 31
      BY SMT DEF MaxInt
    <3>. QED BY <3>1, SMT DEF MaxInt
  <2>. QED BY <2>1, SMT DEF p, q, r, t
<1>. QED BY <1>5, <1>8, <1>9

\* An iteration of a framing path has left the frame of the message in the buffer.
Framing == program = "framing" /\ pc = "loop" /\ iteration > 0 => buffer = Frame(config.id)

\* It holds before the first iteration of each repetition, of which there is none yet.
LEMMA FramingInit == Init => Framing
  BY DEF Init, Framing

\* Each step keeps it: an encode writes the whole frame, and nothing else in the loop writes.
LEMMA FramingStep == RunInv /\ Framing /\ [Next]_vars => Framing'
<1>. SUFFICES ASSUME RunInv, Framing, [Next]_vars PROVE Framing'
  OBVIOUS
<1>. USE DEF Framing
<1>1. CASE UNCHANGED vars
  BY <1>1 DEF vars, loopVars
<1>2. CASE EncodeFramed
  <2>1. program = "framing" /\ pc = "loop" /\ buffer' = Framed(Current.label[1]) /\ config' = config
    BY <1>2 DEF EncodeFramed, EncodeSize, Iterate
  <2>. QED BY <2>1, EncodeFrames
<1>3. CASE EncodeMeasured \/ EncodeRepresentation \/ EncodeFixed64 \/ EncodeLatency \/ EncodeDistribution
  BY <1>3 DEF EncodeMeasured, EncodeRepresentation, EncodeFixed64, EncodeLatency, EncodeDistribution,
        EncodeSize, Iterate
<1>4. CASE ParseArgs \/ OpenCsv \/ BuildAndWarmUp \/ StartRepetition \/ Percentile \/ WriteRow
  BY <1>4 DEF ParseArgs, OpenCsv, BuildAndWarmUp, StartRepetition, Percentile, WriteRow
<1>5. CASE Ended
  BY <1>5 DEF Ended, vars, loopVars
<1>. QED BY <1>1, <1>2, <1>3, <1>4, <1>5 DEF Next

\* From the frame a consumer reads what the property names.
LEMMA FramingReads == RunInv /\ Framing => FramesTheMessage
<1>. SUFFICES ASSUME RunInv, buffer = Frame(config.id)
              PROVE  /\ Len(buffer) = 6 + Len(Payload) /\ buffer[1] = 0 /\ buffer[6] = 0
                     /\ FrameId = config.id /\ SubSeq(buffer, 7, Len(buffer)) = Payload
  BY DEF Framing, FramesTheMessage
<1>1. config.id \in Nat /\ config.id =< MaxInt
  <2>1. config.id \in SchemaIds /\ SchemaIds \subseteq 1 .. MaxInt
    BY MeasuredAssumption DEF RunInv, TypeOK
  <2>2. MaxInt \in Nat
    BY SMT DEF MaxInt
  <2>. DEFINE m == MaxInt  id == config.id
  <2>. HIDE DEF m, id
  <2>3. id \in 1 .. m /\ m \in Nat
    BY <2>1, <2>2 DEF m, id
  <2>4. id \in Nat /\ id =< m
    BY <2>3
  <2>. QED BY <2>4 DEF m, id
<1>2. /\ buffer \in Seq(0 .. 255) /\ Len(buffer) = 8 /\ Len(Payload) = 2
      /\ \A k \in 1 .. 6 : buffer[k] = Prefix(config.id)[k]
      /\ buffer[7] = Payload[1] /\ buffer[8] = Payload[2]
  <2>. DEFINE f == Frame(config.id)
  <2>1. /\ f \in Seq(0 .. 255) /\ Len(f) = 8 /\ Len(Payload) = 2
        /\ \A k \in 1 .. 6 : f[k] = Prefix(config.id)[k]
        /\ f[7] = Payload[1] /\ f[8] = Payload[2]
    BY <1>1, FrameFacts, Zenon
  <2>. QED BY <2>1
<1>3. Prefix(config.id)[1] = 0 /\ Prefix(config.id)[6] = 0
  BY DEF Prefix
<1>4. SubSeq(buffer, 7, 8) = <<buffer[7], buffer[8]>>
  <2>. DEFINE s == SubSeq(buffer, 7, 8)
  <2>1. Len(s) = 2 /\ s = [k \in 1 .. 2 |-> s[k]]
    BY <1>2
  <2>2. s[1] = buffer[7] /\ s[2] = buffer[8]
    BY <1>2
  <2>. HIDE DEF s
  <2>3. s \in Seq({s[1], s[2]})
    <3>1. \A k \in 1 .. 2 : s[k] \in {s[1], s[2]}
      OBVIOUS
    <3>. QED BY <2>1, <3>1
  <2>4. s = <<s[1], s[2]>>
    BY <2>1, <2>3
  <2>. QED BY <2>2, <2>4 DEF s
<1>5. Payload = <<Payload[1], Payload[2]>>
  BY DEF Payload
<1>. QED BY <1>1, <1>2, <1>3, <1>4, <1>5, FrameRead

\* Every iteration of a framing path leaves a frame from which a consumer reads the schema's id,
\* up to the largest int, and the message.
THEOREM FramesRead == Spec => []FramesTheMessage
<1>1. Init => RunInv /\ Framing
  BY RunInit, FramingInit
<1>2. (RunInv /\ Framing) /\ [Next]_vars => (RunInv /\ Framing)'
  BY RunStep, FramingStep
<1>. QED BY <1>1, <1>2, FramingReads, PTL DEF Spec
===============================================================================
