-------------------------- MODULE KafkaMatrixProofs --------------------------
(***************************************************************************)
(* Proofs about KafkaMatrix, for any number of configurations and of       *)
(* invocations.  Unless a cleaning was cut short the files of the          *)
(* directory are numbered without a gap, so that an appending invocation   *)
(* starts behind the last of them; whatever they are numbered, a report    *)
(* covers the selection exactly as far as MAX_RUNS lets it, and no         *)
(* configuration of it is pieced together from several runs.               *)
(***************************************************************************)
EXTENDS KafkaMatrix, FiniteSetTheorems, WellFoundedInduction, TLAPS

-------------------------------------------------------------------------------
(* The numbers of the files *)

Inside == pc \in {"loop", "bench", "write"}

\* A failed start leaves run_index ahead of the files, but then the script has ended.
Numbering ==
    /\ runIndex \in Nat /\ IsFiniteSet(DOMAIN files)
    /\ ~torn => \E k \in Nat : DOMAIN files = 1 .. k
    /\ ~torn /\ Inside => DOMAIN files = 1 .. runIndex
    /\ Inside => Cardinality(DOMAIN files) =< runIndex

\* The directory is empty at first.
LEMMA InitNumbering == Init => Numbering
<1>. SUFFICES ASSUME Init PROVE Numbering
  OBVIOUS
<1>1. runIndex = 0 /\ pc = "ended" /\ DOMAIN files = {}
  BY DEF Init, NoFiles
<1>2. DOMAIN files = 1 .. 0 /\ IsFiniteSet(DOMAIN files)
  BY <1>1, FS_EmptySet
<1>. QED BY <1>1, <1>2 DEF Numbering, Inside

\* An invocation touches nothing before it cleans, and what the cleaning leaves has gaps.
LEMMA CleanNumbering == Numbering /\ (Invoke \/ RemoveFile) => Numbering'
<1>. SUFFICES ASSUME Numbering, Invoke \/ RemoveFile PROVE Numbering'
  OBVIOUS
<1>1. CASE Invoke
  <2>1. pc' = "clean" /\ UNCHANGED <<files, torn, runIndex>>
    BY <1>1 DEF Invoke
  <2>. QED BY <2>1 DEF Numbering, Inside
<1>2. CASE RemoveFile
  <2>1. PICK n \in DOMAIN files : files' = [m \in DOMAIN files \ {n} |-> files[m]]
    BY <1>2 DEF RemoveFile
  <2>2. DOMAIN files' \subseteq DOMAIN files
    BY <2>1
  <2>3. IsFiniteSet(DOMAIN files')
    BY <2>2, FS_Subset DEF Numbering
  <2>4. torn' = TRUE /\ runIndex' = runIndex /\ pc' = "clean"
    BY <1>2 DEF RemoveFile
  <2>. QED BY <2>3, <2>4 DEF Numbering, Inside
<1>. QED BY <1>1, <1>2

\* Counting the files kept gives the number of the last one.
LEMMA EnterNumbering == Numbering /\ EnterLoops => Numbering' /\ kept' \in Nat /\ runIndex' = kept'
<1>. SUFFICES ASSUME Numbering, EnterLoops PROVE Numbering' /\ kept' \in Nat /\ runIndex' = kept'
  OBVIOUS
<1>1. /\ (append \/ DOMAIN files = {}) /\ torn' = (torn /\ append) /\ files' = files
      /\ kept' = Cardinality(DOMAIN files) /\ runIndex' = FirstIndex(append) /\ pc' = "loop"
  BY DEF EnterLoops
<1>2. kept' \in Nat /\ IsFiniteSet(DOMAIN files')
  BY <1>1, FS_CardinalityType DEF Numbering
<1>3. CASE append
  <2>1. runIndex' = kept' /\ (~torn' => ~torn)
    BY <1>1, <1>3 DEF FirstIndex
  <2>2. ~torn => DOMAIN files = 1 .. kept'
    <3>. SUFFICES ASSUME ~torn PROVE DOMAIN files = 1 .. kept'
      OBVIOUS
    <3>1. PICK k \in Nat : DOMAIN files = 1 .. k
      BY DEF Numbering
    <3>2. Cardinality(1 .. k) = k
      BY <3>1, FS_Interval
    <3>. QED BY <1>1, <3>1, <3>2
  <2>. QED BY <1>1, <1>2, <2>1, <2>2 DEF Numbering
<1>4. CASE ~append
  <2>1. DOMAIN files = {} /\ runIndex' = 0
    BY <1>1, <1>4 DEF EnterLoops, FirstIndex
  <2>2. kept' = 0
    BY <1>1, <2>1, FS_EmptySet
  <2>3. DOMAIN files' = 1 .. 0 /\ Cardinality(DOMAIN files') = 0
    BY <1>1, <2>1, FS_EmptySet
  <2>. QED BY <1>2, <2>1, <2>2, <2>3 DEF Numbering
<1>. QED BY <1>3, <1>4

\* A run's file is the one behind the last, or one of the leftovers.
LEMMA StartNumbering == Numbering /\ StartBench => Numbering'
<1>. SUFFICES ASSUME Numbering, StartBench PROVE Numbering'
  OBVIOUS
<1>1. /\ runIndex \in Nat /\ (~torn => DOMAIN files = 1 .. runIndex) /\ torn' = torn
      /\ runIndex' = runIndex + 1 /\ DOMAIN files' = DOMAIN files \cup {runIndex + 1}
  BY DEF Numbering, Inside, StartBench, FileNumber
<1>2. IsFiniteSet(DOMAIN files') /\ Cardinality(DOMAIN files') =< runIndex'
  <2>1. IsFiniteSet(DOMAIN files) /\ Cardinality(DOMAIN files) =< runIndex
    BY DEF Numbering, Inside, StartBench
  <2>2. /\ IsFiniteSet(DOMAIN files \cup {runIndex + 1}) /\ Cardinality(DOMAIN files) \in Nat
        /\ \/ Cardinality(DOMAIN files \cup {runIndex + 1}) = Cardinality(DOMAIN files)
           \/ Cardinality(DOMAIN files \cup {runIndex + 1}) = Cardinality(DOMAIN files) + 1
    BY <2>1, FS_AddElement, FS_CardinalityType
  <2>. DEFINE old == Cardinality(DOMAIN files)  new == Cardinality(DOMAIN files \cup {runIndex + 1})
  <2>3. old =< runIndex /\ old \in Nat /\ (new = old \/ new = old + 1)
    BY <2>1, <2>2
  <2>4. Cardinality(DOMAIN files') = new /\ IsFiniteSet(DOMAIN files')
    BY <1>1, <2>2
  <2>. HIDE DEF old, new
  <2>5. new =< runIndex + 1
    BY <1>1, <2>3
  <2>. QED BY <1>1, <2>4, <2>5
<1>3. ~torn' => DOMAIN files' = 1 .. runIndex'
  BY <1>1
<1>4. runIndex' \in Nat
  BY <1>1
<1>. QED BY <1>2, <1>3, <1>4 DEF Numbering

\* The other steps leave the numbers alone, or end the script.
LEMMA OtherNumbering ==
    Numbering /\ (StartFails \/ Repetition \/ BenchDone \/ BenchThrows \/ WriteReport \/ RefuseReport
                    \/ Killed \/ Idle) => Numbering'
<1>. SUFFICES ASSUME Numbering,
                     StartFails \/ Repetition \/ BenchDone \/ BenchThrows \/ WriteReport
                       \/ RefuseReport \/ Killed \/ Idle
              PROVE  Numbering'
  OBVIOUS
<1>1. CASE StartFails
  <2>1. pc' = "ended" /\ UNCHANGED <<files, torn>> /\ runIndex' = runIndex + 1
    BY <1>1 DEF StartFails
  <2>. QED BY <2>1 DEF Numbering, Inside
<1>2. CASE BenchDone \/ BenchThrows
  <2>1. /\ DOMAIN files' = DOMAIN files /\ runIndex' = runIndex /\ torn' = torn
        /\ pc = "bench" /\ pc' \in {"loop", "write", "ended"}
    BY <1>2 DEF BenchDone, BenchThrows, CloseFile
  <2>. QED BY <2>1 DEF Numbering, Inside
<1>3. CASE Repetition \/ WriteReport \/ RefuseReport \/ Killed
  <2>1. UNCHANGED <<files, torn, runIndex>> /\ (Inside' => pc' = pc)
    BY <1>3 DEF Repetition, WriteReport, RefuseReport, Killed, Inside
  <2>. QED BY <2>1 DEF Numbering, Inside
<1>4. CASE Idle
  BY <1>4 DEF Idle, vars, Numbering, Inside
<1>. QED BY <1>1, <1>2, <1>3, <1>4

-------------------------------------------------------------------------------
(* What the loops have visited *)

\* A configuration's file has its rows, except for the benchmark that is running, and a number
\* that no later run of the invocation takes; without APPEND_RESULTS the directory has nothing
\* else.  The run counter counts the files kept and the visits, and MAX_RUNS ends them in time.
Coverage ==
    /\ pc = "clean" => repetitions > 0 /\ todo = selected
    /\ Inside =>
        /\ repetitions > 0
        /\ runIndex = kept + Cardinality(Visited)
        /\ \A c \in Visited : \E n \in DOMAIN files :
              /\ n =< runIndex /\ files[n].config = c
              /\ files[n].rows > 0 \/ (pc = "bench" /\ n = runIndex)
        /\ ~append => \A n \in DOMAIN files : files[n].config \in Visited
        /\ \A c \in Visited, d \in todo : c < d
        /\ pc = "loop" => Cardinality(Visited) = 0 \/ maxRuns = 0 \/ runIndex < maxRuns
        /\ pc # "loop" => Cardinality(Visited) >= 1
        /\ maxRuns > 0 => Cardinality(Visited) =< 1 \/ runIndex =< maxRuns
        /\ pc = "write" => todo = {} \/ (maxRuns > 0 /\ runIndex >= maxRuns)

Inv == TypeOK /\ Numbering /\ Coverage /\ CoversSelection

\* A selection is finite, and so is the visited part of it.
LEMMA VisitedFinite ==
    ASSUME TypeOK
    PROVE  IsFiniteSet(Visited) /\ Cardinality(Visited) \in Nat
<1>1. IsFiniteSet(1 .. ConfigCount)
  BY MatrixAssumption, FS_Interval
<1>2. Visited \in SUBSET (1 .. ConfigCount)
  BY DEF TypeOK, Visited, Configs
<1>3. IsFiniteSet(Visited)
  BY <1>1, <1>2, FS_Subset
<1>. QED BY <1>3, FS_CardinalityType

\* A set of numbers that has one has a least one.
LEMMA LeastNumber ==
    ASSUME NEW T \in SUBSET Nat, T # {}
    PROVE  \E n \in T : \A m \in T : n =< m
<1>1. \E n \in T : \A m \in T : ~(<<m, n>> \in OpToRel(<, Nat))
  BY NatLessThanWellFounded, WFMin
<1>2. \A m, n \in Nat : m < n => <<m, n>> \in OpToRel(<, Nat)
  BY DEF OpToRel
<1>3. PICK n \in T : \A m \in T : ~(<<m, n>> \in OpToRel(<, Nat))
  BY <1>1
<1>4. \A m \in T : m \in Nat /\ n \in Nat /\ ~(m < n)
  BY <1>2, <1>3
<1>5. \A m \in T : n =< m
  BY <1>4
<1>. QED BY <1>5

\* The loops always find a next configuration among those left.
LEMMA NextConfig ==
    ASSUME TypeOK, todo # {}
    PROVE  Min(todo) \in todo /\ \A c \in todo \ {Min(todo)} : Min(todo) < c
<1>1. todo \in SUBSET Nat
  BY MatrixAssumption DEF TypeOK, Configs
<1>2. \E n \in todo : \A m \in todo : n =< m
  BY <1>1, LeastNumber
<1>3. Min(todo) \in todo /\ \A c \in todo : Min(todo) =< c
  BY <1>2 DEF Min
<1>. DEFINE least == Min(todo)
<1>. HIDE DEF least
<1>4. least \in todo /\ \A c \in todo : least =< c
  BY <1>3 DEF least
<1>5. \A c \in todo \ {least} : least < c
  BY <1>1, <1>4
<1>. QED BY <1>4, <1>5 DEF least

\* Nothing is visited, reported or left over at first.
LEMMA InitInv == Init => Inv
<1>. SUFFICES ASSUME Init PROVE Inv
  OBVIOUS
<1>1. TypeOK
  <2>1. append \in BOOLEAN /\ torn \in BOOLEAN
    BY DEF Init
  <2>2. invocation \in 0 .. MaxInvocations /\ measured \in 0 .. repetitions /\ pc = "ended"
    BY MatrixAssumption DEF Init
  <2>3. report \in [configs : SUBSET Configs, runs : Nat, repetitions : Nat]
    BY DEF Init, NoReport
  <2>4. DOMAIN files = {}
    BY DEF Init, NoFiles
  <2>5. /\ maxRuns \in Nat /\ repetitions \in Nat /\ kept \in Nat /\ runIndex \in Nat
        /\ selected = {} /\ todo = {}
    BY DEF Init
  <2>. QED BY <2>1, <2>2, <2>3, <2>4, <2>5 DEF TypeOK
<1>2. Coverage /\ CoversSelection
  BY DEF Init, Coverage, CoversSelection, Inside
<1>. QED BY <1>1, <1>2, InitNumbering DEF Inv

\* An invocation has everything before it.
LEMMA InvokeInv == Inv /\ Invoke => Inv'
<1>. SUFFICES ASSUME Inv, Invoke PROVE Inv'
  OBVIOUS
<1>. USE MatrixAssumption
<1>1. /\ append' \in BOOLEAN /\ maxRuns' \in RunLimits /\ repetitions' \in Contracts
      /\ selected' \in SUBSET Configs /\ todo' = selected' /\ measured' = 0 /\ pc' = "clean"
      /\ invocation' = invocation + 1 /\ invocation < MaxInvocations
      /\ UNCHANGED <<files, report, torn, kept, runIndex>>
  BY DEF Invoke
<1>2. Numbering'
  BY CleanNumbering DEF Inv
<1>3. TypeOK'
  <2>1. maxRuns' \in Nat /\ repetitions' \in Nat /\ measured' \in 0 .. repetitions'
    BY <1>1
  <2>2. invocation' \in 0 .. MaxInvocations
    BY <1>1 DEF Inv, TypeOK
  <2>. QED BY <1>1, <2>1, <2>2 DEF Inv, TypeOK
<1>4. Coverage' /\ CoversSelection'
  BY <1>1 DEF Coverage, CoversSelection, Inside
<1>. QED BY <1>2, <1>3, <1>4 DEF Inv

\* Cleaning takes files away and changes none of those it leaves.
LEMMA RemoveFileInv == Inv /\ RemoveFile => Inv'
<1>. SUFFICES ASSUME Inv, RemoveFile PROVE Inv'
  OBVIOUS
<1>1. /\ pc = "clean" /\ torn' = TRUE
      /\ UNCHANGED <<report, pc, invocation, append, maxRuns, repetitions, selected, todo, kept,
                     runIndex, measured>>
  BY DEF RemoveFile, optionVars
<1>2. DOMAIN files' \subseteq DOMAIN files /\ \A n \in DOMAIN files' : files'[n] = files[n]
  BY DEF RemoveFile
<1>3. Numbering'
  BY CleanNumbering DEF Inv
<1>4. TypeOK'
  BY <1>1, <1>2 DEF Inv, TypeOK
<1>5. Coverage' /\ CoversSelection'
  BY <1>1 DEF Inv, Coverage, CoversSelection, Inside
<1>. QED BY <1>3, <1>4, <1>5 DEF Inv

\* Before the loops nothing is visited, and without APPEND_RESULTS there is no file.
LEMMA EnterLoopsInv == Inv /\ EnterLoops => Inv'
<1>. SUFFICES ASSUME Inv, EnterLoops PROVE Inv'
  OBVIOUS
<1>1. /\ pc = "clean" /\ pc' = "loop" /\ (append \/ DOMAIN files = {}) /\ torn' = (torn /\ append)
      /\ UNCHANGED <<files, report, invocation, append, maxRuns, repetitions, selected, todo, measured>>
  BY DEF EnterLoops, optionVars
<1>2. Numbering' /\ kept' \in Nat /\ runIndex' = kept'
  BY EnterNumbering DEF Inv
<1>3. TypeOK'
  BY <1>1, <1>2 DEF Inv, TypeOK
<1>4. Visited' = {} /\ Cardinality({}) = 0 /\ repetitions' > 0
  BY <1>1, FS_EmptySet DEF Inv, Coverage, Visited
<1>5. Coverage'
  BY <1>1, <1>2, <1>4 DEF Coverage, Inside
<1>6. CoversSelection'
  BY <1>1 DEF CoversSelection
<1>. QED BY <1>2, <1>3, <1>5, <1>6 DEF Inv

\* A run's configuration counts as visited, and its file is the one that is running.
LEMMA StartBenchInv == Inv /\ StartBench => Inv'
<1>. SUFFICES ASSUME Inv, StartBench PROVE Inv'
  OBVIOUS
<1>. DEFINE config == Min(todo)
<1>1. /\ pc = "loop" /\ pc' = "bench" /\ todo # {} /\ todo' = todo \ {config}
      /\ runIndex' = runIndex + 1 /\ measured' = 0
      /\ files' = [n \in DOMAIN files \cup {runIndex + 1} |->
                        IF n = runIndex + 1 THEN [config |-> config, rows |-> 0] ELSE files[n]]
      /\ UNCHANGED <<report, torn, invocation, append, maxRuns, repetitions, selected, kept>>
  BY DEF StartBench, FileNumber, optionVars
<1>2. /\ config \in todo /\ config \in selected /\ config \in Configs
      /\ \A c \in todo \ {config} : config < c
  BY <1>1, NextConfig DEF Inv, TypeOK
<1>. HIDE DEF config
<1>3. runIndex \in Nat /\ kept \in Nat /\ maxRuns \in Nat /\ DOMAIN files \subseteq Nat
  BY DEF Inv, TypeOK
<1>4. Numbering'
  BY StartNumbering DEF Inv
<1>5. /\ DOMAIN files' = DOMAIN files \cup {runIndex + 1}
      /\ files'[runIndex + 1] = [config |-> config, rows |-> 0]
      /\ \A n \in DOMAIN files : n # runIndex + 1 => files'[n] = files[n]
  BY <1>1
<1>6. TypeOK'
  <2>1. \A n \in DOMAIN files' : files'[n] \in [config : Configs, rows : Nat]
    BY <1>1, <1>2 DEF Inv, TypeOK
  <2>2. DOMAIN files' \subseteq Nat /\ runIndex' \in DOMAIN files' /\ runIndex' \in Nat
    BY <1>1, <1>3, <1>5
  <2>3. todo' \subseteq selected' /\ measured' \in 0 .. repetitions'
    BY <1>1 DEF Inv, TypeOK
  <2>. QED BY <1>1, <2>1, <2>2, <2>3 DEF Inv, TypeOK
<1>7. Visited' = Visited \cup {config} /\ config \notin Visited
  BY <1>1, <1>2 DEF Visited
<1>8. Cardinality(Visited') = Cardinality(Visited) + 1 /\ Cardinality(Visited) \in Nat
  BY <1>7, VisitedFinite, FS_AddElement DEF Inv
<1>9. Coverage'
  <2>1. \A c \in Visited' : \E n \in DOMAIN files' :
            n =< runIndex + 1 /\ files'[n].config = c /\ (files'[n].rows > 0 \/ n = runIndex + 1)
    <3>1. ASSUME NEW c \in Visited
          PROVE  \E n \in DOMAIN files' : n =< runIndex + 1 /\ files'[n].config = c /\ files'[n].rows > 0
      <4>1. PICK n \in DOMAIN files : n =< runIndex /\ files[n].config = c /\ files[n].rows > 0
        BY <1>1 DEF Inv, Coverage, Inside
      <4>2. n \in DOMAIN files' /\ n =< runIndex + 1 /\ files'[n] = files[n]
        BY <1>3, <1>5, <4>1
      <4>. QED BY <4>1, <4>2
    <3>2. runIndex + 1 \in DOMAIN files' /\ files'[runIndex + 1].config = config
      BY <1>5
    <3>. QED BY <1>3, <1>7, <3>1, <3>2
  <2>2. ~append => \A n \in DOMAIN files' : files'[n].config \in Visited'
    BY <1>1, <1>5, <1>7 DEF Inv, Coverage, Inside
  <2>3. \A c \in Visited', d \in todo' : c < d
    <3>1. \A c \in Visited, d \in todo : c < d
      BY <1>1 DEF Inv, Coverage, Inside
    <3>. QED BY <1>1, <1>2, <1>7, <3>1
  <2>4. /\ runIndex' = kept + Cardinality(Visited') /\ Cardinality(Visited') >= 1
        /\ maxRuns > 0 => Cardinality(Visited') =< 1 \/ runIndex' =< maxRuns
    <3>. DEFINE v == Cardinality(Visited)  w == Cardinality(Visited')
    <3>1. /\ v \in Nat /\ runIndex = kept + v /\ w = v + 1
          /\ v = 0 \/ maxRuns = 0 \/ runIndex < maxRuns
      BY <1>1, <1>8 DEF Inv, Coverage, Inside
    <3>. HIDE DEF v, w
    <3>2. runIndex' = kept + w /\ w >= 1 /\ (maxRuns > 0 => w =< 1 \/ runIndex' =< maxRuns)
      BY <1>1, <1>3, <3>1
    <3>. QED BY <3>2 DEF w
  <2>5. repetitions' > 0
    BY <1>1 DEF Inv, Coverage, Inside
  <2>6. kept' = kept /\ maxRuns' = maxRuns /\ pc' = "bench" /\ runIndex' = runIndex + 1
    BY <1>1
  <2>7. \A c \in Visited' : \E n \in DOMAIN files' :
            /\ n =< runIndex' /\ files'[n].config = c
            /\ files'[n].rows > 0 \/ (pc' = "bench" /\ n = runIndex')
    BY <2>1, <2>6
  <2>8. ~append' => \A n \in DOMAIN files' : files'[n].config \in Visited'
    BY <1>1, <2>2
  <2>. QED BY <2>3, <2>4, <2>5, <2>6, <2>7, <2>8 DEF Coverage, Inside
<1>10. CoversSelection'
  BY <1>1 DEF CoversSelection
<1>. QED BY <1>4, <1>6, <1>9, <1>10 DEF Inv

\* Closing the file of a run that ended well gives its configuration all its rows.
LEMMA BenchDoneInv == Inv /\ BenchDone => Inv'
<1>. SUFFICES ASSUME Inv, BenchDone PROVE Inv'
  OBVIOUS
<1>1. /\ pc = "bench" /\ measured = repetitions
      /\ files' = [files EXCEPT ![runIndex].rows = measured]
      /\ pc' = IF LimitReached \/ todo = {} THEN "write" ELSE "loop"
      /\ UNCHANGED <<report, torn, invocation, append, maxRuns, repetitions, selected, todo, kept,
                     runIndex, measured>>
  BY DEF BenchDone, CloseFile, optionVars
<1>2. /\ runIndex \in Nat /\ runIndex \in DOMAIN files /\ maxRuns \in Nat
      /\ repetitions \in Nat /\ repetitions > 0
      /\ \A n \in DOMAIN files : files[n] \in [config : Configs, rows : Nat]
  BY <1>1 DEF Inv, TypeOK, Coverage, Inside
<1>3. pc' \in {"loop", "write"} /\ Inside'
  BY <1>1 DEF Inside
<1>4. DOMAIN files' = DOMAIN files
  BY <1>1
<1>5. \A n \in DOMAIN files :
        /\ files'[n] \in [config : Configs, rows : Nat] /\ files'[n].config = files[n].config
        /\ files'[n].rows = IF n = runIndex THEN measured ELSE files[n].rows
  BY <1>1, <1>2
<1>6. Numbering'
  BY OtherNumbering DEF Inv
<1>7. TypeOK'
  BY <1>1, <1>3, <1>4, <1>5 DEF Inv, TypeOK
<1>8. Coverage'
  <2>1. Visited' = Visited
    BY <1>1 DEF Visited
  <2>2. \A c \in Visited : \E n \in DOMAIN files' :
            n =< runIndex /\ files'[n].config = c /\ files'[n].rows > 0
    <3>1. \A c \in Visited : \E n \in DOMAIN files :
            n =< runIndex /\ files[n].config = c /\ (files[n].rows > 0 \/ n = runIndex)
      BY <1>1 DEF Inv, Coverage, Inside
    <3>. QED BY <1>1, <1>2, <1>4, <1>5, <3>1
  <2>3. ~append => \A n \in DOMAIN files' : files'[n].config \in Visited
    BY <1>1, <1>4, <1>5 DEF Inv, Coverage, Inside
  <2>4. /\ \A c \in Visited, d \in todo : c < d
        /\ runIndex = kept + Cardinality(Visited) /\ Cardinality(Visited) >= 1
        /\ maxRuns > 0 => Cardinality(Visited) =< 1 \/ runIndex =< maxRuns
    BY <1>1 DEF Inv, Coverage, Inside
  <2>5. /\ pc' = "loop" => maxRuns = 0 \/ runIndex < maxRuns
        /\ pc' = "write" => todo = {} \/ (maxRuns > 0 /\ runIndex >= maxRuns)
    BY <1>1, <1>2 DEF LimitReached
  <2>. QED BY <1>1, <1>2, <1>3, <2>1, <2>2, <2>3, <2>4, <2>5 DEF Coverage
<1>9. CoversSelection'
  BY <1>3 DEF CoversSelection
<1>. QED BY <1>6, <1>7, <1>8, <1>9 DEF Inv

\* A report is made of the files that have rows.
LEMMA WriteReportInv == Inv /\ WriteReport => Inv'
<1>. SUFFICES ASSUME Inv, WriteReport PROVE Inv'
  OBVIOUS
<1>1. /\ pc = "write" /\ pc' = "reported"
      /\ report' = [configs |-> Reported, runs |-> runIndex, repetitions |-> repetitions]
      /\ UNCHANGED <<files, torn, invocation, append, maxRuns, repetitions, selected, todo, kept,
                     runIndex, measured>>
  BY DEF WriteReport, optionVars
<1>2. Reported \in SUBSET Configs
  BY DEF Inv, TypeOK, Reported
<1>3. TypeOK'
  BY <1>1, <1>2 DEF Inv, TypeOK
<1>4. Numbering'
  BY OtherNumbering DEF Inv
<1>5. Coverage'
  BY <1>1 DEF Coverage, Inside
<1>6. CoversSelection'
  <2>1. report'.configs = Reported /\ Visited' = Visited
    BY <1>1 DEF Visited
  <2>2. Visited \subseteq Reported
    BY <1>1 DEF Inv, Coverage, Inside, Reported
  <2>3. ~append => Reported \subseteq Visited
    BY <1>1 DEF Inv, Coverage, Inside, Reported
  <2>4. ~append => Reported = Visited
    BY <2>2, <2>3
  <2>5. /\ \A c \in Visited, d \in todo : c < d
        /\ runIndex = kept + Cardinality(Visited) /\ Cardinality(Visited) >= 1
        /\ maxRuns > 0 => Cardinality(Visited) =< 1 \/ runIndex =< maxRuns
        /\ todo = {} \/ (maxRuns > 0 /\ runIndex >= maxRuns)
    BY <1>1 DEF Inv, Coverage, Inside
  <2>6. Cardinality(Visited) \in Nat
    BY VisitedFinite DEF Inv
  <2>7. maxRuns > 0 => Cardinality(Visited) = 1 \/ runIndex =< maxRuns
    BY <2>5, <2>6
  <2>. QED BY <1>1, <2>1, <2>2, <2>4, <2>5, <2>7 DEF CoversSelection
<1>. QED BY <1>3, <1>4, <1>5, <1>6 DEF Inv

\* The steps that measure, fail or do nothing.
LEMMA OtherInv ==
    Inv /\ (StartFails \/ Repetition \/ BenchThrows \/ RefuseReport \/ Killed \/ Idle) => Inv'
<1>. SUFFICES ASSUME Inv, StartFails \/ Repetition \/ BenchThrows \/ RefuseReport \/ Killed \/ Idle
              PROVE  Inv'
  OBVIOUS
<1>1. Numbering'
  BY OtherNumbering DEF Inv
<1>2. CASE Repetition
  <2>1. /\ pc = "bench" /\ pc' = pc /\ measured' = measured + 1 /\ measured < repetitions
        /\ UNCHANGED <<files, report, torn, invocation, append, maxRuns, repetitions, selected, todo,
                       kept, runIndex>>
    BY <1>2 DEF Repetition, optionVars
  <2>2. TypeOK'
    BY <2>1 DEF Inv, TypeOK
  <2>3. Visited' = Visited
    BY <2>1 DEF Visited
  <2>4. Coverage' /\ CoversSelection'
    BY <2>1, <2>3 DEF Inv, Coverage, Inside, CoversSelection
  <2>. QED BY <1>1, <2>2, <2>4 DEF Inv
<1>3. CASE StartFails \/ BenchThrows \/ RefuseReport \/ Killed
  <2>1. /\ pc' = "ended" /\ DOMAIN files' = DOMAIN files /\ runIndex' \in Nat
        /\ \A n \in DOMAIN files : files'[n] = files[n] \/ files'[n] = [files[n] EXCEPT !.rows = measured]
        /\ UNCHANGED <<report, torn, invocation, append, maxRuns, repetitions, selected, todo, kept,
                       measured>>
    BY <1>3 DEF StartFails, BenchThrows, CloseFile, RefuseReport, Killed, optionVars, Inv, Numbering
  <2>2. \A n \in DOMAIN files : files'[n] \in [config : Configs, rows : Nat]
    BY <2>1 DEF Inv, TypeOK
  <2>3. TypeOK'
    BY <2>1, <2>2 DEF Inv, TypeOK
  <2>4. Coverage' /\ CoversSelection'
    BY <2>1 DEF Inv, Coverage, Inside, CoversSelection
  <2>. QED BY <1>1, <2>3, <2>4 DEF Inv
<1>4. CASE Idle
  <2>1. TypeOK'
    BY <1>4 DEF Idle, vars, optionVars, Inv, TypeOK
  <2>2. Coverage' /\ CoversSelection'
    BY <1>4 DEF Idle, vars, optionVars, Inv, Coverage, CoversSelection, Inside, Visited
  <2>. QED BY <1>1, <2>1, <2>2 DEF Inv
<1>. QED BY <1>2, <1>3, <1>4

-------------------------------------------------------------------------------
(* The rows that make a report *)

\* Counting up from one reaches every number up to n: induction over an interval, with the set
\* of the numbers the claim holds of in the place of the claim.
LEMMA CountingUp ==
    ASSUME NEW n \in Nat, NEW S, 1 \in S, \A i \in 1 .. n : i \in S => i + 1 \in S
    PROVE  \A i \in 1 .. n : i \in S
<1>. DEFINE T == {i \in 1 .. n : i \notin S}
<1>. SUFFICES ASSUME T # {} PROVE FALSE
  OBVIOUS
<1>1. T \in SUBSET Nat
  OBVIOUS
<1>2. PICK i \in T : \A m \in T : i =< m
  <2>. HIDE DEF T
  <2>. QED BY <1>1, LeastNumber
<1>3. i # 1 /\ i - 1 \in 1 .. n /\ i - 1 \notin T
  BY <1>2
<1>4. (i - 1) + 1 = i
  BY <1>2
<1>. QED BY <1>2, <1>3, <1>4

\* A sequence of sequences is flattened one after the other.
LEMMA Flattening ==
    ASSUME NEW s \in Seq(Seq(Nat)), Len(s) # 0
    PROVE  \E f : /\ f[1] = s[1] /\ FlattenSeq(s) = f[Len(s)]
                  /\ \A i \in 1 .. Len(s) - 1 : f[i + 1] = f[i] \o s[i + 1]
<1>. DEFINE Step(g, i) == IF i = 1 THEN s[i] ELSE g[i - 1] \o s[i]
            f == CHOOSE g : g = [i \in 1 .. Len(s) |-> Step(g, i)]
            S == {m \in 1 .. Len(s) : \E g : g = [i \in 1 .. m |-> Step(g, i)]}
<1>1. FlattenSeq(s) = f[Len(s)]
  BY DEF FlattenSeq
<1>2. \E g : g = [i \in 1 .. Len(s) |-> Step(g, i)]
  <2>1. 1 \in S
    <3>1. LET h == [i \in 1 .. 1 |-> s[i]] IN h = [i \in 1 .. 1 |-> Step(h, i)]
      OBVIOUS
    <3>2. 1 \in 1 .. Len(s)
      OBVIOUS
    <3>. QED BY <3>1, <3>2
  <2>2. ASSUME NEW m \in 1 .. Len(s) - 1, m \in S PROVE m + 1 \in S
    <3>1. PICK g : g = [i \in 1 .. m |-> Step(g, i)]
      BY <2>2
    <3>. DEFINE h == [i \in 1 .. m + 1 |-> IF i = m + 1 THEN g[m] \o s[m + 1] ELSE g[i]]
    <3>2. ASSUME NEW i \in 1 .. m + 1 PROVE h[i] = Step(h, i)
      <4>1. CASE i = m + 1
        <5>1. i - 1 = m /\ i # 1 /\ h[m] = g[m]
          BY <4>1
        <5>. QED BY <4>1, <5>1
      <4>2. CASE i # m + 1
        <5>1. i \in 1 .. m /\ h[i] = g[i] /\ g[i] = Step(g, i)
          <6>1. i \in 1 .. m /\ h[i] = g[i]
            BY <4>2
          <6>. HIDE DEF Step, h
          <6>. QED BY <3>1, <6>1
        <5>2. i # 1 => i - 1 \in 1 .. m + 1 /\ i - 1 # m + 1
          BY <5>1
        <5>3. i # 1 => h[i - 1] = g[i - 1]
          BY <5>2
        <5>. QED BY <5>1, <5>3
      <4>. QED BY <4>1, <4>2
    <3>3. h = [i \in 1 .. m + 1 |-> Step(h, i)]
      <4>. HIDE DEF Step
      <4>. QED BY <3>2
    <3>. HIDE DEF h, Step
    <3>. QED BY <3>3
  <2>3. Len(s) \in Nat /\ Len(s) \in 1 .. Len(s)
    OBVIOUS
  <2>4. \A i \in 1 .. Len(s) - 1 : i \in S => i + 1 \in S
    <3>. HIDE DEF S
    <3>. QED BY <2>2
  <2>5. Len(s) \in S
    <3>. DEFINE U == S \cup {Len(s) + 1}
    <3>1. \A i \in 1 .. Len(s) : i \in U => i + 1 \in U
      <4>. HIDE DEF S
      <4>. QED BY <2>4
    <3>2. \A i \in 1 .. Len(s) : i \in U
      <4>. HIDE DEF U
      <4>. QED BY <2>1, <2>3, <3>1, CountingUp DEF U
    <3>. HIDE DEF S
    <3>. QED BY <2>3, <3>2
  <2>. QED BY <2>5
<1>3. f = [i \in 1 .. Len(s) |-> Step(f, i)]
  <2>. HIDE DEF Step
  <2>. QED BY <1>2
<1>4. \A i \in 1 .. Len(s) : f[i] = Step(f, i)
  <2>. HIDE DEF f, Step
  <2>. QED BY <1>3
<1>5. f[1] = s[1]
  <2>1. 1 \in 1 .. Len(s)
    OBVIOUS
  <2>. HIDE DEF f
  <2>. QED BY <1>4, <2>1
<1>6. ASSUME NEW i \in 1 .. Len(s) - 1 PROVE f[i + 1] = f[i] \o s[i + 1]
  <2>1. i + 1 \in 1 .. Len(s) /\ i + 1 # 1 /\ (i + 1) - 1 = i
    OBVIOUS
  <2>. HIDE DEF f
  <2>. QED BY <1>4, <2>1
<1>. HIDE DEF f
<1>. QED BY <1>1, <1>5, <1>6

\* The rows 1 to r of a file.
Counted(r) == [i \in 1 .. r |-> i]

\* Sequences that each count from one, one after the other, give a sequence that counts from one
\* only if one of them is it and the others are empty: a second one would bring a second 1.
LEMMA OneSource ==
    ASSUME NEW s \in Seq(Seq(Nat)), Len(s) # 0, NEW r \in Nat \ {0},
           \A k \in 1 .. Len(s) : s[k] = Counted(Len(s[k])), FlattenSeq(s) = Counted(r)
    PROVE  \E k \in 1 .. Len(s) : /\ Len(s[k]) = r
                                  /\ \A j \in 1 .. Len(s) : j # k => Len(s[j]) = 0
<1>. DEFINE len == Len(s)
            a == [k \in 1 .. len |-> Len(s[k])]
<1>0. len \in Nat \ {0} /\ \A k \in 1 .. len : a[k] \in Nat /\ a[k] = Len(s[k])
  OBVIOUS
<1>. HIDE DEF a
<1>1. /\ s \in Seq(Seq(Nat)) /\ Len(s) = len
      /\ \A k \in 1 .. len : s[k] \in Seq(Nat) /\ Len(s[k]) = a[k] /\ (a[k] > 0 => s[k][1] = 1)
  <2>1. \A n \in Nat : n > 0 => Counted(n)[1] = 1
    BY DEF Counted
  <2>. QED BY <1>0, <2>1
<1>. HIDE DEF len
<1>. USE <1>0
<1>2. PICK f : /\ f[1] = s[1] /\ FlattenSeq(s) = f[len]
               /\ \A i \in 1 .. len - 1 : f[i + 1] = f[i] \o s[i + 1]
  <2>0. Len(s) # 0
    BY DEF len
  <2>1. PICK f : /\ f[1] = s[1] /\ FlattenSeq(s) = f[Len(s)]
                 /\ \A i \in 1 .. Len(s) - 1 : f[i + 1] = f[i] \o s[i + 1]
    BY <1>1, <2>0, Flattening
  <2>. QED BY <1>1, <2>1
<1>. DEFINE None(i) == f[i] = <<>> /\ \A j \in 1 .. i : a[j] = 0
            One(i) == \E k \in 1 .. i : /\ a[k] > 0 /\ f[i] = s[k]
                                        /\ \A j \in 1 .. i : j # k => a[j] = 0
            Two(i) == \E p, q \in 1 .. Len(f[i]) : p # q /\ f[i][p] = 1 /\ f[i][q] = 1
            S == {i \in 1 .. len : f[i] \in Seq(Nat) /\ (None(i) \/ One(i) \/ Two(i))}
<1>. HIDE DEF None, One, Two, S
<1>3. 1 \in S
  <2>1. 1 \in 1 .. len /\ f[1] = s[1] /\ s[1] \in Seq(Nat) /\ Len(s[1]) = a[1] /\ a[1] \in Nat
    BY <1>1, <1>2
  <2>2. CASE a[1] = 0
    <3>1. f[1] = <<>>
      BY <2>1, <2>2
    <3>2. None(1)
      BY <2>1, <2>2, <3>1 DEF None
    <3>. QED BY <2>1, <3>2 DEF S
  <2>3. CASE a[1] > 0
    <3>1. One(1)
      BY <2>1, <2>3 DEF One
    <3>. QED BY <2>1, <3>1 DEF S
  <2>. QED BY <2>1, <2>2, <2>3
<1>4. ASSUME NEW i \in 1 .. len - 1, i \in S PROVE i + 1 \in S
  <2>0. /\ i \in Nat /\ i \in 1 .. len /\ i + 1 \in 1 .. len /\ i \in 1 .. i
        /\ \A j \in 1 .. i : j \in 1 .. i + 1 /\ j \in 1 .. len
        /\ \A j \in 1 .. i + 1 : j = i + 1 \/ j \in 1 .. i
    OBVIOUS
  <2>1. /\ i + 1 \in 1 .. len /\ f[i + 1] = f[i] \o s[i + 1] /\ f[i] \in Seq(Nat)
        /\ s[i + 1] \in Seq(Nat) /\ Len(s[i + 1]) = a[i + 1] /\ a[i + 1] \in Nat
        /\ (a[i + 1] > 0 => s[i + 1][1] = 1)
    <3>1. f[i] \in Seq(Nat) /\ f[i + 1] = f[i] \o s[i + 1]
      BY <1>2, <1>4 DEF S
    <3>. QED BY <1>1, <2>0, <3>1
  <2>2. /\ f[i + 1] \in Seq(Nat) /\ Len(f[i + 1]) = Len(f[i]) + Len(s[i + 1])
        /\ \A p \in 1 .. Len(f[i]) : f[i + 1][p] = f[i][p]
        /\ \A p \in 1 .. Len(s[i + 1]) : f[i + 1][Len(f[i]) + p] = s[i + 1][p]
    <3>. DEFINE u == f[i]  v == s[i + 1]
    <3>1. u \in Seq(Nat) /\ v \in Seq(Nat) /\ f[i + 1] = u \o v
      BY <2>1
    <3>. HIDE DEF u, v
    <3>2. /\ u \o v \in Seq(Nat) /\ Len(u \o v) = Len(u) + Len(v)
          /\ \A p \in 1 .. Len(u) : (u \o v)[p] = u[p]
          /\ \A p \in 1 .. Len(v) : (u \o v)[Len(u) + p] = v[p]
      BY <3>1
    <3>. QED BY <3>1, <3>2 DEF u, v
  <2>3. CASE None(i)
    <3>1. f[i + 1] = s[i + 1]
      BY <2>1, <2>3 DEF None
    <3>2. CASE a[i + 1] = 0
      <4>1. f[i + 1] = <<>>
        BY <2>1, <3>1, <3>2
      <4>2. None(i + 1)
        BY <2>1, <2>3, <3>2, <4>1 DEF None
      <4>. QED BY <2>1, <2>2, <4>2 DEF S
    <3>3. CASE a[i + 1] > 0
      <4>1. One(i + 1)
        <5>1. \A j \in 1 .. i + 1 : j # i + 1 => a[j] = 0
          BY <2>0, <2>3 DEF None
        <5>2. i + 1 \in 1 .. i + 1
          BY <2>0
        <5>. QED BY <3>1, <3>3, <5>1, <5>2 DEF One
      <4>. QED BY <2>1, <2>2, <4>1 DEF S
    <3>. QED BY <2>1, <3>2, <3>3
  <2>4. CASE One(i)
    <3>1. PICK k \in 1 .. i : a[k] > 0 /\ f[i] = s[k] /\ \A j \in 1 .. i : j # k => a[j] = 0
      BY <2>4 DEF One
    <3>2. Len(f[i]) = a[k] /\ f[i][1] = 1 /\ a[k] \in Nat /\ k \in 1 .. len
      BY <1>1, <3>1
    <3>3. CASE a[i + 1] = 0
      <4>1. f[i + 1] = f[i]
        <5>1. s[i + 1] = <<>>
          BY <2>1, <3>3
        <5>. QED BY <2>1, <5>1
      <4>2. One(i + 1)
        BY <2>0, <2>1, <3>1, <3>3, <4>1 DEF One
      <4>. QED BY <2>1, <2>2, <4>2 DEF S
    <3>4. CASE a[i + 1] > 0
      <4>1. /\ f[i + 1][1] = 1 /\ f[i + 1][a[k] + 1] = 1 /\ a[k] + 1 # 1
            /\ 1 \in 1 .. Len(f[i + 1]) /\ a[k] + 1 \in 1 .. Len(f[i + 1])
        <5>1. 1 \in 1 .. Len(f[i]) /\ 1 \in 1 .. Len(s[i + 1]) /\ Len(f[i]) = a[k]
          <6>. DEFINE x == Len(f[i])  y == Len(s[i + 1])
          <6>1. x = a[k] /\ x \in Nat /\ x > 0 /\ y \in Nat /\ y > 0
            BY <2>1, <3>1, <3>2, <3>4
          <6>. HIDE DEF x, y
          <6>2. 1 \in 1 .. x /\ 1 \in 1 .. y /\ x = a[k]
            BY <6>1
          <6>. QED BY <6>2 DEF x, y
        <5>2. f[i + 1][1] = f[i][1] /\ f[i + 1][a[k] + 1] = s[i + 1][1]
          BY <2>2, <5>1
        <5>3. f[i + 1][1] = 1 /\ f[i + 1][a[k] + 1] = 1
          BY <2>1, <3>2, <3>4, <5>2
        <5>4. Len(f[i + 1]) = a[k] + a[i + 1] /\ a[k] \in Nat /\ a[k] > 0 /\ a[i + 1] \in Nat
          BY <2>1, <2>2, <3>1, <3>2
        <5>. DEFINE x == a[k]  y == a[i + 1]
        <5>5. x \in Nat /\ x > 0 /\ y \in Nat /\ y > 0 /\ Len(f[i + 1]) = x + y
          BY <3>4, <5>4
        <5>. HIDE DEF x, y
        <5>6. x + 1 # 1 /\ 1 \in 1 .. Len(f[i + 1]) /\ x + 1 \in 1 .. Len(f[i + 1])
          BY <5>5
        <5>. QED BY <5>3, <5>6 DEF x
      <4>2. Two(i + 1)
        BY <4>1 DEF Two
      <4>. QED BY <2>1, <2>2, <4>2 DEF S
    <3>. QED BY <2>1, <3>3, <3>4
  <2>5. CASE Two(i)
    <3>1. PICK p, q \in 1 .. Len(f[i]) : p # q /\ f[i][p] = 1 /\ f[i][q] = 1
      BY <2>5 DEF Two
    <3>2. /\ p \in 1 .. Len(f[i + 1]) /\ q \in 1 .. Len(f[i + 1])
          /\ f[i + 1][p] = 1 /\ f[i + 1][q] = 1
      <4>. DEFINE u == f[i]
      <4>1. u \in Seq(Nat)
        BY <2>1
      <4>. HIDE DEF u
      <4>2. Len(u) \in Nat
        BY <4>1
      <4>3. Len(f[i]) \in Nat
        BY <4>2 DEF u
      <4>4. Len(f[i + 1]) = Len(f[i]) + a[i + 1] /\ a[i + 1] \in Nat
        BY <2>1, <2>2
      <4>5. p \in 1 .. Len(f[i + 1]) /\ q \in 1 .. Len(f[i + 1])
        <5>. DEFINE x == Len(f[i])  y == a[i + 1]  z == Len(f[i + 1])
        <5>1. p \in 1 .. x /\ q \in 1 .. x /\ x \in Nat /\ y \in Nat /\ z = x + y
          BY <4>3, <4>4
        <5>. HIDE DEF x, y, z
        <5>2. p \in 1 .. z /\ q \in 1 .. z
          BY <5>1
        <5>. QED BY <5>2 DEF z
      <4>6. f[i + 1][p] = f[i][p] /\ f[i + 1][q] = f[i][q]
        BY <2>2
      <4>. QED BY <3>1, <4>5, <4>6
    <3>3. Two(i + 1)
      BY <3>1, <3>2 DEF Two
    <3>. QED BY <2>1, <2>2, <3>3 DEF S
  <2>. QED BY <1>4, <2>3, <2>4, <2>5 DEF S
<1>5. len \in S
  <2>. DEFINE U == S \cup {len + 1}
  <2>1. S \subseteq 1 .. len
    BY DEF S
  <2>2. \A i \in 1 .. len : i \in U => i + 1 \in U
    BY <1>4
  <2>3. 1 \in U
    BY <1>3
  <2>4. \A i \in 1 .. len : i \in U
    <3>. HIDE DEF U
    <3>. QED BY <2>2, <2>3, CountingUp
  <2>. QED BY <2>4
<1>6. f[len] = Counted(r) /\ Len(Counted(r)) = r /\ \A p \in 1 .. r : Counted(r)[p] = p
  <2>1. Len(Counted(r)) = r /\ \A p \in 1 .. r : Counted(r)[p] = p
    BY DEF Counted
  <2>. QED BY <1>2, <2>1
<1>7. ~None(len) /\ ~Two(len)
  <2>1. f[len] # <<>>
    BY <1>6
  <2>2. \A p, q \in 1 .. r : p # q => f[len][p] # 1 \/ f[len][q] # 1
    BY <1>6
  <2>3. Len(f[len]) = r
    BY <1>6
  <2>. QED BY <2>1, <2>2, <2>3 DEF None, Two
<1>8. One(len)
  BY <1>5, <1>7 DEF S
<1>9. PICK k \in 1 .. len : a[k] > 0 /\ f[len] = s[k] /\ \A j \in 1 .. len : j # k => a[j] = 0
  BY <1>8 DEF One
<1>10. a[k] = r
  BY <1>1, <1>6, <1>9
<1>. QED BY <1>1, <1>9, <1>10 DEF len

\* Some files of the directory, listed.
LEMMA Listing ==
    ASSUME Numbering, NEW F \in SUBSET DOMAIN files, F # {}
    PROVE  /\ Cardinality(F) \in Nat \ {0}
           /\ SetToSeq(F) \in [1 .. Cardinality(F) -> F]
           /\ \A n \in F : \E k \in 1 .. Cardinality(F) : SetToSeq(F)[k] = n
           /\ IsInjective(SetToSeq(F))
<1>1. IsFiniteSet(F)
  BY FS_Subset DEF Numbering
<1>2. Cardinality(F) \in Nat \ {0}
  BY <1>1, FS_CardinalityType, FS_EmptySet
<1>3. \E f \in [1 .. Cardinality(F) -> F] : IsInjective(f)
  BY <1>1, FS_CardinalityType DEF ExistsBijection, Bijection, Injection
<1>4. SetToSeq(F) \in [1 .. Cardinality(F) -> F] /\ IsInjective(SetToSeq(F))
  BY <1>3 DEF SetToSeq
<1>5. SetToSeq(F) \in Injection(1 .. Cardinality(F), F)
  BY <1>4 DEF Injection
<1>6. Cardinality(1 .. Cardinality(F)) = Cardinality(F)
  BY <1>2, FS_Interval
<1>7. SetToSeq(F) \in Surjection(1 .. Cardinality(F), F)
  BY <1>1, <1>5, <1>6, FS_Injection
<1>. QED BY <1>2, <1>4, <1>7 DEF Surjection

\* The rows of a configuration pass only if one file of it has them all.
LEMMA ValidInOneRun ==
    ASSUME TypeOK, Numbering, NEW config \in Reported, Valid(config), repetitions > 0
    PROVE  \E n \in DOMAIN files :
             /\ files[n] = [config |-> config, rows |-> repetitions]
             /\ \A m \in DOMAIN files \ {n} : files[m].config = config => files[m].rows = 0
<1>. DEFINE F == {n \in DOMAIN files : files[n].config = config}
            own == SetToSeq(F)
            len == Cardinality(F)
            s == [k \in 1 .. len |-> Counted(files[own[k]].rows)]
<1>1. F # {} /\ F \in SUBSET DOMAIN files
  BY DEF Reported
<1>2. /\ len \in Nat \ {0} /\ own \in [1 .. len -> F]
      /\ \A n \in F : \E k \in 1 .. len : own[k] = n
      /\ IsInjective(own)
  <2>. HIDE DEF F
  <2>. QED BY <1>1, Listing
<1>. HIDE DEF own, len
<1>3. \A k \in 1 .. len : own[k] \in DOMAIN files /\ files[own[k]].config = config
  BY <1>2
<1>4. \A k \in 1 .. len : files[own[k]] \in [config : Configs, rows : Nat]
  BY <1>3 DEF TypeOK
<1>5. \A k \in 1 .. len : s[k] \in Seq(Nat) /\ Len(s[k]) = files[own[k]].rows /\ s[k] = Counted(Len(s[k]))
  <2>1. \A n \in Nat : Counted(n) \in Seq(Nat) /\ Len(Counted(n)) = n
    BY DEF Counted
  <2>. QED BY <1>4, <2>1
<1>6. s \in Seq(Seq(Nat)) /\ Len(s) = len
  BY <1>2, <1>5
<1>7. FlattenSeq(s) = Counted(repetitions)
  <2>1. DOMAIN own = 1 .. len
    BY <1>2
  <2>2. [k \in DOMAIN own |-> [r \in 1 .. files[own[k]].rows |-> r]] = s
    BY <2>1 DEF Counted
  <2>3. Rows(config) = FlattenSeq(s)
    <3>1. Rows(config) = FlattenSeq([k \in DOMAIN own |-> [r \in 1 .. files[own[k]].rows |-> r]])
      BY DEF Rows, own
    <3>. QED BY <2>2, <3>1
  <2>4. Rows(config) = [r \in 1 .. repetitions |-> r]
    BY DEF Valid
  <2>5. Counted(repetitions) = [r \in 1 .. repetitions |-> r]
    BY DEF Counted
  <2>. HIDE DEF s
  <2>. QED BY <2>3, <2>4, <2>5
<1>. HIDE DEF s, F
<1>8. PICK k \in 1 .. len : Len(s[k]) = repetitions /\ \A j \in 1 .. len : j # k => Len(s[j]) = 0
  <2>1. repetitions \in Nat \ {0} /\ Len(s) # 0
    BY <1>2, <1>6 DEF TypeOK
  <2>2. s \in Seq(Seq(Nat)) /\ \A k \in 1 .. Len(s) : s[k] = Counted(Len(s[k]))
    BY <1>5, <1>6
  <2>3. \E k \in 1 .. Len(s) : Len(s[k]) = repetitions /\ \A j \in 1 .. Len(s) : j # k => Len(s[j]) = 0
    BY <1>7, <2>1, <2>2, OneSource
  <2>. QED BY <1>6, <2>3
<1>9. files[own[k]] = [config |-> config, rows |-> repetitions]
  BY <1>3, <1>4, <1>5, <1>8
<1>10. ASSUME NEW m \in DOMAIN files \ {own[k]}, files[m].config = config PROVE files[m].rows = 0
  <2>1. PICK j \in 1 .. len : own[j] = m
    BY <1>2, <1>10 DEF F
  <2>2. j # k
    BY <2>1
  <2>. QED BY <1>5, <1>8, <2>1, <2>2
<1>. QED BY <1>3, <1>9, <1>10

\* So each file that has rows is one configuration, and the others are empty.
LEMMA FilesCounted ==
    ASSUME TypeOK, Numbering, repetitions > 0, \A config \in Reported : Valid(config)
    PROVE  Cardinality(DOMAIN files)
             = Cardinality(Reported) + Cardinality({n \in DOMAIN files : files[n].rows = 0})
<1>. DEFINE Full == {n \in DOMAIN files : files[n].rows > 0}
            Empty == {n \in DOMAIN files : files[n].rows = 0}
            configOf == [n \in Full |-> files[n].config]
<1>1. \A n \in DOMAIN files : files[n].rows \in Nat
  BY DEF TypeOK
<1>2. Full \cup Empty = DOMAIN files /\ Full \cap Empty = {}
  BY <1>1
<1>3. IsFiniteSet(Full) /\ IsFiniteSet(Empty)
  <2>1. Full \subseteq DOMAIN files /\ Empty \subseteq DOMAIN files
    OBVIOUS
  <2>. HIDE DEF Full, Empty
  <2>. QED BY <2>1, FS_Subset DEF Numbering
<1>4. \A m, n \in Full : files[m].config = files[n].config => m = n
  <2>. SUFFICES ASSUME NEW m \in Full, NEW n \in Full, files[m].config = files[n].config
                PROVE  m = n
    OBVIOUS
  <2>. DEFINE config == files[m].config
  <2>1. config \in Reported
    BY DEF Reported
  <2>. HIDE DEF config
  <2>2. PICK k \in DOMAIN files : \A j \in DOMAIN files \ {k} : files[j].config = config => files[j].rows = 0
    BY <2>1, ValidInOneRun
  <2>3. m = k /\ n = k
    BY <2>2 DEF config
  <2>. QED BY <2>3
<1>5. configOf \in Bijection(Full, Reported)
  <2>1. configOf \in [Full -> Reported]
    BY DEF Reported
  <2>2. \A m, n \in Full : configOf[m] = configOf[n] => m = n
    BY <1>4
  <2>3. \A config \in Reported : \E n \in Full : configOf[n] = config
    BY DEF Reported
  <2>. HIDE DEF configOf, Full
  <2>. QED BY <2>1, <2>2, <2>3 DEF Bijection, Injection, Surjection, IsInjective
<1>6. Cardinality(Full) = Cardinality(Reported)
  <2>. HIDE DEF configOf, Full
  <2>. QED BY <1>3, <1>5, FS_Bijection DEF ExistsBijection
<1>7. Cardinality(Full \cup Empty) = Cardinality(Full) + Cardinality(Empty)
  <2>. HIDE DEF Full, Empty
  <2>1. Cardinality(Full \cup Empty) = Cardinality(Full) + Cardinality(Empty) - Cardinality({})
    BY <1>2, <1>3, FS_Union
  <2>2. Cardinality(Full) \in Nat /\ Cardinality(Empty) \in Nat /\ Cardinality({}) = 0
    BY <1>3, FS_CardinalityType, FS_EmptySet
  <2>. QED BY <2>1, <2>2
<1>. QED BY <1>2, <1>6, <1>7

-------------------------------------------------------------------------------
(* The theorems *)

\* Unless a cleaning was cut short the files are numbered 1 to n, whatever failed and however
\* often the script was resumed.
THEOREM NumberedWithoutGaps == Spec => []Numbering
<1>1. Numbering /\ [Next]_vars => Numbering'
  <2>. SUFFICES ASSUME Numbering, [Next]_vars PROVE Numbering'
    OBVIOUS
  <2>1. CASE Next
    BY <2>1, CleanNumbering, EnterNumbering, StartNumbering, OtherNumbering DEF Next, ScriptStep
  <2>2. CASE UNCHANGED vars
    BY <2>2 DEF vars, Numbering, Inside
  <2>. QED BY <2>1, <2>2
<1>. QED BY <1>1, InitNumbering, PTL DEF Spec

\* Where no cleaning was cut short a run never opens a CSV file that exists, and only the run
\* that opened one closes it.
THEOREM NothingElseOverwritten == Spec => OverwritesOnlyLeftovers
<1>1. Numbering /\ [Next]_vars =>
        [\A n \in DOMAIN files \cap DOMAIN files' :
            files'[n] = files[n] \/ (pc = "bench" /\ n = runIndex) \/ torn]_vars
  <2>. SUFFICES ASSUME Numbering, Next, NEW n \in DOMAIN files \cap DOMAIN files', ~torn
                PROVE  files'[n] = files[n] \/ (pc = "bench" /\ n = runIndex)
    OBVIOUS
  <2>1. CASE RemoveFile
    BY <2>1 DEF RemoveFile
  <2>2. CASE StartBench
    <3>1. n # runIndex + 1
      BY <2>2 DEF StartBench, Numbering, Inside
    <3>. QED BY <2>2, <3>1 DEF StartBench, FileNumber
  <2>3. CASE BenchDone \/ BenchThrows
    BY <2>3 DEF BenchDone, BenchThrows, CloseFile
  <2>4. CASE Invoke \/ EnterLoops \/ StartFails \/ Repetition \/ WriteReport \/ RefuseReport
               \/ Killed \/ Idle
    BY <2>4 DEF Invoke, EnterLoops, StartFails, Repetition, WriteReport, RefuseReport, Killed, Idle, vars
  <2>. QED BY <2>1, <2>2, <2>3, <2>4 DEF Next, ScriptStep
<1>. QED BY <1>1, NumberedWithoutGaps, PTL DEF Spec, OverwritesOnlyLeftovers

\* The invariant holds of every sequence of invocations.
THEOREM Invariance == Spec => []Inv
<1>1. Inv /\ [Next]_vars => Inv'
  <2>. SUFFICES ASSUME Inv, [Next]_vars PROVE Inv'
    OBVIOUS
  <2>1. CASE Next
    BY <2>1, InvokeInv, RemoveFileInv, EnterLoopsInv, StartBenchInv, BenchDoneInv, WriteReportInv,
       OtherInv DEF Next, ScriptStep
  <2>2. CASE UNCHANGED vars
    <3>1. TypeOK' /\ Numbering'
      BY <2>2 DEF vars, optionVars, Inv, TypeOK, Numbering, Inside
    <3>2. Coverage' /\ CoversSelection'
      BY <2>2 DEF vars, optionVars, Inv, Coverage, CoversSelection, Inside, Visited
    <3>. QED BY <3>1, <3>2 DEF Inv
  <2>. QED BY <2>1, <2>2
<1>. QED BY <1>1, InitInv, PTL DEF Spec

\* Every variable keeps its type, and the file of the running benchmark exists.
THEOREM Typing == Spec => []TypeOK
<1>1. Inv => TypeOK
  BY DEF Inv
<1>. QED BY <1>1, Invariance, PTL

\* A report covers exactly the selection, or the beginning of it that MAX_RUNS allows.
THEOREM SelectionCovered == Spec => []CoversSelection
<1>1. Inv => CoversSelection
  BY DEF Inv
<1>. QED BY <1>1, Invariance, PTL

\* A report never puts a configuration's repetitions together from several runs.
THEOREM InOneRun == Spec => []ReportedInOneRun
<1>1. Init => ReportedInOneRun
  BY DEF Init, ReportedInOneRun
<1>2. Inv /\ ReportedInOneRun /\ [Next]_vars => ReportedInOneRun'
  <2>. SUFFICES ASSUME Inv, ReportedInOneRun, [Next]_vars PROVE ReportedInOneRun'
    OBVIOUS
  <2>1. CASE WriteReport
    <3>1. /\ pc = "write" /\ files' = files /\ \A config \in Reported : Valid(config)
          /\ report' = [configs |-> Reported, runs |-> runIndex, repetitions |-> repetitions]
      BY <2>1 DEF WriteReport
    <3>2. TypeOK /\ Numbering /\ repetitions > 0
      BY <3>1 DEF Inv, Coverage, Inside
    <3>3. \A config \in Reported : \E n \in DOMAIN files :
             /\ files[n] = [config |-> config, rows |-> repetitions]
             /\ \A m \in DOMAIN files \ {n} : files[m].config = config => files[m].rows = 0
      BY <3>1, <3>2, ValidInOneRun
    <3>4. report'.configs = Reported /\ report'.repetitions = repetitions
      BY <3>1
    <3>. QED BY <3>1, <3>3, <3>4 DEF ReportedInOneRun
  <2>2. CASE Invoke \/ RemoveFile \/ EnterLoops \/ StartBench \/ StartFails \/ Repetition \/ BenchDone \/ BenchThrows
               \/ RefuseReport \/ Killed
    <3>1. pc' # "reported"
      BY <2>2 DEF Invoke, RemoveFile, EnterLoops, StartBench, StartFails, Repetition, BenchDone, BenchThrows, RefuseReport, Killed
    <3>. QED BY <3>1 DEF ReportedInOneRun
  <2>3. CASE Idle \/ UNCHANGED vars
    BY <2>3 DEF Idle, vars, ReportedInOneRun
  <2>. QED BY <2>1, <2>2, <2>3 DEF Next, ScriptStep
<1>. QED BY <1>1, <1>2, Invariance, PTL DEF Spec

\* What a report calls its configurations are its files, empty ones included.
THEOREM ConfigurationsAreFiles == Spec => []RunsCountFiles
<1>1. Init => RunsCountFiles
  BY DEF Init, RunsCountFiles
<1>2. Inv /\ RunsCountFiles /\ [Next]_vars => RunsCountFiles'
  <2>. SUFFICES ASSUME Inv, RunsCountFiles, [Next]_vars PROVE RunsCountFiles'
    OBVIOUS
  <2>1. CASE WriteReport
    <3>1. /\ pc = "write" /\ files' = files /\ torn' = torn /\ \A config \in Reported : Valid(config)
          /\ report' = [configs |-> Reported, runs |-> runIndex, repetitions |-> repetitions]
      BY <2>1 DEF WriteReport
    <3>2. TypeOK /\ Numbering /\ Inside /\ repetitions > 0
      BY <3>1 DEF Inv, Coverage, Inside
    <3>3. Cardinality(DOMAIN files)
            = Cardinality(Reported) + Cardinality({n \in DOMAIN files : files[n].rows = 0})
      BY <3>1, <3>2, FilesCounted
    <3>4. Cardinality(DOMAIN files) =< runIndex
      BY <3>2 DEF Numbering
    <3>5. ~torn => Cardinality(DOMAIN files) = runIndex
      BY <3>2, FS_Interval DEF Numbering
    <3>6. report'.configs = Reported /\ report'.runs = runIndex
      BY <3>1
    <3>. QED BY <3>1, <3>3, <3>4, <3>5, <3>6 DEF RunsCountFiles
  <2>2. CASE Invoke \/ RemoveFile \/ EnterLoops \/ StartBench \/ StartFails \/ Repetition
               \/ BenchDone \/ BenchThrows \/ RefuseReport \/ Killed
    <3>1. pc' # "reported"
      BY <2>2 DEF Invoke, RemoveFile, EnterLoops, StartBench, StartFails, Repetition, BenchDone,
                  BenchThrows, RefuseReport, Killed
    <3>. QED BY <3>1 DEF RunsCountFiles
  <2>3. CASE Idle \/ UNCHANGED vars
    BY <2>3 DEF Idle, vars, RunsCountFiles
  <2>. QED BY <2>1, <2>2, <2>3 DEF Next, ScriptStep
<1>. QED BY <1>1, <1>2, Invariance, PTL DEF Spec
===============================================================================
