------------------------- MODULE RustGeneratorProofs -------------------------
(***************************************************************************)
(* Proofs about RustGenerator for every crate, every import graph and      *)
(* both kernels: no output file is opened twice across the Generate calls  *)
(* of one crate.  The argument rests on the files of a crate being         *)
(* distinct (GeneratorAssumption) and on the entry point being written    *)
(* only by the call for the front file.                                    *)
(***************************************************************************)
EXTENDS RustGenerator, SequenceTheorems, TLAPS

\* Every output entry a call may produce in the current state.
OutEntry ==
  {<< RsPath(f), RsItems(f) >> : f \in Files}
  \cup {<< ThunksPath(f), ThunksItems(f) >> : f \in Files}
  \cup {<< EntryPath, EntryItems >>}

\* The paths of the files the calls for CrateFiles[1 .. n-1] open.
Done(n) ==
  {RsPath(CrateFiles[i]) : i \in 1 .. n - 1}
  \cup {ThunksPath(CrateFiles[i]) : i \in 1 .. n - 1}
  \cup (IF n > 1 THEN {EntryPath} ELSE {})

\* The paths the call for f may open.
NewPaths(f) ==
  {RsPath(f), ThunksPath(f)} \cup (IF f = CrateFiles[1] THEN {EntryPath} ELSE {})

(* The inductive invariant: the calls so far wrote only the files of the   *)
(* crate's files before next, each at most once.                           *)
IInv ==
  /\ next \in 1 .. Len(CrateFiles) + 1
  /\ written \in Seq(OutEntry)
  /\ \A k \in DOMAIN written : written[k][1] \in Done(next)
  /\ OutputsWrittenOnce

(* What the calls before next have written: the entry point once the      *)
(* front file is done, and the .rs file of each file done.                 *)
Progress ==
  /\ next > 1 => \E k \in DOMAIN written : written[k] = << EntryPath, EntryItems >>
  /\ \A i \in 1 .. next - 1 :
       \E k \in DOMAIN written : written[k][1] = RsPath(CrateFiles[i])

-----------------------------------------------------------------------------
\* Concatenations of short tuples, as Outputs builds them.
LEMMA ConcatPair ==
  ASSUME NEW S, NEW a \in S, NEW b \in S
  PROVE  << a >> \o << b >> = << a, b >>
<1>1. << a >> \in Seq(S) /\ << b >> \in Seq(S) /\ << a, b >> \in Seq(S)
  OBVIOUS
<1>2. /\ << a >> \o << b >> \in Seq(S)
      /\ Len(<< a >> \o << b >>) = 2
      /\ (<< a >> \o << b >>)[1] = a
      /\ (<< a >> \o << b >>)[2] = b
  BY <1>1, ConcatProperties
<1>3. Len(<< a, b >>) = 2 /\ \A i \in 1 .. 2 : (<< a >> \o << b >>)[i] = << a, b >>[i]
  BY <1>2
<1>4. QED
  BY <1>1, <1>2, <1>3, SeqEqual, Zenon

LEMMA ConcatTriple ==
  ASSUME NEW S, NEW a \in S, NEW b \in S, NEW c \in S
  PROVE  << a, b >> \o << c >> = << a, b, c >>
<1>1. << a, b >> \in Seq(S) /\ << c >> \in Seq(S) /\ << a, b, c >> \in Seq(S)
  OBVIOUS
<1>2. /\ << a, b >> \o << c >> \in Seq(S)
      /\ Len(<< a, b >> \o << c >>) = 3
      /\ (<< a, b >> \o << c >>)[1] = a
      /\ (<< a, b >> \o << c >>)[2] = b
      /\ (<< a, b >> \o << c >>)[3] = c
  BY <1>1, ConcatProperties
<1>3. Len(<< a, b, c >>) = 3
      /\ \A i \in 1 .. 3 : (<< a, b >> \o << c >>)[i] = << a, b, c >>[i]
  BY <1>2
<1>4. QED
  BY <1>1, <1>2, <1>3, SeqEqual, Zenon

(* The files one call opens: paths of the call's own file (and the entry  *)
(* point for the front file), pairwise distinct.                           *)
LEMMA OutputsFacts ==
  ASSUME NEW f \in Files
  PROVE  LET O == Outputs(f) IN
         /\ O \in Seq(OutEntry)
         /\ \A j \in DOMAIN O : O[j][1] \in NewPaths(f)
         /\ \A i, j \in DOMAIN O : i # j => O[i][1] # O[j][1]
         /\ 1 \in DOMAIN O /\ O[1] = << RsPath(f), RsItems(f) >>
         /\ f = CrateFiles[1] => 2 \in DOMAIN O /\ O[2] = << EntryPath, EntryItems >>
<1> DEFINE r == << RsPath(f), RsItems(f) >>
           e == << EntryPath, EntryItems >>
           t == << ThunksPath(f), ThunksItems(f) >>
<1>1. r \in OutEntry /\ e \in OutEntry /\ t \in OutEntry
  BY DEF OutEntry
<1>2. RsPath(f) # EntryPath /\ RsPath(f) # ThunksPath(f) /\ EntryPath # ThunksPath(f)
  BY DEF RsPath, EntryPath, ThunksPath
<1>3. CASE f = CrateFiles[1] /\ IsCpp
  <2>1. Outputs(f) = (<< r >> \o << e >>) \o << t >>
    BY <1>3 DEF Outputs
  <2>2. << r >> \o << e >> = << r, e >> /\ << r, e >> \o << t >> = << r, e, t >>
    BY <1>1, ConcatPair, ConcatTriple
  <2>3. Outputs(f) = << r, e, t >>
    BY <2>1, <2>2
  <2>4. QED
    BY <1>1, <1>2, <1>3, <2>3 DEF NewPaths
<1>4. CASE f = CrateFiles[1] /\ ~IsCpp
  <2>1. Outputs(f) = (<< r >> \o << e >>) \o << >>
    BY <1>4 DEF Outputs
  <2>2. << r >> \o << e >> = << r, e >> /\ << r, e >> \o << >> = << r, e >>
    BY <1>1, ConcatPair, ConcatEmptySeq
  <2>3. Outputs(f) = << r, e >>
    BY <2>1, <2>2
  <2>4. QED
    BY <1>1, <1>2, <1>4, <2>3 DEF NewPaths
<1>5. CASE f # CrateFiles[1] /\ IsCpp
  <2>1. Outputs(f) = (<< r >> \o << >>) \o << t >>
    BY <1>5 DEF Outputs
  <2>2. << r >> \o << >> = << r >> /\ << r >> \o << t >> = << r, t >>
    BY <1>1, ConcatPair, ConcatEmptySeq
  <2>3. Outputs(f) = << r, t >>
    BY <2>1, <2>2
  <2>4. QED
    BY <1>1, <1>2, <1>5, <2>3 DEF NewPaths
<1>6. CASE f # CrateFiles[1] /\ ~IsCpp
  <2>1. Outputs(f) = << r >>
    BY <1>6 DEF Outputs
  <2>2. QED
    BY <1>1, <1>6, <2>1 DEF NewPaths
<1>7. QED
  BY <1>3, <1>4, <1>5, <1>6

(* A path the call for CrateFiles[n] opens was not opened by the calls    *)
(* before it: the crate's files are distinct, and only the call for the   *)
(* front file, the first one, opens the entry point.                       *)
LEMMA NewPathsFresh ==
  ASSUME NEW n \in 1 .. Len(CrateFiles)
  PROVE  NewPaths(CrateFiles[n]) \cap Done(n) = {}
<1> USE GeneratorAssumption
<1>1. \A i \in 1 .. n - 1 : CrateFiles[i] # CrateFiles[n]
  OBVIOUS
<1>2. CrateFiles[n] = CrateFiles[1] => n = 1
  OBVIOUS
<1>3. QED
  BY <1>1, <1>2 DEF NewPaths, Done, RsPath, ThunksPath, EntryPath

\* The calls before n + 1 opened what those before n did, and the new paths.
LEMMA DoneGrows ==
  ASSUME NEW n \in 1 .. Len(CrateFiles)
  PROVE  Done(n) \cup NewPaths(CrateFiles[n]) \subseteq Done(n + 1)
BY GeneratorAssumption DEF Done, NewPaths

\* The initial state: nothing is written and next is the first file.
LEMMA InitIInv == Init => IInv
BY GeneratorAssumption DEF Init, IInv, OutputsWrittenOnce

\* The entries a call may produce depend on the import graph, which no step changes.
LEMMA OutEntryUnchanged ==
  ASSUME publicDeps' = publicDeps
  PROVE  OutEntry' = OutEntry
BY DEF OutEntry, RsItems

(* A Generate call that fails leaves written as it is; one that succeeds   *)
(* appends the files of CrateFiles[next], which are new and distinct.      *)
LEMMA GenerateIInv ==
  ASSUME IInv, Generate
  PROVE  IInv'
<1>0. OutEntry' = OutEntry
  BY OutEntryUnchanged DEF Generate
<1>1. CASE UNCHANGED <<next, written>>
  BY <1>0, <1>1 DEF IInv, Done, OutputsWrittenOnce
<1>2. CASE written' = written \o Outputs(CrateFiles[next]) /\ next' = next + 1
  <2> DEFINE n == next
             f == CrateFiles[n]
             O == Outputs(f)
             L == Len(written)
  <2>1. n \in 1 .. Len(CrateFiles)
    BY DEF IInv, Generate
  <2>2. f \in Files
    BY <2>1, GeneratorAssumption
  <2>3. /\ O \in Seq(OutEntry)
        /\ \A j \in DOMAIN O : O[j][1] \in NewPaths(f)
        /\ \A i, j \in DOMAIN O : i # j => O[i][1] # O[j][1]
    BY <2>2, OutputsFacts
  <2>4. /\ written' \in Seq(OutEntry)
        /\ Len(written') = L + Len(O)
        /\ \A i \in 1 .. L + Len(O) :
             written'[i] = IF i <= L THEN written[i] ELSE O[i - L]
    BY <1>2, <2>3, ConcatProperties DEF IInv
  <2>5. \A k \in DOMAIN written' : written'[k][1] \in Done(n) \cup NewPaths(f)
    <3> SUFFICES ASSUME NEW k \in DOMAIN written'
                 PROVE  written'[k][1] \in Done(n) \cup NewPaths(f)
      OBVIOUS
    <3>1. k \in 1 .. L + Len(O)
      BY <2>4
    <3>2. CASE k <= L
      BY <2>4, <3>1, <3>2 DEF IInv
    <3>3. CASE k > L
      BY <2>3, <2>4, <3>1, <3>3
    <3>4. QED
      BY <3>2, <3>3
  <2>6. \A k \in DOMAIN written' : written'[k][1] \in Done(next')
    BY <1>2, <2>1, <2>5, DoneGrows
  <2>7. NewPaths(f) \cap Done(n) = {}
    BY <2>1, NewPathsFresh
  <2>8. OutputsWrittenOnce'
    <3> SUFFICES ASSUME NEW j \in DOMAIN written', NEW k \in DOMAIN written', j # k
                 PROVE  written'[j][1] # written'[k][1]
      BY DEF OutputsWrittenOnce
    <3>1. CASE j <= L /\ k <= L
      BY <2>4, <3>1 DEF IInv, OutputsWrittenOnce
    <3>2. CASE j > L /\ k > L
      <4>1. /\ j - L \in DOMAIN O /\ k - L \in DOMAIN O /\ j - L # k - L
            /\ written'[j] = O[j - L] /\ written'[k] = O[k - L]
        BY <2>3, <2>4, <3>2 DEF IInv
      <4>2. QED
        BY <2>3, <4>1
    <3>3. CASE j <= L /\ k > L
      BY <2>3, <2>4, <2>7, <3>3 DEF IInv
    <3>4. CASE j > L /\ k <= L
      BY <2>3, <2>4, <2>7, <3>4 DEF IInv
    <3>5. QED
      BY <3>1, <3>2, <3>3, <3>4 DEF IInv
  <2>9. QED
    BY <1>0, <1>2, <2>1, <2>4, <2>6, <2>8 DEF IInv
<1>3. \/ UNCHANGED <<next, written>>
      \/ written' = written \o Outputs(CrateFiles[next]) /\ next' = next + 1
  BY DEF Generate
<1>4. QED
  BY <1>1, <1>2, <1>3

(* OutputsWrittenOnce, for every crate, import graph and kernel: across   *)
(* the Generate calls protoc makes for one crate, no output file (.rs,     *)
(* thunks or the entry point) is opened twice.                             *)
THEOREM WrittenOnce == Spec => []OutputsWrittenOnce
<1>1. Init => IInv
  BY InitIInv
<1>2. IInv /\ [Next]_vars => IInv'
  <2> SUFFICES ASSUME IInv, [Next]_vars PROVE IInv'
    OBVIOUS
  <2>1. CASE Next
    BY <2>1, GenerateIInv DEF Next
  <2>2. CASE UNCHANGED vars
    BY <2>2 DEF vars, IInv, Done, OutputsWrittenOnce, OutEntry, RsItems
  <2>3. QED
    BY <2>1, <2>2
<1>3. IInv => OutputsWrittenOnce
  BY DEF IInv
<1>4. QED
  BY <1>1, <1>2, <1>3, PTL DEF Spec

(* The entry point declares each file of the crate once: CrateFiles has no *)
(* repeated file.                                                          *)
LEMMA EntryItemsFacts ==
  /\ \A i, j \in DOMAIN EntryItems : i # j => EntryItems[i] # EntryItems[j]
  /\ {EntryItems[i].file : i \in DOMAIN EntryItems} = SeqRange(CrateFiles)
<1>1. DOMAIN EntryItems = DOMAIN CrateFiles
      /\ \A i \in DOMAIN EntryItems : EntryItems[i] = [kind |-> "mod", file |-> CrateFiles[i]]
  BY GeneratorAssumption DEF EntryItems
<1>2. \A i, j \in DOMAIN EntryItems : i # j => EntryItems[i] # EntryItems[j]
  BY <1>1, GeneratorAssumption
<1>3. {EntryItems[i].file : i \in DOMAIN EntryItems} = SeqRange(CrateFiles)
  BY <1>1 DEF SeqRange
<1>4. QED
  BY <1>2, <1>3

(* A failed call keeps what was written; a successful one keeps every old  *)
(* entry at its index and appends the .rs file of CrateFiles[next] and,   *)
(* for the first call, the entry point.                                    *)
LEMMA ProgressStep ==
  ASSUME IInv, Progress, Generate
  PROVE  Progress'
<1>1. CASE UNCHANGED <<next, written>>
  BY <1>1 DEF Progress
<1>2. CASE written' = written \o Outputs(CrateFiles[next]) /\ next' = next + 1
  <2> DEFINE n == next
             f == CrateFiles[n]
             O == Outputs(f)
             L == Len(written)
  <2>1. n \in 1 .. Len(CrateFiles) /\ f \in Files
    BY GeneratorAssumption DEF IInv, Generate
  <2>2. /\ O \in Seq(OutEntry)
        /\ 1 \in DOMAIN O /\ O[1] = << RsPath(f), RsItems(f) >>
        /\ f = CrateFiles[1] => 2 \in DOMAIN O /\ O[2] = << EntryPath, EntryItems >>
    BY <2>1, OutputsFacts
  <2>3. /\ Len(written') = L + Len(O)
        /\ \A i \in 1 .. L + Len(O) :
             written'[i] = IF i <= L THEN written[i] ELSE O[i - L]
    BY <1>2, <2>2, ConcatProperties DEF IInv
  <2>4. written' \in Seq(OutEntry)
    BY <1>2, <2>2, ConcatProperties DEF IInv
  <2>a. /\ L \in Nat /\ Len(O) \in Nat /\ DOMAIN O = 1 .. Len(O)
        /\ DOMAIN written = 1 .. L /\ DOMAIN written' = 1 .. L + Len(O)
    BY <2>2, <2>3, <2>4 DEF IInv
  <2>5. \A k \in DOMAIN written : k \in DOMAIN written' /\ written'[k] = written[k]
    BY <2>a, <2>3
  <2>6. L + 1 \in DOMAIN written' /\ written'[L + 1][1] = RsPath(f)
    <3>1. L + 1 \in DOMAIN written' /\ written'[L + 1] = O[1]
      BY <2>2, <2>a, <2>3
    <3>2. QED
      BY <3>1, <2>2
  <2>7. n = 1 => L + 2 \in DOMAIN written' /\ written'[L + 2] = << EntryPath, EntryItems >>
    <3> SUFFICES ASSUME n = 1 PROVE L + 2 \in DOMAIN written' /\ written'[L + 2] = O[2]
      BY <2>2
    <3>1. 2 \in DOMAIN O
      BY <2>2
    <3>2. QED
      BY <3>1, <2>a, <2>3
  <2>8. \E k \in DOMAIN written' : written'[k] = << EntryPath, EntryItems >>
    <3>1. CASE n = 1
      BY <2>7, <3>1
    <3>2. CASE n > 1
      BY <2>5, <3>2 DEF Progress
    <3>3. QED
      BY <2>1, <3>1, <3>2
  <2>9. \A i \in 1 .. n : \E k \in DOMAIN written' : written'[k][1] = RsPath(CrateFiles[i])
    <3> SUFFICES ASSUME NEW i \in 1 .. n
                 PROVE  \E k \in DOMAIN written' : written'[k][1] = RsPath(CrateFiles[i])
      OBVIOUS
    <3>1. CASE i = n
      BY <2>6, <3>1
    <3>2. CASE i < n
      <4>1. PICK k \in DOMAIN written : written[k][1] = RsPath(CrateFiles[i])
        BY <2>1, <3>2 DEF Progress
      <4>2. QED
        BY <4>1, <2>5
    <3>3. QED
      BY <3>1, <3>2, <2>1
  <2>10. next' > 1 /\ next' - 1 = n
    BY <1>2, <2>1
  <2>11. QED
    BY <2>8, <2>9, <2>10 DEF Progress
<1>3. \/ UNCHANGED <<next, written>>
      \/ written' = written \o Outputs(CrateFiles[next]) /\ next' = next + 1
  BY DEF Generate
<1>4. QED
  BY <1>1, <1>2, <1>3

(* CrateOutputsComplete, for every crate, import graph and kernel: once   *)
(* Generate has run for every file of the crate, the entry point was       *)
(* written and declares each file exactly once, and each file has its .rs  *)
(* file.                                                                   *)
THEOREM OutputsComplete == Spec => []CrateOutputsComplete
<1>1. Init => IInv /\ Progress
  BY InitIInv DEF Init, Progress
<1>2. IInv /\ Progress /\ [Next]_vars => IInv' /\ Progress'
  <2> SUFFICES ASSUME IInv, Progress, [Next]_vars PROVE IInv' /\ Progress'
    OBVIOUS
  <2>1. CASE Next
    BY <2>1, GenerateIInv, ProgressStep DEF Next
  <2>2. CASE UNCHANGED vars
    BY <2>2 DEF vars, IInv, Progress, Done, OutputsWrittenOnce, OutEntry, RsItems
  <2>3. QED
    BY <2>1, <2>2
<1>3. IInv /\ Progress => CrateOutputsComplete
  <2> SUFFICES ASSUME IInv, Progress, next > Len(CrateFiles)
               PROVE  CrateOutputsComplete
    BY DEF CrateOutputsComplete
  <2>1. next - 1 = Len(CrateFiles)
    BY DEF IInv
  <2>2. next > 1
    BY GeneratorAssumption, <2>1 DEF IInv
  <2>3. PICK k \in DOMAIN written : written[k] = << EntryPath, EntryItems >>
    BY <2>2 DEF Progress
  <2>4. \A f \in SeqRange(CrateFiles) :
          \E r \in DOMAIN written : written[r][1] = RsPath(f)
    <3> SUFFICES ASSUME NEW i \in DOMAIN CrateFiles
                 PROVE  \E r \in DOMAIN written : written[r][1] = RsPath(CrateFiles[i])
      BY DEF SeqRange
    <3>1. i \in 1 .. next - 1
      BY <2>1, GeneratorAssumption
    <3>2. QED
      BY <3>1 DEF Progress
  <2>5. QED
    BY <2>3, <2>4, EntryItemsFacts DEF CrateOutputsComplete
<1>4. QED
  BY <1>1, <1>2, <1>3, PTL DEF Spec

=============================================================================
