---------------------------- MODULE RustGenerator ----------------------------
(***************************************************************************)
(* The Rust code generator (src/google/protobuf/compiler/rust/generator.cc) *)
(* as protoc drives it: Generate is called once per .proto file of the     *)
(* crate, in the order of ListParsedFiles, and each call opens its output  *)
(* files and writes them.  Text is abstracted to items: a re-export of a   *)
(* type, a module declaration, an #include, a message or enum definition.  *)
(***************************************************************************)
EXTENDS Integers, Sequences, FiniteSets

LOCAL INSTANCE Relation

CONSTANTS
  Files,          \* the .proto files known to protoc
  CrateFiles,     \* the files of the crate being generated, in order
  PublicDepGraphs, \* the import graphs a request may carry: functions
                   \* f |-> public_dependency(0 ..) of f, in order
  Deps,           \* Deps[f]: dependency(0 ..) of f, in order
  FeatureFiles,   \* files for which IsKnownFeatureProto holds
  Messages,       \* Messages[f]: the message types of f, in order
  Enums,          \* Enums[f]: the enum types of f, in order
  IsCpp,          \* the C++ kernel is selected (ctx.is_cpp())
  StripNonfunctional, \* opts->strip_nonfunctional_codegen
  MaxVisits       \* bound on the pops of the public-import worklist

ASSUME GeneratorAssumption ==
  /\ CrateFiles \in Seq(Files) /\ Len(CrateFiles) > 0
  /\ \A i, j \in DOMAIN CrateFiles : i # j => CrateFiles[i] # CrateFiles[j]
  /\ PublicDepGraphs \subseteq [Files -> Seq(Files)]
  /\ Deps \in [Files -> Seq(Files)]
  /\ FeatureFiles \subseteq Files
  /\ IsCpp \in BOOLEAN /\ StripNonfunctional \in BOOLEAN
  /\ MaxVisits \in Nat

VARIABLES
  publicDeps,   \* the public imports of the request's files; never changes
  optionsValid, \* Options::Parse(parameter) succeeds; the same on every call
  next,         \* index in CrateFiles of the next file protoc generates
  status,       \* "running", or "failed" once a call returned false
  written       \* the output files opened, in order: <<path, items>>

vars == <<publicDeps, optionsValid, next, status, written>>

SeqRange(s) == {s[i] : i \in DOMAIN s}
InCrate(f) == f \in SeqRange(CrateFiles)
Concat(n, F(_)) ==
  LET c[i \in 0 .. n] == IF i = 0 THEN << >> ELSE c[i - 1] \o F(i) IN c[n]

RsPath(f) == [kind |-> "rs", file |-> f]                \* GetRsFile
ThunksPath(f) == [kind |-> "thunks", file |-> f]        \* GetThunkCcFile
EntryPath == [kind |-> "entry", file |-> CrateFiles[1]] \* GetEntryPointRsFilePath

(* EmitPublicImportsForDepFile: `pub use` of every message (with its View  *)
(* and Mut) and then of every enum of dep.                                 *)
DepFileItems(dep) ==
  [i \in 1 .. Len(Messages[dep]) |-> [kind |-> "use", ty |-> Messages[dep][i]]]
  \o [i \in 1 .. Len(Enums[dep]) |-> [kind |-> "use", ty |-> Enums[dep][i]]]

\* Mutation: a crate file reached by the walk does not push its own deps.
PublicImportsSkipCrateDeps(deps, file) ==
  LET step[n \in 0 .. MaxVisits] ==
        IF n = 0 THEN [stack |-> << file >>, items |-> << >>]
        ELSE LET s == step[n - 1]
                 f == s.stack[Len(s.stack)]
             IN  IF s.stack = << >> THEN s
                 ELSE [stack |-> SubSeq(s.stack, 1, Len(s.stack) - 1)
                                 \o (IF InCrate(f) /\ f # file
                                       THEN << >> ELSE deps[f]),
                       items |-> IF InCrate(f) THEN s.items
                                 ELSE s.items \o DepFileItems(f)]
  IN  step[MaxVisits]

(* EmitPublicImports, over the public imports deps: a worklist of files    *)
(* starting from file; the last one is popped, re-exported if it is not in *)
(* the crate, and its public dependencies are pushed.  There is no visited *)
(* set.  The walk is run for MaxVisits pops.                              *)
PublicImportsRun(deps, file) ==
  LET step[n \in 0 .. MaxVisits] ==
        IF n = 0 THEN [stack |-> << file >>, items |-> << >>]
        ELSE LET s == step[n - 1]
                 f == s.stack[Len(s.stack)]
             IN  IF s.stack = << >> THEN s
                 ELSE [stack |-> SubSeq(s.stack, 1, Len(s.stack) - 1)
                                 \o deps[f],
                       items |-> IF InCrate(f) THEN s.items
                                 ELSE s.items \o DepFileItems(f)]
  IN  step[MaxVisits]

(* The model's bound: for every graph (protoc rejects import cycles) the   *)
(* worklist of every file drains within MaxVisits pops.                    *)
ASSUME WorklistBound ==
  \A g \in PublicDepGraphs, f \in Files :
    PublicImportsRun(g, f).stack = << >>

(* Generate's .rs file: the version assertion, the public imports, then    *)
(* GenerateRs of each message and GenerateEnumDefinition of each enum.     *)
RsItems(file) ==
  << [kind |-> "version"] >>
  \o PublicImportsRun(publicDeps, file).items
  \o [i \in 1 .. Len(Messages[file]) |-> [kind |-> "msg", ty |-> Messages[file][i]]]
  \o [i \in 1 .. Len(Enums[file]) |-> [kind |-> "enum", ty |-> Enums[file][i]]]

(* The thunks .cc file (C++ kernel): the header of file and of each        *)
(* dependency, known feature protos stripped when asked, then the thunks   *)
(* of each message and a comment for each enum.                            *)
ThunksItems(file) ==
  << [kind |-> "include", file |-> file] >>
  \o Concat(Len(Deps[file]),
            LAMBDA i : IF StripNonfunctional /\ Deps[file][i] \in FeatureFiles
                         THEN << >>
                         ELSE << [kind |-> "include", file |-> Deps[file][i]] >>)
  \o [i \in 1 .. Len(Messages[file]) |-> [kind |-> "thunk", ty |-> Messages[file][i]]]
  \o [i \in 1 .. Len(Enums[file]) |-> [kind |-> "comment", ty |-> Enums[file][i]]]

\* Mutation: the entry-point loop starts at the second file.
EntryItemsFromSecond ==
  [i \in 1 .. Len(CrateFiles) - 1 |-> [kind |-> "mod", file |-> CrateFiles[i + 1]]]

(* EmitEntryPointRsFile: one `pub mod` (and glob re-export) per file of    *)
(* the crate, in order.                                                    *)
EntryItems ==
  [i \in 1 .. Len(CrateFiles) |-> [kind |-> "mod", file |-> CrateFiles[i]]]

\* Mutation: the entry point written by every call, not by the first file's.
OutputsEntryEveryCall(file) ==
  << << RsPath(file), RsItems(file) >> >>
  \o << << EntryPath, EntryItems >> >>
  \o (IF IsCpp THEN << << ThunksPath(file), ThunksItems(file) >> >> ELSE << >>)

(* The files one successful call opens, in the order it opens them: its    *)
(* .rs file, the entry point when file is the crate's front file, and the  *)
(* thunks file with the C++ kernel.                                        *)
Outputs(file) ==
  << << RsPath(file), RsItems(file) >> >>
  \o (IF file = CrateFiles[1] THEN << << EntryPath, EntryItems >> >> ELSE << >>)
  \o (IF IsCpp THEN << << ThunksPath(file), ThunksItems(file) >> >> ELSE << >>)

Init ==
  /\ publicDeps \in PublicDepGraphs
  /\ optionsValid \in BOOLEAN
  /\ next = 1
  /\ status = "running"
  /\ written = << >>

(* RustGenerator::Generate for the next file.  It returns false before     *)
(* opening anything when the options do not parse or the crate mapping     *)
(* cannot be read (GetImportPathToCrateNameMap reads a file on each call); *)
(* protoc then stops.                                                      *)
Generate ==
  /\ status = "running" /\ next <= Len(CrateFiles)
  /\ \/ /\ ~optionsValid
        /\ status' = "failed" /\ UNCHANGED <<next, written>>
     \/ /\ optionsValid
        /\ status' = "failed" /\ UNCHANGED <<next, written>>
     \/ /\ optionsValid
        /\ written' = written \o Outputs(CrateFiles[next])
        /\ next' = next + 1 /\ UNCHANGED status
  /\ UNCHANGED <<publicDeps, optionsValid>>

Next == Generate

(* protoc calls Generate for each file in turn until one call fails.     *)
Spec == Init /\ [][Next]_vars


-----------------------------------------------------------------------------
(***************************************************************************)
(* Properties.                                                             *)
(***************************************************************************)
\* g is reachable from f along public imports (f itself included).
PublicEdge == [x, y \in Files |-> y \in SeqRange(publicDeps[x])]
PublicReach == ReflexiveTransitiveClosure(PublicEdge, Files)

UseTypes(items) == {items[i].ty : i \in {i \in DOMAIN items : items[i].kind = "use"}}

TypesOf(g) == SeqRange(Messages[g]) \cup SeqRange(Enums[g])

(* Every .rs file re-exports exactly the types of the files reachable from *)
(* its .proto file through chains of `import public` and lying outside the *)
(* crate, however the chain passes through files of the crate.  The       *)
(* worklist walk is compared with the transitive closure of the relation.  *)
ReexportsPublicClosure ==
  \A k \in DOMAIN written :
    written[k][1].kind = "rs" =>
      UseTypes(written[k][2]) =
        UNION {TypesOf(g) : g \in {g \in Files : PublicReach[written[k][1].file, g]
                                                 /\ ~InCrate(g)}}

(* No output file is opened twice across the calls for one crate: protoc   *)
(* rejects a response that writes the same file twice.  The entry point is *)
(* written only by the call for the front file.                            *)
OutputsWrittenOnce ==
  \A j, k \in DOMAIN written : j # k => written[j][1] # written[k][1]

(* Once every file of the crate is generated, the entry point declares     *)
(* each of them exactly once, and each has its .rs file.                   *)
CrateOutputsComplete ==
  next > Len(CrateFiles) =>
    \E k \in DOMAIN written :
      LET entry == written[k][2] IN
      /\ written[k][1] = EntryPath
      /\ \A i, j \in DOMAIN entry : i # j => entry[i] # entry[j]
      /\ {entry[i].file : i \in DOMAIN entry} = SeqRange(CrateFiles)
      /\ \A f \in SeqRange(CrateFiles) :
           \E r \in DOMAIN written : written[r][1] = RsPath(f)

(* No .rs file re-exports a type twice: Rust rejects a second `pub use` of *)
(* the same name (E0252).  The worklist has no visited set, so a file      *)
(* reachable through two chains of public imports is re-exported twice.   *)
NoDuplicateReexport ==
  \A k \in DOMAIN written :
    LET items == written[k][2] IN
    \A i, j \in DOMAIN items :
      i # j /\ items[i].kind = "use" => items[i] # items[j]

=============================================================================
