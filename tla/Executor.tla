------------------------------ MODULE Executor ------------------------------
(***************************************************************************)
(* How workers execute tasks (worker/internal/executor/executor.go, called *)
(* from worker/internal/runtime/runtime.go): tools, models, embeddings,    *)
(* retrievals and aggregations, the model cache and the artifacts.         *)
(*                                                                         *)
(* A worker runs one task at a time; workers run side by side, and several *)
(* attempts at one task may run at once, on one file system or on their    *)
(* own.  An artifact's path has the job and the task in it and not the     *)
(* attempt, and files are written in place, so that attempts and readers   *)
(* meet in the same files.  The job engine is here the rule that a task is *)
(* assigned when its dependencies are Completed and until it is (JobEngine *)
(* has the rest).                                                          *)
(*                                                                         *)
(* Of a payload one field is kept, which is a value (work.prints has those *)
(* a task may come to) or 0 when it is not there:                          *)
(* reduceAggregationSources treats every field alone.  Scores are left     *)
(* out: a search finds some of the documents that match.  A blank query    *)
(* finds none, so there work.match is empty.                               *)
(***************************************************************************)
EXTENDS Naturals, Sequences, FiniteSets, FiniteSetsExt, SequencesExt, ToolCatalog

CONSTANTS
    Workers,
    Tasks,          \* 1..n, in the order of their IDs
    Setups,         \* the cases to look at: what is configured, the tasks, and bounds
    HTTPTries       \* EmbeddingHTTPRetries + 1

ASSUME InstanceAssumption ==
    /\ Tasks \subseteq Nat \ {0}
    /\ HTTPTries \in Nat \ {0}
    /\ \A s \in Setups :
        /\ s.failures \in Nat
        /\ \A t \in Tasks :
            /\ s.work[t].attempts \in Nat
            /\ s.work[t].prints \subseteq Nat
            /\ s.work[t].deps \subseteq {d \in Tasks : d < t}
            /\ s.work[t].items \in Seq([dep : {0}, attempt : {0}, text : Nat])
            /\ IsFiniteSet(s.work[t].match) /\ s.work[t].topK \in Nat

VARIABLES
    setup,      \* the case at hand: setup.work[t] is the task t, setup.failures the
                \* bound on crashes, failed downloads and failed writes
    run,        \* worker -> the execution of Executor.Run
    attempts,   \* task -> attempts assigned
    done,       \* task -> who completed it: [worker, attempt], or NoOne
    file,       \* root -> task -> output.json
    model,      \* root -> the model's directory in the cache
    stopped,    \* history: roots with a download that stopped half way
    failures

vars == <<setup, run, attempts, done, file, model, stopped, failures>>
engine == <<setup, attempts, done>>
cache == <<model, stopped>>

NoOne == [worker |-> "none", attempt |-> 0]
Work(w) == setup.work[run[w].task]
\* ArtifactRoot, with the sandboxes and the model cache.
Root(w) == IF setup.shared THEN "shared" ELSE w
Roots == Workers \cup {"shared"}

\* What Run puts in the output.
NoOutput ==
    [attempt |-> 0, text |-> 0, sources |-> <<>>, conflicts |-> {}, provenance |-> {},
     model |-> "none", excused |-> FALSE, ran |-> FALSE, vectors |-> 0, hits |-> {}]
\* What others may find in output.json.
Absent == [state |-> "absent", attempt |-> 0, text |-> 0]
Truncated == [state |-> "empty", attempt |-> 0, text |-> 0]
Garbled == [state |-> "garbled", attempt |-> 0, text |-> 0]
Whole(out) == [state |-> "whole", attempt |-> out.attempt, text |-> out.text]

Idle == [pc |-> "idle", task |-> 0]

Init ==
    /\ setup \in Setups
    /\ run = [w \in Workers |-> Idle]
    /\ attempts = [t \in Tasks |-> 0]
    /\ done = [t \in Tasks |-> NoOne]
    /\ file = [r \in Roots |-> [t \in Tasks |-> Absent]]
    /\ model = [r \in Roots |-> "absent"]
    /\ stopped = {}
    /\ failures = 0

At(w, pc) == run[w].pc = pc
Goto(w, next) == run' = [run EXCEPT ![w] = next]
Finish(w, out) == Goto(w, [run[w] EXCEPT !.pc = "write", !.out = out])
Fail(w, reason) == Goto(w, [run[w] EXCEPT !.pc = "report", !.error = reason])
OutputOf(w) == [NoOutput EXCEPT !.attempt = run[w].attempt]
Failing == failures < setup.failures /\ failures' = failures + 1

---------------------------------------------------------------------------
(* The poll loop: an assignment, and the report of its result. *)

FirstStep(work) ==
    CASE work.type = "model_download" -> "install"
      [] work.type = "llm_inference" -> IF work.install THEN "install" ELSE "call"
      [] work.type = "tool_execution" -> "tool"
      [] work.type = "embedding" -> "batch"
      [] work.type = "retrieval" -> "search"
      [] work.type = "aggregation" -> "load"
      [] OTHER -> "unsupported"

Assign(w, t) ==
    /\ At(w, "idle")
    /\ attempts[t] < setup.work[t].attempts
    /\ done[t] = NoOne
    /\ \A d \in setup.work[t].deps : done[d] # NoOne
    /\ attempts' = [attempts EXCEPT ![t] = @ + 1]
    /\ Goto(w, [pc |-> FirstStep(setup.work[t]), task |-> t, attempt |-> attempts[t] + 1,
                todo |-> setup.work[t].deps, tries |-> 0, lost |-> FALSE, error |-> "",
                out |-> [NoOutput EXCEPT !.attempt = attempts[t] + 1,
                                         !.sources = setup.work[t].items]])
    /\ UNCHANGED <<setup, done, file, cache, failures>>

Unsupported(w) ==
    /\ At(w, "unsupported")
    /\ Fail(w, "type")
    /\ UNCHANGED <<engine, file, cache, failures>>

\* A report that is lost is not sent again.
Report(w) ==
    /\ At(w, "report")
    /\ \/ /\ run[w].error = ""
          /\ done' = [done EXCEPT ![run[w].task] = [worker |-> w, attempt |-> run[w].attempt]]
       \/ UNCHANGED done
    /\ Goto(w, Idle)
    /\ UNCHANGED <<setup, attempts, file, cache, failures>>

\* The process dies and starts again.
Crash(w) ==
    /\ ~At(w, "idle")
    /\ Failing
    /\ stopped' = IF At(w, "download") THEN stopped \cup {Root(w)} ELSE stopped
    /\ Goto(w, Idle)
    /\ UNCHANGED <<engine, file, model>>

---------------------------------------------------------------------------
(* ensureModelInstalled. *)

dirHasContents(r) == model[r] \in {"partial", "whole"}
onlyIfMissing(w) == Work(w).type = "llm_inference" \/ ~Work(w).force

\* Somebody else is at work in the directory, or has left it half way.
Disturbed(w) ==
    \/ Root(w) \in stopped
    \/ run[w].lost
    \/ \E v \in Workers \ {w} : At(v, "download") /\ Root(v) = Root(w)

\* A model_download is done; an llm_inference goes on to its backend.
Installed(w, state) ==
    LET out == [OutputOf(w) EXCEPT !.model = state, !.excused = Disturbed(w)]
    IN  IF Work(w).type = "model_download" THEN Finish(w, out)
        ELSE Goto(w, [run[w] EXCEPT !.pc = "call", !.out = out])

\* Ollama keeps its own models: one request, which may fail.
InstallElsewhere(w) ==
    /\ At(w, "install")
    /\ Work(w).source # "huggingface"
    /\ \/ Work(w).source = "ollama" /\ Installed(w, "elsewhere")
       \/ Fail(w, "install")
    /\ UNCHANGED <<engine, file, cache, failures>>

InstallFound(w) ==
    /\ At(w, "install")
    /\ Work(w).source = "huggingface"
    /\ dirHasContents(Root(w)) /\ onlyIfMissing(w)
    /\ Installed(w, model[Root(w)])
    /\ UNCHANGED <<engine, file, cache, failures>>

\* MkdirAll, after RemoveAll when the model is to be replaced: whoever downloads
\* into the directory loses what is there.
InstallBegin(w) ==
    LET r == Root(w)
        removes == ~onlyIfMissing(w)
    IN  /\ At(w, "install")
        /\ Work(w).source = "huggingface"
        /\ ~(dirHasContents(r) /\ onlyIfMissing(w))
        /\ model' = [model EXCEPT ![r] = IF removes \/ @ = "absent" THEN "empty" ELSE @]
        /\ stopped' = IF removes THEN stopped \ {r} ELSE stopped
        /\ run' = [v \in Workers |->
                    IF v = w THEN [run[w] EXCEPT !.pc = "download"]
                    ELSE IF removes /\ At(v, "download") /\ Root(v) = r
                         THEN [run[v] EXCEPT !.lost = TRUE] ELSE run[v]]
        /\ UNCHANGED <<engine, file, failures>>

\* The downloader runs without a time limit.
DownloadSome(w) ==
    /\ At(w, "download")
    /\ model[Root(w)] = "empty"
    /\ model' = [model EXCEPT ![Root(w)] = "partial"]
    /\ UNCHANGED <<engine, run, file, stopped, failures>>

DownloadEnds(w) ==
    LET state == IF run[w].lost THEN "partial" ELSE "whole"
    IN  /\ At(w, "download")
        /\ model[Root(w)] # "empty"
        /\ model' = [model EXCEPT ![Root(w)] = IF @ = "whole" THEN @ ELSE state]
        /\ stopped' = IF run[w].lost THEN stopped \cup {Root(w)} ELSE stopped
        /\ Installed(w, model'[Root(w)])
        /\ UNCHANGED <<engine, file, failures>>

\* Variant: the error of the downloader is not looked at.
DownloadFailsUnseen(w) ==
    /\ At(w, "download")
    /\ Failing
    /\ stopped' = stopped \cup {Root(w)}
    /\ Installed(w, model[Root(w)])
    /\ UNCHANGED <<engine, file, model>>

DownloadFails(w) ==
    /\ At(w, "download")
    /\ Failing
    /\ stopped' = stopped \cup {Root(w)}
    /\ Fail(w, "download")
    /\ UNCHANGED <<engine, file, model>>

DownloadHangs(w) ==
    /\ At(w, "download")
    /\ stopped' = stopped \cup {Root(w)}
    /\ Goto(w, [run[w] EXCEPT !.pc = "stuck"])
    /\ UNCHANGED <<engine, file, model, failures>>

---------------------------------------------------------------------------
(* Models and tools. *)

\* runLLM: one request with a client timeout; an empty answer is an error.
Call(w) ==
    /\ At(w, "call")
    /\ \/ Work(w).backend /\ \E v \in Work(w).prints \ {0} : Finish(w, [run[w].out EXCEPT !.text = v])
       \/ Fail(w, "backend")
    /\ UNCHANGED <<engine, file, cache, failures>>

\* New: a catalog that cannot be loaded is an empty one.  Inline commands are
\* allowed when no catalog is configured.
catalog == Load(setup.catalog)
allowInlineTools == setup.inline \/ setup.catalog.kind = "none"

\* The tool has no command and no definition: the task succeeds.
ToolUndefined(w) ==
    /\ At(w, "tool")
    /\ ~Work(w).command
    /\ Resolve(catalog, Work(w).tool) = {}
    /\ Finish(w, OutputOf(w))
    /\ UNCHANGED <<engine, file, cache, failures>>

ToolBegin(w) ==
    /\ At(w, "tool")
    /\ \/ /\ Work(w).command
          /\ IF allowInlineTools THEN Goto(w, [run[w] EXCEPT !.pc = "command"])
             ELSE Fail(w, "inline")
       \/ /\ ~Work(w).command
          /\ \E tool \in Resolve(catalog, Work(w).tool), params \in inputParams(Work(w).inputs) :
                IF Render(tool, params).ok THEN Goto(w, [run[w] EXCEPT !.pc = "command"])
                ELSE Fail(w, "render")
    /\ UNCHANGED <<engine, file, cache, failures>>

\* runSandboxedCommand: the command ends, or the shell is killed in time.
ToolEnds(w) ==
    /\ At(w, "command")
    /\ \/ \E v \in Work(w).prints : Finish(w, [OutputOf(w) EXCEPT !.text = v, !.ran = TRUE])
       \/ Fail(w, "command")
    /\ UNCHANGED <<engine, file, cache, failures>>

\* Nothing but the shell is killed, and Run reads the output until everyone who
\* has the pipe has closed it.
ToolHangs(w) ==
    /\ At(w, "command")
    /\ Goto(w, [run[w] EXCEPT !.pc = "stuck"])
    /\ UNCHANGED <<engine, file, cache, failures>>

---------------------------------------------------------------------------
(* Embeddings and retrievals. *)

\* Variant: the attempts start over after the last one.
AgainForever(w, last) == Goto(w, [run[w] EXCEPT !.tries = (@ + 1) % HTTPTries])

\* postJSONWithRetryAttempts: after an error, the next attempt or what follows.
Again(w, last) ==
    IF run[w].tries + 1 < HTTPTries THEN Goto(w, [run[w] EXCEPT !.tries = @ + 1]) ELSE last

Embedded(w, n) == [OutputOf(w) EXCEPT !.vectors = n]

\* Ollama's endpoint for one text at a time.
OneByOne(w) == Goto(w, [run[w] EXCEPT !.pc = "single", !.tries = 0])

\* Variant: any answer to the batch is taken.
EmbedBatchAny(w) ==
    /\ At(w, "batch")
    /\ \/ \E n \in 1..Work(w).texts : Finish(w, Embedded(w, n))
       \/ Fail(w, "embed")
    /\ UNCHANGED <<engine, file, cache, failures>>

\* The answer to all texts at once: right, with an empty vector, of another
\* length, or an error.  The local backend answers right.
EmbedBatch(w) ==
    LET ollama == Work(w).backend = "ollama"
        local == Work(w).backend = "local"
    IN  /\ At(w, "batch")
        /\ \/ Work(w).texts > 0 /\ Finish(w, Embedded(w, Work(w).texts))
           \/ Work(w).texts = 0 /\ Fail(w, "embed")
           \/ ~local /\ Fail(w, "embed")
           \/ ~local /\ IF ollama THEN OneByOne(w) ELSE Fail(w, "embed")
           \/ ~local /\ Again(w, IF ollama THEN OneByOne(w) ELSE Fail(w, "embed"))
        /\ UNCHANGED <<engine, file, cache, failures>>

EmbedSingle(w) ==
    LET n == run[w].out.vectors + 1
    IN  /\ At(w, "single")
        /\ \/ n < Work(w).texts /\ Goto(w, [run[w] EXCEPT !.tries = 0, !.out = Embedded(w, n)])
           \/ n = Work(w).texts /\ Finish(w, Embedded(w, n))
           \/ Fail(w, "embed")
           \/ Again(w, Fail(w, "embed"))
        /\ UNCHANGED <<engine, file, cache, failures>>

\* filterDocsByMetadata and the top_k best; a remote search answers what it likes.
Search(w) ==
    LET work == Work(w)
        k == IF Cardinality(work.match) < work.topK THEN Cardinality(work.match) ELSE work.topK
    IN  /\ At(w, "search")
        /\ IF work.remote
           THEN \/ \E hits \in SUBSET work.docs : Finish(w, [OutputOf(w) EXCEPT !.hits = hits])
                \/ Again(w, Fail(w, "search"))
           ELSE \E hits \in kSubset(k, work.match) : Finish(w, [OutputOf(w) EXCEPT !.hits = hits])
        /\ UNCHANGED <<engine, file, cache, failures>>

---------------------------------------------------------------------------
(* Aggregations. *)

\* artifactURIToLocalPath and loadArtifactPayload.
Loadable(w, d) == ~setup.minio /\ file[Root(w)][d].state = "whole"

\* The next dependency in the order of IDs.
LoadDependency(w) ==
    LET d == Min(run[w].todo)
        found == file[Root(w)][d]
        rest == [run[w] EXCEPT !.todo = @ \ {d}]
    IN  /\ At(w, "load")
        /\ run[w].todo # {}
        /\ IF Loadable(w, d)
           THEN Goto(w, [rest EXCEPT !.out.sources =
                    Append(@, [dep |-> d, attempt |-> found.attempt, text |-> found.text])])
           ELSE IF Work(w).strict THEN Goto(w, [run[w] EXCEPT !.pc = "report", !.error = "load"])
                ELSE Goto(w, rest)
        /\ UNCHANGED <<engine, file, cache, failures>>

\* reduceAggregationSources, for one field: the first value is kept, and with a
\* different one both are conflicts.
Merge(merged, source) ==
    LET v == source.text
    IN  IF v = 0 THEN merged
        ELSE [text |-> IF merged.text = 0 THEN v ELSE merged.text,
              conflicts |-> IF merged.text \in {0, v} THEN merged.conflicts
                            ELSE merged.conflicts \cup {merged.text, v},
              provenance |-> merged.provenance \cup {source.dep}]
Unmerged == [text |-> 0, conflicts |-> {}, provenance |-> {}]

\* Variant: a conflict is noted against the source before.
MergeNeighbours(sources) ==
    LET texts == [i \in DOMAIN sources |-> sources[i].text]
        differ == {i \in 2..Len(sources) : texts[i] # 0 /\ texts[i - 1] # 0
                                           /\ texts[i] # texts[i - 1]}
    IN  [FoldLeft(Merge, Unmerged, sources) EXCEPT
            !.conflicts = UNION {{texts[i], texts[i - 1]} : i \in differ}]

reduceAggregationSources(sources) == FoldLeft(Merge, Unmerged, sources)

\* validateAggregationResult looks for the required fields.
Aggregate(w) ==
    LET merged == reduceAggregationSources(run[w].out.sources)
    IN  /\ At(w, "load")
        /\ run[w].todo = {}
        /\ IF run[w].out.sources = <<>> \/ (Work(w).required /\ merged.text = 0)
           THEN Fail(w, "aggregate")
           ELSE Finish(w, [run[w].out EXCEPT !.text = merged.text,
                              !.conflicts = merged.conflicts, !.provenance = merged.provenance])
        /\ UNCHANGED <<engine, file, cache, failures>>

---------------------------------------------------------------------------
(* The artifact. *)

\* os.WriteFile truncates and then writes.  Who writes after another attempt
\* did, with a shorter text, leaves the other's tail.
WriteBegin(w) ==
    /\ At(w, "write")
    /\ file' = [file EXCEPT ![Root(w)][run[w].task] = Truncated]
    /\ Goto(w, [run[w] EXCEPT !.pc = "fill"])
    /\ UNCHANGED <<engine, cache, failures>>

Upload == IF setup.minio THEN "upload" ELSE "report"
WriteEnd(w) ==
    LET mine == Whole(run[w].out)
        now == file[Root(w)][run[w].task]
    IN  /\ At(w, "fill")
        /\ \E next \in IF now = Truncated THEN {mine} ELSE {mine, Garbled} :
              file' = [file EXCEPT ![Root(w)][run[w].task] = next]
        /\ Goto(w, [run[w] EXCEPT !.pc = Upload])
        /\ UNCHANGED <<engine, cache, failures>>

\* Variant: the error of the write is not looked at.
WriteFailsUnseen(w) ==
    /\ At(w, "fill")
    /\ Failing
    /\ Goto(w, [run[w] EXCEPT !.pc = Upload])
    /\ UNCHANGED <<engine, file, cache>>

WriteFails(w) ==
    /\ At(w, "fill")
    /\ Failing
    /\ Fail(w, "write")
    /\ UNCHANGED <<engine, file, cache>>

\* uploadToMinIO; nothing reads the object.
UploadEnds(w) ==
    /\ At(w, "upload")
    /\ Goto(w, [run[w] EXCEPT !.pc = "report"]) \/ Fail(w, "upload")
    /\ UNCHANGED <<engine, file, cache, failures>>

---------------------------------------------------------------------------
\* A step of Run itself.
Step(w) ==
    \/ Unsupported(w) \/ Report(w)
    \/ InstallElsewhere(w) \/ InstallFound(w) \/ InstallBegin(w)
    \/ DownloadSome(w) \/ DownloadEnds(w) \/ DownloadFails(w) \/ DownloadHangs(w)
    \/ Call(w) \/ ToolUndefined(w) \/ ToolBegin(w) \/ ToolEnds(w) \/ ToolHangs(w)
    \/ EmbedBatch(w) \/ EmbedSingle(w) \/ Search(w)
    \/ LoadDependency(w) \/ Aggregate(w)
    \/ WriteBegin(w) \/ WriteEnd(w) \/ WriteFails(w) \/ UploadEnds(w)

Next ==
    \E w \in Workers :
        \/ \E t \in Tasks : Assign(w, t)
        \/ Step(w)
        \/ Crash(w)

\* The Go runtime runs a worker's only loop; the requests of postJSON have a client
\* timeout, and an upload to MinIO is taken to end with or without success.
Spec == Init /\ [][Next]_vars /\ \A w \in Workers : WF_vars(Step(w))
---------------------------------------------------------------------------
\* Run has the output of the task and is about to store it.
Ending(w, type) == At(w, "write") /\ Work(w).type = type
\* An attempt at d other than the one that completed it was made.
Repeated(d) == attempts[d] > 1

\* An aggregation that succeeds has read a whole artifact of each dependency
\* (strict_dependencies; else of those it could read), from the attempt that
\* completed the dependency unless there were several, and its result is what
\* the sources say taken together, whatever their order: the field of the first
\* source that has it, every source that has it, and all values if they differ.
AggregationsTrue ==
    \A w \in Workers : Ending(w, "aggregation") =>
        LET out == run[w].out
            read == ToSet(out.sources)
            having == {i \in DOMAIN out.sources : out.sources[i].text # 0}
            texts == {out.sources[i].text : i \in having}
        IN  /\ Work(w).strict => Work(w).deps \subseteq {s.dep : s \in read}
            /\ \A s \in read : s.dep = 0 \/ s.attempt = done[s.dep].attempt \/ Repeated(s.dep)
            /\ out.text = IF having = {} THEN 0 ELSE out.sources[Min(having)].text
            /\ out.provenance = {out.sources[i].dep : i \in having}
            /\ out.conflicts = IF Cardinality(texts) > 1 THEN texts ELSE {}

\* A dependency that was completed can be read, unless artifacts go to MinIO
\* (whose URIs are refused), the dependency ran on a worker with another
\* ArtifactRoot, or another attempt at it has written the same file.
LoadFailuresHaveCause ==
    \A w \in Workers : At(w, "report") /\ run[w].error = "load" =>
        LET d == Min(run[w].todo)
        IN  setup.minio \/ Root(done[d].worker) # Root(w) \/ Repeated(d)

\* A model that is reported as installed is there with all its files, unless a
\* download into the directory has stopped half way before, or others were
\* downloading or removing it at the same time: a directory with anything in it
\* counts as an installed model.
InstalledModelsWhole ==
    \A w \in Workers : At(w, "write") =>
        run[w].out.model \in {"none", "elsewhere", "whole"} \/ run[w].out.excused

\* What else a task may end with: a tool without a command has no definition in
\* the catalog that could be loaded, every text has its vector whichever endpoint
\* answered, and a local search has the documents that match, up to top_k.
OutputsComplete ==
    \A w \in Workers :
        LET out == run[w].out
            work == Work(w)
        IN  /\ Ending(w, "tool_execution") /\ ~out.ran =>
                  ~work.command /\ \A t \in catalog.tools : t.id # work.tool
            /\ Ending(w, "embedding") => out.vectors = work.texts
            /\ Ending(w, "retrieval") /\ ~work.remote =>
                  /\ out.hits \subseteq work.match
                  /\ Cardinality(out.hits) < work.topK => out.hits = work.match

\* Every run ends, with its retries, fallbacks and loops, unless a command leaves
\* children behind or a downloader does not return: no time limit reaches those.
RunsEnd == \A w \in Workers : ~At(w, "idle") ~> (At(w, "idle") \/ At(w, "stuck"))
=============================================================================
