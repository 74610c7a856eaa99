----------------------------- MODULE MCExecutor -----------------------------
(* Small instances of Executor for TLC. *)
EXTENDS Executor

CONSTANTS w1, w2

\* A task that does not come.
None ==
    [type |-> "none", attempts |-> 0, deps |-> {}, items |-> <<>>, prints |-> {1},
     strict |-> TRUE, required |-> FALSE, install |-> FALSE, force |-> FALSE,
     source |-> "huggingface", backend |-> TRUE, command |-> FALSE, tool |-> "noop",
     inputs |-> {}, texts |-> 0, docs |-> {}, match |-> {}, topK |-> 1, remote |-> FALSE]
Once(work) == [work EXCEPT !.attempts = 1]
Twice(work) == [work EXCEPT !.attempts = 2]

In(ns, name, value) == [ns |-> ns, name |-> name, value |-> value]
Command == [None EXCEPT !.type = "tool_execution", !.command = TRUE, !.prints = {0, 1, 2}]
Defined(id, inputs) == [Command EXCEPT !.command = FALSE, !.tool = id, !.inputs = inputs]
Inference == [None EXCEPT !.type = "llm_inference"]
Installing == [Inference EXCEPT !.install = TRUE]
Download == [None EXCEPT !.type = "model_download"]
Embedding(backend, n) == [None EXCEPT !.type = "embedding", !.backend = backend, !.texts = n]
Retrieval(k, remote) ==
    [None EXCEPT !.type = "retrieval", !.docs = 1..3, !.match = 1..2, !.topK = k, !.remote = remote]
Both == [None EXCEPT !.type = "aggregation", !.attempts = 1, !.deps = {1, 2}]
Item == [dep |-> 0, attempt |-> 0, text |-> 2]
Lenient == [Both EXCEPT !.strict = FALSE, !.required = TRUE]

Shared ==
    [shared |-> TRUE, minio |-> FALSE, inline |-> TRUE, failures |-> 0,
     catalog |-> [kind |-> "none", tools |-> <<>>], work |-> <<None, None, None>>]
Apart == [Shared EXCEPT !.shared = FALSE]
Catalog(kind) ==
    [Shared EXCEPT !.inline = FALSE, !.catalog = [kind |-> kind, tools |->
        <<Tool("echo", {"x"}, {}, {}), Tool("split", {"text"}, {"text"}, {}),
          Tool("echo", {"x"}, {"x"}, {"x"})>>]]

\* Two tasks and an aggregation of their artifacts.
Reports ==
    {[Shared EXCEPT !.work = <<Twice(Command), Once(Command), Both>>],
     [Shared EXCEPT !.work = <<Once(Command), Once(Command),
         [Both EXCEPT !.items = <<Item>>]>>, !.failures = 1],
     [Apart EXCEPT !.work = <<Once(Command), Once(Command), Both>>],
     [Apart EXCEPT !.work = <<Once(Command), Once(Command), Lenient>>],
     [Shared EXCEPT !.minio = TRUE, !.work = <<Once(Command), None, [Both EXCEPT !.deps = {1}]>>],
     [Shared EXCEPT !.minio = TRUE, !.work = <<Once(Command), Once(Command),
         [Lenient EXCEPT !.items = <<Item>>]>>]}
\* The model that two tasks want and a third replaces.
Installs ==
    {[Shared EXCEPT !.work = <<Twice(Download), Once([Download EXCEPT !.force = TRUE]),
                               Once(Installing)>>, !.failures = 1]}
\* Tasks on their own.
Alone ==
    {[Shared EXCEPT !.work[1] = Once(work)] :
        work \in {None, Inference, [Inference EXCEPT !.backend = FALSE],
                  [Installing EXCEPT !.source = "ollama"],
                  [Download EXCEPT !.source = "elsewhere"],
                  Embedding("local", 0), Embedding("ollama", 3), Embedding("vllm", 2),
                  Retrieval(1, FALSE), Retrieval(3, FALSE), Retrieval(1, TRUE)}}
    \cup {[Catalog(kind) EXCEPT !.work[1] = Once(work)] :
            kind \in {"none", "bad", "ok"},
            work \in {Command,
                Defined("echo", {In("", "x", "v"), In("param.", "x", ""), In("dep:", "d", "u")}),
                Defined("split", {In("", "text", "v"), In("", "model", "m"), In("_", "p", "v")})}}

AllSetups == Reports \cup Installs \cup Alone
=============================================================================
