---------------------------- MODULE ToolCatalog ----------------------------
(***************************************************************************)
(* The worker's catalog of tools (worker/internal/tools/catalog.go): how a *)
(* catalog is loaded and merged with the built-in tools, and how a tool's  *)
(* command is made from a task's inputs.                                   *)
(*                                                                         *)
(* IDs and parameters are names without case or blanks around them.  A     *)
(* template is the set of its placeholders, a command the values they got. *)
(* An input is [ns, name, value], where ns is the prefix of its key: "",   *)
(* "param.", "_" or "dep:"; the value "" is blank.                         *)
(***************************************************************************)
EXTENDS Naturals, Sequences, SequencesExt

Tool(id, holes, required, allowed) ==
    [id |-> id, template |-> TRUE, holes |-> holes, required |-> required, allowed |-> allowed]

builtins == {Tool("split", {"text"}, {"text"}, {"text"})}

NoCatalog == [ok |-> FALSE, tools |-> {}]

\* A file is [kind, tools]: "none" when no path is configured, "bad" when it
\* cannot be read or parsed.  Of two tools with one ID the later one counts.
Load(file) ==
    LET Winner(id) == CHOOSE i \in DOMAIN file.tools :
            /\ file.tools[i].id = id
            /\ \A k \in DOMAIN file.tools : file.tools[k].id = id => k <= i
        user == {file.tools[Winner(t.id)] : t \in ToSet(file.tools)}
        builtin == {t \in builtins : \A u \in user : u.id # t.id}
    IN  CASE file.kind = "none" -> [ok |-> TRUE, tools |-> builtins]
          [] file.kind = "bad" \/ \E t \in ToSet(file.tools) : t.id = "" -> NoCatalog
          [] OTHER -> [ok |-> TRUE, tools |-> builtin \cup user]

Resolve(catalog, id) == {t \in catalog.tools : t.id = id}

Reserved == {"tool", "op", "command", "script", "backend", "model"}

\* The parameters.  A name given twice, with and without its prefix, gets either
\* value: the inputs are a Go map.
inputParams(inputs) ==
    LET given == {i \in inputs : \/ i.ns = "param."
                                 \/ i.ns = "" /\ i.name \notin Reserved}
        names == {i.name : i \in given}
    IN  {f \in [names -> {i.value : i \in given}] :
            \A n \in names : [name |-> n, value |-> f[n]]
                \in {[name |-> i.name, value |-> i.value] : i \in given}}

\* The arguments of the command, or no command and the error.
RenderError == [ok |-> FALSE, args |-> {}]
Render(tool, params) ==
    LET blank == {n \in tool.required \cup tool.holes :
                    n \notin DOMAIN params \/ params[n] = ""}
        forbidden == IF tool.allowed = {} THEN {} ELSE DOMAIN params \ tool.allowed
    IN  IF tool.template /\ blank = {} /\ forbidden = {}
        THEN [ok |-> TRUE, args |-> {<<n, params[n]>> : n \in tool.holes}]
        ELSE RenderError
============================================================================
