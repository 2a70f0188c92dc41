------------------------------ MODULE TreeLoop ------------------------------
(***************************************************************************)
(* main of tree-status (tools/tree-status/src/main.rs): the tree pubkeys   *)
(* come from --tree (one item) or from a file (read_lines, one item per   *)
(* line; an item is an error when the line cannot be read or parsed as a  *)
(* Pubkey).  The chosen command sets up its connections (each with ?),    *)
(* then runs for each item in order, logging a command's error and going  *)
(* on; fix-tree takes only the first item; check-tree-leafs flushes its   *)
(* output at the end.  A tree command is a black box ending in Ok, Err or *)
(* a panic (an unwrap inside it), which ends the process.                 *)
(***************************************************************************)
EXTENDS Integers, Sequences

CONSTANTS
    Trees,      \* tree pubkeys
    MaxLines,   \* most items in a file of trees
    LineKinds,  \* "tree" (a pubkey) and possibly "bad" (a failed line)
    Outcomes    \* what a tree command may end in: "ok", "err", "panic"

VARIABLES
    action,     \* the subcommand
    lines,      \* the items of the pubkey stream
    result,     \* result[i]: how the command ends for item i
    stage,      \* "setup", "loop", "flush" or "exited"
    pos,        \* the next item of the stream
    processed,  \* the trees a command ran for, in order
    logged,     \* items whose command error was logged
    exit        \* how main ended: "none", "ok", "err" or "panic"

vars == <<action, lines, result, stage, pos, processed, logged, exit>>

\* The subcommands: the single-tree ones read one item from --tree.
Actions == {"check-tree", "check-trees", "check-tree-leafs", "check-trees-leafs",
            "show-tree", "show-trees", "fix-tree"}
Single == {"check-tree", "check-tree-leafs", "show-tree", "fix-tree"}
LeafsActions == {"check-tree-leafs", "check-trees-leafs"}

\* Outcomes a command can reach: read_tree has no unwrap; check_tree
\* (split_at_mut on a short account in get_onchain_tree_seq,
\* try_into().unwrap(), get_missing_seq), check_tree_leafs (the
\* AssetMaxSeq unwrap) and fix_tree (try_into, channel and scope unwraps)
\* can panic.
CanEnd(a) ==
    IF a \in {"show-tree", "show-trees"} THEN Outcomes \ {"panic"} ELSE Outcomes

Line == [kind : LineKinds, tree : Trees]

Init ==
    /\ action \in Actions
    /\ \E n \in IF action \in Single THEN {1} ELSE 1..MaxLines :
          /\ lines \in [1..n -> Line]
          /\ result \in [1..n -> CanEnd(action)]
    /\ stage = "setup"
    /\ pos = 1
    /\ processed = <<>>
    /\ logged = {}
    /\ exit = "none"

\* The subcommands for which Args::get_pg_conn builds a pool: it parses
\* pg_url with unwrap() and bails for the show commands.
PgActions == Actions \ {"show-tree", "show-trees"}

\* Args::parse, the concurrency check, read_lines(file)?, get_pg_conn()?,
\* get_messenger_config()? and the output file's open()?: any of them
\* returns the error from main; a malformed pg_url panics in get_pg_conn.
Setup ==
    /\ stage = "setup"
    /\ \/ stage' = "loop" /\ UNCHANGED exit
       \/ stage' = "exited" /\ exit' = "err"
       \/ action \in PgActions /\ stage' = "exited" /\ exit' = "panic"
    /\ UNCHANGED <<action, lines, result, pos, processed, logged>>

\* The items the loop consumes: fix-tree's if let takes only the first.
LastPos == IF action = "fix-tree" THEN 1 ELSE Len(lines)

\* One iteration of while let Some(maybe_pubkey): maybe_pubkey? returns a
\* bad item's error from main; otherwise the command runs, an Err is
\* logged and the loop goes on, a panic ends the process.
Step ==
    /\ stage = "loop"
    /\ pos <= LastPos
    /\ pos' = pos + 1
    /\ IF lines[pos].kind = "bad"
       THEN /\ stage' = "exited" /\ exit' = "err"
            /\ UNCHANGED <<processed, logged>>
       ELSE /\ processed' = Append(processed, lines[pos].tree)
            /\ logged' = IF result[pos] = "err" THEN logged \cup {pos} ELSE logged
            /\ IF result[pos] = "panic"
               THEN stage' = "exited" /\ exit' = "panic"
               ELSE UNCHANGED <<stage, exit>>
    /\ UNCHANGED <<action, lines, result>>

\* The stream is exhausted: check-tree-leafs goes on to flush its output,
\* the other commands return Ok.
EndLoop ==
    /\ stage = "loop"
    /\ pos > LastPos
    /\ IF action \in LeafsActions
       THEN stage' = "flush" /\ UNCHANGED exit
       ELSE stage' = "exited" /\ exit' = "ok"
    /\ UNCHANGED <<action, lines, result, pos, processed, logged>>

\* output.flush().await?: a failed flush returns the error from main.
Flush ==
    /\ stage = "flush"
    /\ stage' = "exited"
    /\ exit' \in {"ok", "err"}
    /\ UNCHANGED <<action, lines, result, pos, processed, logged>>

Next == Setup \/ Step \/ EndLoop \/ Flush

Spec == Init /\ [][Next]_vars /\ WF_vars(Next)

-----------------------------------------------------------------------------

TypeOK ==
    /\ action \in Actions
    /\ stage \in {"setup", "loop", "flush", "exited"}
    /\ pos \in 1..Len(lines) + 1
    /\ processed \in Seq(Trees)
    /\ logged \subseteq DOMAIN lines
    /\ exit \in {"none", "ok", "err", "panic"}
    /\ (stage = "exited") <=> (exit # "none")

\* Spec 6 and 7: once main has set up and exited, every well-formed tree
\* item was processed, whatever happened to the other trees.
TreeIsolation ==
    stage = "exited" /\ pos > 1 =>
        \A i \in 1..LastPos : lines[i].kind = "tree" =>
            \E j \in 1..Len(processed) : processed[j] = lines[i].tree
=============================================================================
