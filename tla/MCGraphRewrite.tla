---------------------------- MODULE MCGraphRewrite ----------------------------
(***************************************************************************)
(* TLC instance of GraphRewrite, with two history variables.  Whole-graph  *)
(* writes race here with commits and with one another, start from copies   *)
(* that are torn or long outdated, and die between any two of their        *)
(* queries; `disputed` collects the paths over which somebody wrote who    *)
(* had not seen their last change.                                         *)
(***************************************************************************)
EXTENDS GraphRewrite, TLC

CONSTANT MaxCalls   \* bound: whole-graph writes that begin in one behaviour

VARIABLES
  calls,     \* the whole-graph writes that have begun
  missed,    \* per client: the paths others changed since it began to read its copy
  disputed   \* the paths whose change was missed by a client that then wrote the store

mcvars == <<rvars, calls, missed, disputed>>

\* The client holds a copy, or part of one, or is inside writeGraph.
UnderWay(c) == phase[c] # "idle" \/ (c \in Agents /\ rewrite[c] # NoRewrite)

\* The client takes the step.
Acts(c) ==
  \/ phase'[c] # phase[c] \/ graph'[c] # graph[c]
  \/ c \in Agents /\ rewrite'[c] # rewrite[c]

Rewritten == {p \in Paths : files'[p] # files[p]}

MCInit ==
  /\ RewriteInit
  /\ calls = 0
  /\ missed = [c \in Clients |-> {}]
  /\ disputed = {}

MCNext ==
  /\ RewriteNext
  /\ calls' = calls + Cardinality({a \in Agents : rewrite[a] = NoRewrite /\ rewrite'[a] # NoRewrite})
  /\ missed' = [c \in Clients |->
       IF ~UnderWay(c)' THEN {} ELSE IF Acts(c) THEN missed[c] ELSE missed[c] \cup Rewritten]
  /\ disputed' = disputed \cup
       UNION {missed[c] : c \in {d \in Clients : Acts(d) /\ store' # store}}

MCSpec == MCInit /\ [][MCNext]_mcvars

\* When every path is disputed nothing is left to say, so the run does not go on.
Bounded == calls <= MaxCalls /\ disputed # Paths

PathSymmetry == Permutations(Paths)

\* The files and the history without the disputed paths.
SettledFiles == [p \in Paths |-> IF p \in disputed THEN NoFile ELSE files[p]]
SettledRows == {row \in versions : row.path \notin disputed}

\* What an unguarded whole-graph write can damage is confined to the paths whose change
\* its client had missed: however these writes race with commits and with one another,
\* and wherever they die, every other path keeps its content, its history tells it, and
\* no two of its revisions are the same.
DamageIsConfined ==
  /\ HistoryTells(SettledFiles, SettledRows, head.revision)
  /\ OneChangeEach(SettledFiles, SettledRows, head.revision)

===============================================================================
