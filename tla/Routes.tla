------------------------------- MODULE Routes -------------------------------
(***************************************************************************)
(* The routes of both web servers: how the configuration is read           *)
(* (http/request_handler.c:573-645, https/request_handler.c:518-590), and  *)
(* how a request finds its route (http/request_handler.c:708-750,          *)
(* https/request_handler.c:633-671).                                       *)
(*                                                                         *)
(* Paths are sequences of characters without the leading "/".  A line of   *)
(* the file is a route, of a known type or not, or an "AUTH" of a path; a  *)
(* rule is known by the line it was loaded from.                           *)
(***************************************************************************)
EXTENDS Naturals, Sequences, FiniteSets, SequencesExt

CONSTANTS MAX_ROUTES, \* 32 in the code
          Characters  \* those of paths

ASSUME RoutesAssumption == MAX_ROUTES \in Nat /\ {"i", "c", "r"} \subseteq Characters

Kinds == {"route", "unknown", "auth"}

(* Mutant: the mark of an earlier route is not looked for.                   *)
MarkLast(rules, path) ==
  [i \in DOMAIN rules |-> IF i = Len(rules) /\ rules[i].path = path
                          THEN [rules[i] EXCEPT !.needs_auth = TRUE] ELSE rules[i]]

(* AUTH marks every rule of that path which is loaded already.               *)
Mark(rules, path) ==
  [i \in DOMAIN rules |-> IF rules[i].path = path
                          THEN [rules[i] EXCEPT !.needs_auth = TRUE] ELSE rules[i]]

(* load_config_file.  A route of an unknown type is skipped, but only after  *)
(* the table has been found to have room: one line too many, of whatever     *)
(* type, is the end of the file.                                             *)
Loaded(file) ==
  LET after[i \in 0..Len(file)] ==
        IF i = 0 THEN [rules |-> <<>>, on |-> TRUE]
        ELSE LET before == after[i - 1]
                 line == file[i]
             IN CASE ~before.on -> before
                  [] before.on /\ line.kind = "auth" ->
                       [before EXCEPT !.rules = Mark(@, line.path)]
                  [] before.on /\ line.kind # "auth" /\ Len(before.rules) >= MAX_ROUTES ->
                       [before EXCEPT !.on = FALSE]
                  [] before.on /\ line.kind = "unknown" /\ Len(before.rules) < MAX_ROUTES ->
                       before
                  [] before.on /\ line.kind = "route" /\ Len(before.rules) < MAX_ROUTES ->
                       [before EXCEPT !.rules =
                          Append(@, [path |-> line.path, line |-> i, needs_auth |-> FALSE])]
  IN after[Len(file)].rules

(* handle_work: "/" is "/index.html". *)
Index == <<"i">>
Requested(path) == IF path = <<>> THEN Index ELSE path

(* The first of the longest rules that begin the path: 0 for none.           *)
BestRule(rules, path) ==
  LET best[i \in 0..Len(rules)] ==
        IF i = 0 THEN [length |-> 0, rule |-> 0]
        ELSE LET length == Len(rules[i].path) + 1
             IN IF IsPrefix(rules[i].path, path) /\ length > best[i - 1].length
                THEN [length |-> length, rule |-> i] ELSE best[i - 1]
  IN best[Len(rules)].rule

-----------------------------------------------------------------------------
(* Bounds: the paths, and the length of the file. *)
Paths == {<<>>, <<"c">>, <<"c", "r">>}
Files == UNION {[1..n -> [kind : Kinds, path : Paths]] : n \in 0..4}

(* The lines of a file that are read: up to the route too many.              *)
RouteLines(file, n) == {i \in 1..n : file[i].kind = "route"}
IsRead(file, i) ==
  \A k \in 1..i : file[k].kind # "auth" => Cardinality(RouteLines(file, k - 1)) < MAX_ROUTES

ReadRoutes(file, n) == {i \in RouteLines(file, n) : IsRead(file, i)}

(* Up to line n, an AUTH line for the path of route line l stands behind it. *)
Guarded(file, l, n) ==
  \E i \in l..n : /\ file[i].kind = "auth" /\ file[i].path = file[l].path
                  /\ IsRead(file, i)

(* A request goes to the route line that is the longest to begin its path,   *)
(* the first of equal ones, and to none only if there is none; and its       *)
(* password is asked for exactly if an AUTH line for the path of that route  *)
(* stands behind it.  Of all this, what stands behind a route too many does  *)
(* not count.                                                                *)
RoutedRight(file, path) ==
  LET rules == Loaded(file)
      asked == Requested(path)
      matching == {i \in ReadRoutes(file, Len(file)) : IsPrefix(file[i].path, asked)}
      best == BestRule(rules, asked)
      l == rules[best].line
  IN IF matching = {} THEN best = 0
     ELSE /\ best # 0 /\ l \in matching /\ rules[best].path = file[l].path
          /\ \A i \in matching : \/ Len(file[i].path) < Len(file[l].path)
                                 \/ Len(file[i].path) = Len(file[l].path) /\ l <= i
          /\ rules[best].needs_auth <=> Guarded(file, l, Len(file))

RoutesRight == \A file \in Files, path \in Paths : RoutedRight(file, path)

=============================================================================
