------------------------------- MODULE Mapper -------------------------------
(***************************************************************************)
(* mapper.New as the code runs it: seed a builder from the package tables, *)
(* apply the options in order, then for each transport range over the      *)
(* codes that have prefix rules - in whatever order Go picks - and compile *)
(* each code's rules into a trie, giving up at the first invalid one;      *)
(* finally freeze everything into a mapper.  The calls of New in Build are *)
(* made in any order and may overlap.                                      *)
(*                                                                         *)
(* Tries appear as what SegmentTrie is proved to implement: dictionaries   *)
(* from prefixes to values that answer with the deciding rule.  Maps keyed *)
(* by code, one per transport, are functions on <<transport, code>>.       *)
(***************************************************************************)
EXTENDS MapperOptions, Sequences, GoMaps

VARIABLES
  tables,   \* package variables defaultHTTP and defaultGRPC
  opts,     \* per call of New: its argument
  pc,       \* per call: "idle", "apply", "range", "insert" or "returned"
  frame,    \* per call: New's locals, the builder among them
  result    \* per call: what New returned

vars == <<tables, opts, pc, frame, result>>

NoMapper == [override |-> EmptyMap, trie |-> EmptyMap, default |-> EmptyMap,
             fallback |-> Fallback]
NotReturned == [err |-> "none", mapper |-> NoMapper]

\* newBuilder, and the loops that copy the package tables into it.  The other
\* locals: options applied, the transport whose tries are being built, codes
\* the range loop has still to visit, the code it is at, the trie of that
\* code and how many of its rules are in it, and the finished tries.
NewFrame ==
  [default |-> tables, override |-> EmptyMap, prefixes |-> EmptyMap, applied |-> 0,
   transport |-> "http", left |-> {}, cur |-> "", trie |-> EmptyMap,
   inserted |-> 0, tries |-> EmptyMap, fallback |-> Fallback]
NoFrame == [NewFrame EXCEPT !.default = EmptyMap]

Init ==
  /\ tables = Library
  /\ opts = [b \in Build |-> <<>>]
  /\ pc = [b \in Build |-> "idle"]
  /\ frame = [b \in Build |-> NoFrame]
  /\ result = [b \in Build |-> NotReturned]

CallNew(b, o) ==
  /\ pc[b] = "idle"
  /\ opts' = [opts EXCEPT ![b] = o]
  /\ pc' = [pc EXCEPT ![b] = "apply"]
  /\ frame' = [frame EXCEPT ![b] = NewFrame]
  /\ UNCHANGED <<tables, result>>

-----------------------------------------------------------------------------
(* Options.                                                                *)

Rules(f, s) == IF s \in DOMAIN f.prefixes THEN f.prefixes[s] ELSE <<>>

\* What WithHTTPDefault, WithHTTPOverride, WithHTTPPrefix and their gRPC twins
\* do to the builder; values and prefixes go in as they are.
Applied(f, o) ==
  LET s == <<o.transport, o.code>>
      rule == [prefix |-> o.prefix, val |-> o.val]
  IN CASE o.kind = "default"  -> [f EXCEPT !.default = Put(@, s, o.val)]
       [] o.kind = "override" -> [f EXCEPT !.override = Put(@, s, o.val)]
       [] o.kind = "prefix"   ->
            [f EXCEPT !.prefixes = Put(@, s, Append(Rules(f, s), rule))]

\* Mutant: the builder's default maps are the package tables themselves.
ApplyOptionShared(b) ==
  LET n == frame[b].applied + 1
      f == Applied(frame[b], opts[b][n])
  IN
  /\ pc[b] = "apply"
  /\ n <= Len(opts[b])
  /\ frame' = [frame EXCEPT ![b] = [f EXCEPT !.applied = n]]
  /\ tables' = f.default
  /\ UNCHANGED <<opts, pc, result>>

ApplyOption(b) ==
  LET n == frame[b].applied + 1 IN
  /\ pc[b] = "apply"
  /\ n <= Len(opts[b])
  /\ frame' = [frame EXCEPT ![b] =
                 [Applied(frame[b], opts[b][n]) EXCEPT !.applied = n]]
  /\ UNCHANGED <<tables, opts, pc, result>>

-----------------------------------------------------------------------------
(* Tries.                                                                  *)

\* Mutant: the gRPC loop ranges over b.httpPrefixes.
CodesWithHTTPRules(f, t) == {c \in Code : Len(Rules(f, <<"http", c>>)) > 0}

\* The codes a range over b.httpPrefixes or b.grpcPrefixes visits.
CodesWithRules(f, t) == {c \in Code : Len(Rules(f, <<t, c>>)) > 0}

StartRange(b, t) ==
  LET f == frame[b] IN
  /\ pc' = [pc EXCEPT ![b] = "range"]
  /\ frame' = [frame EXCEPT ![b] =
                 [f EXCEPT !.transport = t, !.left = CodesWithRules(f, t)]]

BuildHTTPTries(b) ==
  /\ pc[b] = "apply"
  /\ frame[b].applied = Len(opts[b])
  /\ StartRange(b, "http")
  /\ UNCHANGED <<tables, opts, result>>

\* The range loop goes on with any code it has not visited yet.
VisitCode(b, c) ==
  LET f == frame[b] IN
  /\ pc[b] = "range"
  /\ c \in f.left
  /\ pc' = [pc EXCEPT ![b] = "insert"]
  /\ frame' = [frame EXCEPT ![b] =
       [f EXCEPT !.left = f.left \ {c}, !.cur = c, !.trie = EmptyMap, !.inserted = 0]]
  /\ UNCHANGED <<tables, opts, result>>

\* normalizeAndValidatePrefix accepts the normalized prefix.  Insert checks it
\* once more, by byte loops of its own that ask the same of every segment.
AcceptsPrefix(p) == ValidPrefix(p)

Return(b, err, m) ==
  /\ pc' = [pc EXCEPT ![b] = "returned"]
  /\ frame' = [frame EXCEPT ![b] = NoFrame]
  /\ result' = [result EXCEPT ![b] = [err |-> err, mapper |-> m]]
  /\ UNCHANGED <<tables, opts>>

CurrentRules(b) == Rules(frame[b], <<frame[b].transport, frame[b].cur>>)

\* One round of the loop over a code's rules.  New returns (nil, error) when
\* the prefix is refused.
InsertRule(b) ==
  LET f == frame[b]
      rule == CurrentRules(b)[f.inserted + 1]
      p == Normalize(rule.prefix)
  IN
  /\ pc[b] = "insert"
  /\ f.inserted < Len(CurrentRules(b))
  /\ \/ /\ AcceptsPrefix(p)
        /\ frame' = [frame EXCEPT ![b] =
             [f EXCEPT !.trie = Put(f.trie, p, Convert(f.transport, rule.val)),
                       !.inserted = f.inserted + 1]]
        /\ UNCHANGED <<tables, opts, pc, result>>
     \/ /\ ~AcceptsPrefix(p)
        /\ Return(b, "invalid prefix", NoMapper)

StoreTrie(b) ==
  LET f == frame[b] IN
  /\ pc[b] = "insert"
  /\ f.inserted = Len(CurrentRules(b))
  /\ pc' = [pc EXCEPT ![b] = "range"]
  /\ frame' = [frame EXCEPT ![b] =
       [f EXCEPT !.tries = Put(f.tries, <<f.transport, f.cur>>, f.trie),
                 !.cur = "", !.trie = EmptyMap, !.inserted = 0]]
  /\ UNCHANGED <<tables, opts, result>>

BuildGRPCTries(b) ==
  /\ pc[b] = "range"
  /\ frame[b].transport = "http"
  /\ frame[b].left = {}
  /\ StartRange(b, "grpc")
  /\ UNCHANGED <<tables, opts, result>>

\* Mutant: gRPC values are copied without the conversion.
FrozenAsIs(f) == f

\* A fresh copy of a builder map, its gRPC values converted.
Frozen(f) == [s \in DOMAIN f |-> Convert(s[1], f[s])]

Freeze(b) ==
  /\ pc[b] = "range"
  /\ frame[b].transport = "grpc"
  /\ frame[b].left = {}
  /\ Return(b, "nil", [override |-> Frozen(frame[b].override),
                       trie |-> frame[b].tries,
                       default |-> Frozen(frame[b].default),
                       fallback |-> frame[b].fallback])

Next ==
  \E b \in Build :
    \/ \E o \in OptionList : CallNew(b, o)
    \/ ApplyOption(b)
    \/ BuildHTTPTries(b)
    \/ \E c \in Code : VisitCode(b, c)
    \/ InsertRule(b)
    \/ StoreTrie(b)
    \/ BuildGRPCTries(b)
    \/ Freeze(b)

Spec == Init /\ [][Next]_vars

-----------------------------------------------------------------------------
(* Queries on a finished mapper m.                                         *)

\* Match and MatchWithPattern on the trie of a slot, if it has one.
Covering(m, s, r) ==
  IF s \in DOMAIN m.trie
  THEN {p \in DOMAIN m.trie[s] : IsBest(p, DOMAIN m.trie[s], r)}
  ELSE {}

Deciding(m, s, r) == CHOOSE p \in Covering(m, s, r) : TRUE

\* Mutant: GRPCStatus ends with codes.Unknown.
HardFallbackUnknown(t) == IF t = "http" THEN 500 ELSE 2

\* The literals HTTPStatus and GRPCStatus end with.
HardFallback(t) == IF t = "http" THEN 500 ELSE 13

\* HTTPStatus (t = "http") and GRPCStatus (t = "grpc"); Status asks both.
StatusOf(m, t, c, r) ==
  LET s == <<t, c>> IN
  IF s \in DOMAIN m.override THEN m.override[s]
  ELSE IF Covering(m, s, r) # {} THEN m.trie[s][Deciding(m, s, r)]
  ELSE IF s \in DOMAIN m.default THEN m.default[s]
  ELSE HardFallback(t)

\* explainHTTP and explainGRPC: the source of the status, the status, and for
\* a prefix rule its pattern.
ExplainOf(m, t, c, r) ==
  LET s == <<t, c>>
      Line(source, pattern, val) ==
        [source |-> source, pattern |-> pattern, val |-> val]
  IN
  IF s \in DOMAIN m.override THEN Line("override", <<>>, m.override[s])
  ELSE IF Covering(m, s, r) # {}
    THEN Line("prefix", Deciding(m, s, r), m.trie[s][Deciding(m, s, r)])
  ELSE IF s \in DOMAIN m.default THEN Line("default", <<>>, m.default[s])
  ELSE Line("fallback", <<>>, m.fallback[t])

-----------------------------------------------------------------------------
(* Properties.                                                             *)

Returned(b) == result[b].err = "nil"

\* Types; the maps of a mapper are keyed by slots, its rules are valid
\* prefixes, and every gRPC status in it fits codes.Code.
MapperOK(m) ==
  /\ DOMAIN m.override \cup DOMAIN m.default \cup DOMAIN m.trie \subseteq Slot
  /\ \A s \in DOMAIN m.trie : \A p \in DOMAIN m.trie[s] :
       ValidPrefix(p) /\ m.trie[s][p] \in Int
  /\ \A q \in Query : q[1] = "grpc" =>
       StatusOf(m, q[1], q[2], q[3]) \in 0..(CodeModulus - 1)

TypeOK ==
  /\ DOMAIN tables \subseteq Slot
  /\ opts \in [Build -> OptionList \cup {<<>>}]
  /\ pc \in [Build -> {"idle", "apply", "range", "insert", "returned"}]
  /\ \A b \in Build :
       /\ frame[b].applied \in 0..Len(opts[b])
       /\ frame[b].transport \in Transport
       /\ frame[b].left \subseteq Code
       /\ frame[b].cur \in Code \cup {""}
       /\ frame[b].inserted \in 0..Len(CurrentRules(b))
       /\ result[b].err \in {"none", "nil", "invalid prefix"}
       /\ MapperOK(result[b].mapper)

\* New, with its option loop, its map iterations in any order and its early
\* returns, gives the mapper - or the error - that the option list alone
\* determines; other calls of New running at the same time change nothing.
OutcomeOf(b) ==
  CASE pc[b] = "idle" -> [state |-> "none", status |-> <<>>]
    [] pc[b] = "returned" ->
         IF Returned(b)
         THEN [state |-> "mapper",
               status |-> [q \in Query |->
                             StatusOf(result[b].mapper, q[1], q[2], q[3])]]
         ELSE [state |-> "error", status |-> <<>>]
    [] OTHER -> [state |-> "running", status |-> <<>>]
Contract == INSTANCE MapperContract WITH
              outcome <- [b \in Build |-> OutcomeOf(b)]
ImplementsContract == Contract!Spec

\* Explain and Status are separate code paths over separate trie searches and
\* separate fallbacks: for every query they name the same status, and the
\* pattern Explain shows is a rule the caller gave, in canonical form, that
\* covers the reason (mapper.go:170-220, 247-317).
ExplainAgrees ==
  \A b \in Build : Returned(b) =>
    \A q \in Query :
      LET e == ExplainOf(result[b].mapper, q[1], q[2], q[3]) IN
      /\ e.val = StatusOf(result[b].mapper, q[1], q[2], q[3])
      /\ e.source = "prefix" =>
           \E i \in DOMAIN opts[b] :
             /\ opts[b][i].kind = "prefix"
             /\ <<opts[b][i].transport, opts[b][i].code>> = <<q[1], q[2]>>
             /\ Normalize(opts[b][i].prefix) = e.pattern
             /\ Matches(e.pattern, q[3])

\* The claim of the comments on WithHTTPOverride, WithGRPCOverride and the
\* mapper's httpOverride: overrides "sit below per-reason prefix matches
\* (LPM) for that code" (options.go:43, 50; mapper.go:138).
PrefixBeatsOverride ==
  \A b \in Build : Returned(b) =>
    \A q \in Query :
      LET m == result[b].mapper
          s == <<q[1], q[2]>>
      IN Covering(m, s, q[3]) # {} =>
           StatusOf(m, q[1], q[2], q[3]) = m.trie[s][Deciding(m, s, q[3])]

\* The claim that prefixes are validated via reason.Parse (mapper.go:39, 320),
\* whose format has at most four segments (reason.go:65, 86): an accepted
\* rule is no longer than a reason can be.
MaxSegments == 4
AcceptedPrefixesParse ==
  \A b \in Build : Returned(b) =>
    \A s \in DOMAIN result[b].mapper.trie :
      \A p \in DOMAIN result[b].mapper.trie[s] : Len(p) <= MaxSegments

\* The claim of the comment on the default table (defaults.go:41-42): 499 "for
\* canceled by default".
CanceledIs499 ==
  \A b \in Build : Returned(b) /\ opts[b] = <<>> =>
    StatusOf(result[b].mapper, "http", "canceled", <<>>) = 499
=============================================================================
