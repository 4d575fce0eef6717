---------------------------- MODULE SessionClaims ----------------------------
(***************************************************************************)
(* The memory a GPU command may touch (src/qwen38_gpu.m): every range is   *)
(* claimed while the command is encoded and held until it has ended; the   *)
(* weights are pinned once for the life of the session, all or nothing,    *)
(* and looked up by a binary search over a lazily sorted table.            *)
(*                                                                         *)
(* The caller is the graph's claim() (src/qwen38_forward_gpu.m): WRITE     *)
(* claims of its buffers, then one pass over the weights, then the run.    *)
(***************************************************************************)
EXTENDS GpuSession, Sequences, FiniteSetsExt

CONSTANTS
  Spans,      \* ranges the graph may claim: [ident, lo, hi), hi excluded
  WordSpan,   \* the error word
  Weights,    \* the ranges of the weights, in plan order
  MaxClaims   \* bound: claims of one command, the error word's included

Extent == [ident : Nat, lo : Nat, hi : Nat]

ASSUME ClaimsAssumption ==
  Weights \in Seq(Extent) /\ Spans \subseteq Extent /\ WordSpan \in Extent

VARIABLES
  claims,       \* WRITE claims of the open command
  pins,         \* pinned READ ranges, in registration order
  order,        \* the table overlaps_pin searches: pins as last sorted
  pins_sorted,
  pins_sealed,
  phase         \* the caller: "claiming", "failed" (it will abort), "running"

pinned == <<pins, order, pins_sorted, pins_sealed>>
cvars  == <<vars, claims, pinned, phase>>

\* Two ranges share a byte: the same identity and intersecting extents.
Overlap(a, b) == a.ident = b.ident /\ a.lo < b.hi /\ b.lo < a.hi

pin_before(a, b) ==
  \/ a.ident < b.ident
  \/ a.ident = b.ident /\ a.lo < b.lo

\* Mutant: the end of the last pin only.
PinHi_last(table, i) == table[i].hi

\* pin_hi[i]: the largest end among the pins up to i with the same identity.
PinHi(table, i) ==
  Max({table[j].hi : j \in {k \in 1 .. i : table[k].ident = table[i].ident}})

Ordered(t) == \A i, j \in DOMAIN t : i < j => ~pin_before(t[j], t[i])

\* What qsort makes of the ranges s; nothing is said of equal ones.
Sort(s) == CHOOSE t \in {[i \in DOMAIN s |-> s[p[i]]] : p \in Bijection(DOMAIN s, DOMAIN s)} :
             Ordered(t)

\* The table is sorted again only when pins_sorted has been cleared.
Table == IF pins_sorted THEN order ELSE Sort(pins)

\* The binary search ends at the number of pins that start below c's end.
overlaps_pin(c) ==
  LET key  == [ident |-> c.ident, lo |-> c.hi]
      last == Cardinality({i \in DOMAIN Table : pin_before(Table[i], key)})
  IN  /\ last > 0
      /\ Table[last].ident = c.ident
      /\ PinHi(Table, last) > c.lo

\* add_claim for a WRITE: refused over a pin or over another claim.
Admissible(c) ==
  /\ ~overlaps_pin(c)
  /\ \A o \in claims : ~Overlap(o, c)

Lookup ==
  /\ pins_sorted' = (pins_sorted \/ Len(pins) > 0)
  /\ order' = IF Len(pins) > 0 THEN Table ELSE order

-----------------------------------------------------------------------------
CInit ==
  /\ Init
  /\ claims = {} /\ pins = <<>> /\ order = <<>>
  /\ pins_sorted = FALSE /\ pins_sealed = FALSE
  /\ phase = "claiming"

\* The claim of the error word is not checked for success: the list is empty
\* and no pin may cover the word.
c_begin(n) ==
  /\ begin(n)
  /\ claims' = IF Admissible(WordSpan) THEN claims \cup {WordSpan} ELSE claims
  /\ Lookup
  /\ phase' = "claiming"
  /\ UNCHANGED <<pins, pins_sealed>>

\* The graph claims its buffers before it starts on the weights.
claim_write(t, c) ==
  /\ check(t, "ENCODING") /\ phase = "claiming"
  /\ pins_sealed \/ pins = <<>>
  /\ Cardinality(claims) < MaxClaims
  /\ IF Admissible(c)
       THEN claims' = claims \cup {c} /\ UNCHANGED phase
       ELSE phase' = "failed" /\ UNCHANGED claims
  /\ Lookup
  /\ UNCHANGED <<vars, pins, pins_sealed>>

\* The next weight of the pass. A WRITE already claimed over it, or no memory
\* for the table, ends the pass, which clears what it had pinned.
pin_read(t) ==
  /\ check(t, "ENCODING") /\ phase = "claiming"
  /\ ~pins_sealed /\ Len(pins) < Len(Weights)
  /\ LET w == Weights[Len(pins) + 1] IN
       /\ \A o \in claims : ~Overlap(o, w)
       /\ pins' = Append(pins, w)
  /\ pins_sorted' = FALSE
  /\ UNCHANGED <<vars, claims, order, pins_sealed, phase>>

\* Mutant: the weights pinned so far stay.
pin_failed_kept(t) ==
  /\ check(t, "ENCODING") /\ phase = "claiming"
  /\ ~pins_sealed /\ Len(pins) < Len(Weights)
  /\ phase' = "failed"
  /\ UNCHANGED <<vars, claims, pinned>>

pin_failed(t) ==
  /\ check(t, "ENCODING") /\ phase = "claiming"
  /\ ~pins_sealed /\ Len(pins) < Len(Weights)
  /\ pins' = <<>> /\ pins_sorted' = FALSE /\ pins_sealed' = FALSE
  /\ phase' = "failed"
  /\ UNCHANGED <<vars, claims, order>>

\* The pass is complete, or an earlier command has sealed it.
pins_seal(t) ==
  /\ check(t, "ENCODING") /\ phase = "claiming"
  /\ pins_sealed \/ Len(pins) = Len(Weights)
  /\ pins_sealed' = TRUE
  /\ phase' = "running"
  /\ UNCHANGED <<vars, claims, pins, order, pins_sorted>>

release_claims == claims' = {} /\ UNCHANGED <<pinned, phase>>

\* A failed pass is aborted. An encoder may also fail later, after a flush.
c_abort(t) == abort(t, FALSE) /\ phase \in {"failed", "running"} /\ release_claims

c_finish(t) == finish(t) /\ release_claims

\* Mutant: the claims are dropped when the command is submitted.
c_run_released(t) ==
  /\ phase = "running"
  /\ \/ flush(t) /\ UNCHANGED claims
     \/ submit(t) /\ claims' = {}
  /\ UNCHANGED <<pinned, phase>>

c_run(t) ==
  /\ phase = "running"
  /\ flush(t) \/ submit(t)
  /\ UNCHANGED <<claims, pinned, phase>>

CNext ==
  \/ \E n \in 0 .. Capacity :
       \/ c_begin(n)
       \/ begin_no_encoder(n) /\ UNCHANGED <<claims, pinned, phase>>
  \/ \E t \in Presented :
       \/ \E c \in Spans : claim_write(t, c)
       \/ pin_read(t) \/ pin_failed(t) \/ pins_seal(t)
       \/ c_run(t) \/ c_abort(t) \/ c_finish(t)
  \/ (reset \/ GpuRun) /\ UNCHANGED <<claims, pinned, phase>>

CSpec == CInit /\ [][CNext]_cvars

-----------------------------------------------------------------------------
\* Some committed buffer has not completed.
Running == command = "pending" \/ \E i \in 1 .. MaxFlush : early[i] = "pending"

\* No two claims of a command overlap, none overlaps a weight that is pinned,
\* and the error word is always claimed.
NoAliasedWrite ==
  busy =>
    /\ WordSpan \in claims
    /\ \A c, o \in claims : c # o => ~Overlap(c, o)
    /\ \A c \in claims, i \in 1 .. Len(pins) : ~Overlap(c, pins[i])

\* The GPU never runs a command with a weight left unpinned: the pins are
\* complete once sealed and a partial pass leaves none behind.
PinsAllOrNothing ==
  /\ Running => pins_sealed
  /\ pins_sealed \/ ~busy => pins \in {<<>>, Weights}
  /\ pins_sealed => pins = Weights

\* What a running buffer may touch stays claimed until it has completed.
HeldWhileRunning == [][Running => claims \subseteq claims' /\ pins' = pins]_cvars
=============================================================================
