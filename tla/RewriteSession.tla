---------------------------- MODULE RewriteSession ----------------------------
(***************************************************************************)
(* What one run of the compiler workflow remembers of earlier passes       *)
(* (compile/workflow.rs, compile/transform/rewrite): a certificate that    *)
(* some anchors of the current circuit match no rewrite rule, with which   *)
(* the next knowledge rewrite skips them, and a proof that the circuit is  *)
(* canonical.  Both are keyed by a revision counter and carried through    *)
(* the edits of other passes.                                              *)
(*                                                                         *)
(* A circuit is a sequence of one-qubit gates.  Positions count from 1.    *)
(* One action is one pass, and for a rewrite one round.                    *)
(***************************************************************************)
EXTENDS Integers, Sequences, FiniteSets, SequencesExt, FiniteSetsExt

CONSTANTS
    Qubits,
    Keyed,          \* gates with a RewriteInstructionKey
    Unkeyed,        \* operations without: they end a rewrite block
    Commuting,      \* pairs of gates that commute on one qubit
    Rules,          \* records of a kind, a source and a target
    Configs,        \* RewriteConfig: mode, kinds, window, pattern and target
    MaxRounds,      \* RewriteConfig::max_rounds
    ScanPercent,    \* DIRTY_FULL_SCAN_PERCENT
    Revisions,      \* the revision counter wraps there (2^64)
    MaxLen,         \* bound: operations of a circuit
    MaxEdits,       \* bound: replacements of one edit script
    MaxInserted,    \* bound: operations that one replacement inserts
    None

Gates == Keyed \cup Unkeyed
Ops == [gate : Gates, qubit : Qubits]
Sources == {"Linear", "Bijection", "Unknown"}   \* RewriteEdits

ASSUME Widths ==
    /\ Revisions \in Nat \ {0} /\ MaxRounds \in Nat \ {0} /\ MaxLen \in Nat
    /\ None \notin Nat

(* A rule has a source, and both its sides are keyed gates.                *)
ASSUME RuleShapes ==
    /\ IsFiniteSet(Rules)
    /\ \A r \in Rules : r.source \in Seq(Keyed) \ {<<>>} /\ r.target \in Seq(Keyed)
    /\ \A cfg \in Configs : cfg.window \in Nat /\ cfg.pattern \in Nat

VARIABLES
    current,    \* WorkflowState::current; while rewriting, the block as rewritten
    revision,   \* WorkflowState::circuit_revision
    cert,       \* KnowledgeRewriteSession::certificate
    canonical,  \* revision of WorkflowState::canonical_proof
    unchanged,  \* history: current is what the canonicalizer returned last
    run         \* the rewrite being executed

(* No rewrite is being executed. *)
Idle == [round |-> 0]

vars == <<current, revision, cert, canonical, unchanged, run>>

Keys(c) == [i \in 1..Len(c) |-> c[i].gate]
Eligible(c) == \A i \in 1..Len(c) : c[i].gate \in Keyed
Histogram(c) == [g \in Keyed |-> Cardinality({i \in 1..Len(c) : c[i].gate = g})]

-----------------------------------------------------------------------------
(* Matching: which candidates a scan finds at an anchor. *)

Commute(g, h) == g = h \/ <<g, h>> \in Commuting \/ <<h, g>> \in Commuting

AllowsKind(cfg, kind) ==
    /\ kind \in cfg.kinds
    /\ kind \in {"Decompose", "HardwareNative"} => cfg.mode = "Lowering"

Considered(cfg) == {r \in Rules : AllowsKind(cfg, r.kind) /\ Len(r.source) <= cfg.pattern}

(* max_match_reach: how far ahead of its anchor a match may look. *)
Reach(cfg) == Max({(Len(r.source) - 1) * cfg.window : r \in Considered(cfg)} \cup {0})

(* rule_passes_target_filter; lowering takes one step, so a rewrite may    *)
(* emit just the gates of the target.                                      *)
Active(cfg) ==
    {r \in Considered(cfg) : cfg.target = None \/ ToSet(r.target) \subseteq cfg.target}

Unsupported(cfg, gates) ==
    IF cfg.target = None THEN 0
    ELSE Cardinality({i \in 1..Len(gates) : gates[i] \notin cfg.target})

(* allows_rewrite.  Of the local costs, the unsupported gates and, among   *)
(* equals, the number of gates.                                            *)
AllowsRewrite(cfg, r) ==
    LET before == Unsupported(cfg, r.source)
        after == Unsupported(cfg, r.target)
    IN  \/ after < before
        \/ after = before /\ Len(r.target) < Len(r.source)
        \/ /\ after = before
           /\ cfg.target = None
           /\ cfg.mode = "Lowering"
           /\ r.kind \in {"Decompose", "HardwareNative"}

(* Positions of one block: only keyed operations from i to j. *)
SameBlock(c, i, j) == \A n \in i..j : c[n].gate \in Keyed

(* Where item i > 1 of the rule fits when the items before it are matched  *)
(* at the positions at[1], ..., at[i - 1]: what lies between is on another *)
(* qubit or commutes with all of them.                                     *)
Fitting(c, keys, cfg, r, a, at, i) ==
    {q \in (at[i - 1] + 1)..Min({Len(c), at[i - 1] + cfg.window}) :
        /\ keys[q] = r.source[i]
        /\ c[q].qubit = c[a].qubit
        /\ SameBlock(c, a, q)
        /\ \A n \in (at[i - 1] + 1)..(q - 1) : c[n].qubit = c[a].qubit =>
            \A m \in {at[j] : j \in 1..(i - 1)} \cup {q} : Commute(keys[n], keys[m])}

(* try_match_rule: where each item of the rule is found, 0 for nowhere.    *)
(* Keys are read from the cache of the block, qubits from the operations.  *)
Found(c, keys, cfg, r, a) ==
    LET at[i \in 1..Len(r.source)] ==
          IF i = 1 THEN (IF keys[a] = r.source[1] /\ SameBlock(c, a, a) THEN a ELSE 0)
          ELSE IF at[i - 1] = 0 \/ Fitting(c, keys, cfg, r, a, at, i) = {} THEN 0
          ELSE Min(Fitting(c, keys, cfg, r, a, at, i))
    IN  at

CandidatesAt(c, keys, cfg, a) ==
    {[first |-> a, last |-> Found(c, keys, cfg, r, a)[Len(r.source)],
      matched |-> Range(Found(c, keys, cfg, r, a)),
      output |-> [i \in 1..Len(r.target) |-> [gate |-> r.target[i], qubit |-> c[a].qubit]]] :
     r \in {s \in Active(cfg) :
              LET at == Found(c, keys, cfg, s, a)
                  skipped == {n \in a..at[Len(s.source)] : n \notin Range(at)
                                                  /\ c[n].qubit = c[a].qubit}
              IN  /\ at[Len(s.source)] # 0
                  /\ \A n \in skipped, i \in 1..Len(s.target) : Commute(keys[n], s.target[i])
                  /\ AllowsRewrite(cfg, s)}}

Candidates(c, keys, cfg, anchors) == UNION {CandidatesAt(c, keys, cfg, a) : a \in anchors}

-----------------------------------------------------------------------------
(* One round: selecting patches and applying them. *)

Overlap(p, q) == p.first <= q.last /\ q.first <= p.last

(* select_candidate_patches: greedy by cost, so some maximal set of        *)
(* candidates whose spans are disjoint; which one is left open.            *)
Selections(cands) ==
    {P \in SUBSET cands :
        /\ \A p, q \in P : p # q => ~ Overlap(p, q)
        /\ \A q \in cands \ P : \E p \in P : Overlap(p, q)}

(* patch_application_plan: a replacement precedes its first match. *)
Patched(s, P, output) ==
    FlattenSeq([i \in 1..Len(s) |->
        (IF \E p \in P : p.first = i THEN output[CHOOSE p \in P : p.first = i] ELSE <<>>)
        \o (IF \E p \in P : i \in p.matched THEN <<>> ELSE <<s[i]>>)])

(* By how much a set of patches lengthens the circuit. *)
Growth(P) == SumFunction([p \in P |-> Len(p.output) - Cardinality(p.matched)])

(* Mutant: only the matched positions are dirtied, not what looks at them. *)
DirtyAfterPatchesNear(len, P, reach) ==
    UNION {LET start == p.first + Growth({q \in P : q.first < p.first})
               end == p.last + Growth({q \in P : q.first <= p.first})
           IN  start..Min({len + Growth(P), Max({start, end})}) : p \in P}

(* dirty_ranges_after_patches. *)
DirtyAfterPatches(len, P, reach) ==
    LET new == len + Growth(P)
        ranges == UNION {
            LET start == p.first + Growth({q \in P : q.first < p.first})
                end == p.last + Growth({q \in P : q.first <= p.first})
            IN  Max({1, start - reach})..Min({new, Max({start, end})}) : p \in P}
    IN  IF ranges = {} THEN 1..Min({new, reach + 1}) ELSE ranges

(* The rewrite blocks of a circuit: its longest runs of keyed operations. *)
Blocks(c) ==
    {B \in {i..j : i, j \in 1..Len(c)} \ {{}} :
        /\ SameBlock(c, Min(B), Max(B))
        /\ Min(B) > 1 => ~ SameBlock(c, Min(B) - 1, Min(B))
        /\ Max(B) < Len(c) => ~ SameBlock(c, Max(B), Max(B) + 1)}

(* block_summary_changes: its gates or its qubits are others. *)
SummaryChanges(c, block, P) ==
    LET kept == {c[i] : i \in {n \in block : \A p \in P : n \notin p.matched}}
        now == kept \cup UNION {ToSet(p.output) : p \in P}
        before == {c[i] : i \in block}
    IN  \/ {op.gate : op \in before} # {op.gate : op \in now}
        \/ {op.qubit : op \in before} # {op.qubit : op \in now}

(* record_next_block_workset, for every block that was patched. *)
DirtyInBlocks(c, P, reach) ==
    UNION {LET inside == {p \in P : p.first \in block}
               before == Min(block) - 1
               local == {[p EXCEPT !.first = @ - before, !.last = @ - before] : p \in inside}
               moved == before + Growth({p \in P : p.first <= before})
               len == Cardinality(block)
           IN  {moved + n : n \in IF SummaryChanges(c, block, inside)
                                   THEN 1..(len + Growth(inside))
                                   ELSE DirtyAfterPatches(len, local, reach)} :
           block \in {b \in Blocks(c) : \E p \in P : p.first \in b}}

(* select_rewrites_for_anchor_ranges gives up on small clean parts. *)
Scanned(c, anchors) ==
    UNION {IF 100 * Cardinality(anchors \cap block) >= ScanPercent * Cardinality(block)
           THEN block ELSE anchors \cap block : block \in Blocks(c)}

-----------------------------------------------------------------------------
(* Edit scripts of other passes. *)

(* One replacement: the operations from..to-1, however many, make room for *)
(* ops.  It may only insert or only remove, or do nothing at all.          *)
Replacements(c) ==
    {e \in [from : 1..(Len(c) + 1), to : 1..(Len(c) + 1), ops : BoundedSeq(Ops, MaxInserted)] :
        e.from <= e.to}

(* valid_replacements: they come in order, and one may begin where the one *)
(* before it ends.                                                         *)
Scripts(c) ==
    {es \in BoundedSeq(Replacements(c), MaxEdits) :
        \A i \in 1..(Len(es) - 1) : es[i].to <= es[i + 1].from}

Renamings == {f \in [Qubits -> Qubits] : \A p, q \in Qubits : p # q => f[p] # f[q]}
Identity == [q \in Qubits |-> q]

Renamed(ops, name) == [n \in 1..Len(ops) |-> [ops[n] EXCEPT !.qubit = name[@]]]

(* The clean gap behind the first i replacements. *)
Gap(s, es, i) == SubSeq(s, IF i = 0 THEN 1 ELSE es[i].to,
                           IF i = Len(es) THEN Len(s) ELSE es[i + 1].from - 1)

(* The circuit with the script applied and its clean gaps renamed. *)
After(c, es, names) ==
    LET gap(i) == Renamed(Gap(c, es, i), names[i])
    IN  gap(0) \o FlattenSeq([i \in 1..Len(es) |-> es[i].ops \o gap(i)])

(* How far a script has moved what follows its first n replacements. *)
Shift(es, n) ==
    SumFunctionOnSet([i \in DOMAIN es |-> Len(es[i].ops) - (es[i].to - es[i].from)], 1..n)

(* Where the pending anchors outside the replacements are afterwards. *)
Moved(pending, es) ==
    {n + Shift(es, Cardinality({i \in 1..Len(es) : es[i].to <= n})) :
     n \in {m \in pending : \A i \in 1..Len(es) : m \notin es[i].from..(es[i].to - 1)}}

(* Mutant: an anchor whose reach just ends at a replacement stays clean. *)
MappedShort(pending, es, len, reach) ==
    LET start(i) == es[i].from + Shift(es, i - 1)
        end(i) == Max({start(i), start(i) + Len(es[i].ops) - 1})
        new == len + Shift(es, Len(es))
    IN  Moved(pending, es) \cup
        UNION {Max({1, start(i) - reach + 1})..Min({new, end(i)}) : i \in 1..Len(es)}

(* Mutant: the end of a range is not clamped to the new length. *)
MappedUnclamped(pending, es, len, reach) ==
    LET start(i) == es[i].from + Shift(es, i - 1)
        end(i) == Max({start(i), start(i) + Len(es[i].ops) - 1})
    IN  Moved(pending, es) \cup
        UNION {Max({1, start(i) - reach})..end(i) : i \in 1..Len(es)}

(* Mutant: a later replacement is looked for where it was before the edit. *)
MappedOldStart(pending, es, len, reach) ==
    LET end(i) == Max({es[i].from, es[i].from + Len(es[i].ops) - 1})
        new == len + Shift(es, Len(es))
        range(i) == Max({1, es[i].from - reach})..Min({new, end(i)})
        touched(i) == IF range(i) = {} THEN Max({1, new - reach})..new ELSE range(i)
    IN  Moved(pending, es) \cup UNION {touched(i) : i \in 1..Len(es)}

(* map_and_invalidate_ranges: what was replaced, and whatever looks at it. *)
Mapped(pending, es, len, reach) ==
    LET start(i) == es[i].from + Shift(es, i - 1)
        end(i) == Max({start(i), start(i) + Len(es[i].ops) - 1})
        new == len + Shift(es, Len(es))
        range(i) == Max({1, start(i) - reach})..Min({new, end(i)})
        touched(i) == IF range(i) = {} THEN Max({1, new - reach})..new ELSE range(i)
    IN  Moved(pending, es) \cup UNION {touched(i) : i \in 1..Len(es)}

(* Mutant: the workspace keeps its keys where the operations changed. *)
RespliceOld(keys, es) ==
    [i \in 1..(Len(keys) + Shift(es, Len(es))) |-> IF i <= Len(keys) THEN keys[i] ELSE None]

(* BlockMatchCache::after_linear_replacements: the keys of what was        *)
(* inserted are read from the new circuit, all others kept.                *)
Respliced(keys, es) ==
    Gap(keys, es, 0) \o FlattenSeq([i \in 1..Len(es) |-> Keys(es[i].ops) \o Gap(keys, es, i)])

(* Mutant: a replacement takes one operation out of the counts. *)
RecountedOnce(histogram, before, es) ==
    LET removed(g) == {i \in 1..Len(es) : es[i].from < es[i].to /\ before[es[i].from].gate = g}
        inserted(g) == SumFunction([i \in DOMAIN es |->
            Cardinality({n \in 1..Len(es[i].ops) : es[i].ops[n].gate = g})])
    IN  [g \in Keyed |-> histogram[g] - Cardinality(removed(g)) + inserted(g)]

(* GateInstructionHistogram::after_linear_replacements. *)
Recounted(histogram, before, es) ==
    LET removed(g) == {n \in 1..Len(before) :
                         /\ before[n].gate = g
                         /\ \E i \in 1..Len(es) : n \in es[i].from..(es[i].to - 1)}
        inserted(g) == SumFunction([i \in DOMAIN es |->
            Cardinality({n \in 1..Len(es[i].ops) : es[i].ops[n].gate = g})])
    IN  [g \in Keyed |-> histogram[g] - Cardinality(removed(g)) + inserted(g)]

-----------------------------------------------------------------------------
(* The session. *)

(* Mutant: a proof without a target serves any target. *)
ConfigSubsetAnyTarget(asked, proof, histogram) ==
    /\ asked.mode = proof.mode
    /\ asked.target = proof.target \/ proof.target = None
    /\ asked.window <= proof.window
    /\ asked.pattern <= proof.pattern
    /\ asked.kinds \subseteq proof.kinds

(* config_is_proven_subset. *)
ConfigSubset(asked, proof, histogram) ==
    /\ asked.mode = proof.mode
    /\ \/ asked.target = proof.target
       \/ /\ asked.target # None /\ proof.target = None
          /\ {g \in Keyed : histogram[g] > 0} \subseteq asked.target
    /\ asked.window <= proof.window
    /\ asked.pattern <= proof.pattern
    /\ asked.kinds \subseteq proof.kinds

Applies(cfg) ==
    /\ cert # None
    /\ cert.revision = revision
    /\ ConfigSubset(cfg, cert.config, cert.histogram)

(* reusable_proof: the whole rewrite is skipped. *)
Reusable(cfg) == Applies(cfg) /\ cert.pending = {}

Init ==
    /\ current \in BoundedSeq(Ops, MaxLen)
    /\ revision = 0
    /\ cert = None
    /\ canonical = None
    /\ unchanged = FALSE
    /\ run = Idle

NextRevision == (revision + 1) % Revisions

(* apply_rewrite_edits: the certificate after an edit. *)
Edited(es, edits, after) ==
    IF \/ cert = None
       \/ cert.revision # revision
       \/ edits = "Unknown"
       \/ edits = "Linear" /\ after # After(current, es, [i \in 0..Len(es) |-> Identity])
       \/ ~ Eligible(current) \/ ~ Eligible(after)
    THEN None
    ELSE [cert EXCEPT
            !.revision = NextRevision,
            !.pending = Mapped(@, es, Len(current), cert.reach),
            !.histogram = Recounted(@, current, es),
            !.workspace = IF @ = None THEN None ELSE Respliced(@, es)]

(* Mutant: a wrapped revision keeps the proofs. *)
AdoptWrapped(es, names, edits) ==
    LET after == After(current, es, names) IN
    /\ current' = after
    /\ revision' = NextRevision
    /\ unchanged' = (unchanged /\ after = current)
    /\ cert' = IF NextRevision = 0 THEN None ELSE Edited(es, edits, after)
    /\ canonical' = canonical

(* adopt_changed_circuit. *)
Adopt(es, names, edits) ==
    LET after == After(current, es, names) IN
    /\ current' = after
    /\ revision' = NextRevision
    /\ unchanged' = (unchanged /\ after = current)
    /\ cert' = IF NextRevision = 0 THEN None ELSE Edited(es, edits, after)
    /\ canonical' = IF NextRevision = 0 THEN None ELSE canonical

Fits(es) == Len(current) + Shift(es, Len(es)) <= MaxLen

(* A pass that hands over a script of its edits, or none: apply_transform, *)
(* a resynthesis with provenance, a route.  What a linear script calls     *)
(* unchanged may have been renamed, which the session finds out.           *)
Pass ==
    /\ run = Idle
    /\ \E es \in Scripts(current), edits \in Sources :
        \E names \in [0..Len(es) -> Renamings] :
            /\ Fits(es)
            /\ edits # "Bijection" => \A i \in 0..(Len(es) - 1) : names[i] = Identity
            /\ edits = "Unknown" => names[Len(es)] = Identity
            /\ Adopt(es, names, edits)
    /\ UNCHANGED run

(* Native optimization: a new revision, and the session is not told. *)
OptimizeNative ==
    /\ run = Idle
    /\ \E es \in Scripts(current) :
        /\ Fits(es)
        /\ current' = After(current, es, [i \in 0..Len(es) |-> Identity])
    /\ current' # current
    /\ revision' = NextRevision
    /\ unchanged' = FALSE
    /\ cert' = IF NextRevision = 0 THEN None ELSE cert
    /\ canonical' = IF NextRevision = 0 THEN None ELSE canonical
    /\ UNCHANGED run

(* apply_canonicalize without a proof of its postcondition; what canonical *)
(* form is does not matter here.                                           *)
Canonicalize ==
    /\ run = Idle
    /\ canonical # revision
    /\ \/ UNCHANGED <<current, revision, cert>>
       \/ \E es \in Scripts(current) :
            LET names == [i \in 0..Len(es) |-> Identity]
                after == After(current, es, names)
            IN  /\ Fits(es)
                /\ after # current
                /\ current' = after
                /\ revision' = NextRevision
                /\ cert' = IF NextRevision = 0 THEN None ELSE Edited(es, "Linear", after)
    /\ canonical' = revision'
    /\ unchanged' = TRUE
    /\ UNCHANGED run

(* detached_clone: a branch of the route beam starts without a session. *)
Detach ==
    /\ run = Idle
    /\ cert # None
    /\ cert' = None
    /\ UNCHANGED <<current, revision, canonical, unchanged, run>>

(* apply_knowledge_rewrite, when no proof makes it superfluous: what it    *)
(* scans first (take_reconciled_linear_state, run_for_session).  Circuits  *)
(* of several blocks are scanned incrementally from some size on.          *)
Rewrite(cfg) ==
    /\ run = Idle
    /\ ~ Reusable(cfg)
    /\ \E incremental \in BOOLEAN :
       LET kept == Applies(cfg) /\ Eligible(current)
       IN  run' = [config |-> cfg, round |-> 1, changed |-> FALSE,
                   incremental |-> Eligible(current) \/ incremental,
                   anchors |-> IF kept THEN cert.pending ELSE 1..Len(current),
                   keys |-> IF kept /\ cert.workspace # None /\ Len(cert.workspace) = Len(current)
                            THEN cert.workspace ELSE Keys(current)]
    /\ UNCHANGED <<current, revision, cert, canonical, unchanged>>

Patches == Candidates(current, run.keys, run.config, Scanned(current, run.anchors))

(* A round of run_linear_workspace, or of RoundRewriter::run, which scans  *)
(* everything again unless the circuit is large.                           *)
Round ==
    /\ run # Idle
    /\ run.round <= MaxRounds
    /\ \E P \in Selections(Patches) \ {{}} :
        /\ current' = Patched(current, P, [p \in P |-> p.output])
        /\ run' = [run EXCEPT
                    !.round = @ + 1,
                    !.changed = TRUE,
                    !.keys = Patched(@, P, [p \in P |-> Keys(p.output)]),
                    !.anchors = IF Eligible(current)
                                THEN DirtyAfterPatches(Len(current), P, Reach(run.config))
                                ELSE IF run.incremental
                                THEN DirtyInBlocks(current, P, Reach(run.config))
                                ELSE 1..Len(current')]
    /\ UNCHANGED <<revision, cert, canonical, unchanged>>

(* The rewrite ends at a fixpoint or after its rounds: the revision        *)
(* advances if it changed anything, then record_execution.                 *)
Record ==
    LET fixpoint == run.round <= MaxRounds IN
    /\ run # Idle
    /\ fixpoint => Patches = {}
    /\ revision' = IF run.changed THEN NextRevision ELSE revision
    /\ canonical' = IF run.changed /\ NextRevision = 0 THEN None ELSE canonical
    /\ unchanged' = (unchanged /\ ~ run.changed)
    /\ cert' = IF ~ fixpoint THEN None
               ELSE [revision |-> revision', config |-> run.config,
                     reach |-> Reach(run.config), pending |-> {},
                     histogram |-> Histogram(current),
                     workspace |-> IF Eligible(current) THEN run.keys ELSE None]
    /\ run' = Idle
    /\ UNCHANGED current

Next ==
    \/ Pass
    \/ OptimizeNative
    \/ Canonicalize
    \/ Detach
    \/ \E cfg \in Configs : Rewrite(cfg)
    \/ Round
    \/ Record

Spec == Init /\ [][Next]_vars

-----------------------------------------------------------------------------
(* Shapes: dirty anchors are positions of the circuit they are about.      *)
TypeOK ==
    /\ current \in Seq(Ops)
    /\ revision \in 0..(Revisions - 1)
    /\ canonical \in 0..(Revisions - 1) \cup {None}
    /\ unchanged \in BOOLEAN
    /\ cert # None =>
        /\ cert.revision \in 0..(Revisions - 1)
        /\ cert.config \in Configs
        /\ cert.revision = revision /\ run = Idle => cert.pending \subseteq 1..Len(current)
        /\ \A g \in Keyed : cert.histogram[g] >= 0
    /\ run # Idle =>
        /\ run.anchors \subseteq 1..Len(current)
        /\ Len(run.keys) = Len(current)

(* Whatever passes have edited since the proof, no rule matches at an      *)
(* anchor the next rewrite would skip, under any configuration it accepts  *)
(* the proof for.  So a skipped rewrite would have changed nothing         *)
(* (reusable_proof) and a partial scan reaches the fixpoint of a full one  *)
(* (take_reconciled_linear_state).                                         *)
SkippedAnchorsAreClean ==
    run = Idle =>
        \A cfg \in Configs : Applies(cfg) =>
            Candidates(current, Keys(current), cfg, (1..Len(current)) \ cert.pending) = {}

(* The keys kept for the matcher and the gate counts that stand for the    *)
(* circuit in comparing targets are those of the current circuit: rules    *)
(* are matched against what is there (after_linear_replacements).          *)
WorkspaceIsCurrent ==
    /\ cert # None /\ cert.revision = revision /\ run = Idle =>
        /\ cert.histogram = Histogram(current)
        /\ cert.workspace # None => cert.workspace = Keys(current)
    /\ run # Idle => run.keys = Keys(current)

(* Canonicalization is skipped only for the very circuit it returned last, *)
(* also when the revision counter has wrapped (has_canonical_proof).       *)
CanonicalProofIsFresh == run = Idle /\ canonical = revision => unchanged

=============================================================================
