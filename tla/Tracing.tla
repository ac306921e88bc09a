-------------------------------- MODULE Tracing --------------------------------
(***************************************************************************)
(* show_transitions (tracing.py): the report of a call, one section for    *)
(* each state of its history, the last one being the final state.  A       *)
(* section shows the results recorded in its state, a row each; the hook a *)
(* result comes from is printed only where it changes.  The layout of a    *)
(* row is left out.                                                        *)
(***************************************************************************)
EXTENDS Schema, SequencesExt

EntryIn(entry, state) == IF entry.state = state THEN <<entry>> ELSE <<>>

(* [r for r in ctx.results if r.state == state] *)
EntriesIn(results, state) ==
  FlattenSeq([i \in DOMAIN results |-> EntryIn(results[i], state)])

Row(label, entry) ==
  [label |-> label, kind |-> entry.kind, name |-> entry.name, value |-> entry.value]

(* Mutant: the hook is printed once a section. *)
StateSectionOneLabel(state, results) ==
  LET entries == EntriesIn(results, state)
  IN [k \in DOMAIN entries |-> Row(IF k = 1 THEN entries[k].source ELSE None, entries[k])]

(* _format_state_section: prev_source starts afresh in every section. *)
StateSection(state, results) ==
  LET entries == EntriesIn(results, state)
      New(k)  == k = 1 \/ entries[k].source # entries[k - 1].source
  IN [k \in DOMAIN entries |->
        Row(IF New(k) THEN entries[k].source ELSE None, entries[k])]

(* _render_body: "hop i: from -> to" blocks, then "Final state". *)
Report(history, results) ==
  [i \in DOMAIN history |->
     [state |-> history[i],
      to    |-> IF i < Len(history) THEN history[i + 1] ELSE None,
      rows  |-> StateSection(history[i], results)]]

----------------------------------------------------------------------------
(* How a reader takes the report: a row without a label belongs to the hook *)
(* last printed in its section.                                             *)

SourceRead(rows, k) ==
  rows[CHOOSE j \in 1 .. k : /\ rows[j].label # None
                             /\ \A i \in j + 1 .. k : rows[i].label = None].label

ReadSection(section) ==
  [k \in DOMAIN section.rows |->
     [state |-> section.state, source |-> SourceRead(section.rows, k),
      kind |-> section.rows[k].kind, name |-> section.rows[k].name,
      value |-> section.rows[k].value]]

ReadReport(report) == FlattenSeq([i \in DOMAIN report |-> ReadSection(report[i])])
=============================================================================
