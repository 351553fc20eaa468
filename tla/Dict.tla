--------------------------------- MODULE Dict ---------------------------------
(***************************************************************************)
(* The dictionaries that the parsers fill: the fields of a location report *)
(* by name, the values of parameters by id.                                *)
(***************************************************************************)
EXTENDS Naturals, SequencesExt

\* One key, and what is new overriding the rest: an assignment, dict.update.
Field(name, value) == [f \in {name} |-> value]
Updated(fields, new) ==
    [f \in DOMAIN fields \cup DOMAIN new |->
       IF f \in DOMAIN new THEN new[f] ELSE fields[f]]
NoFields == [f \in {} |-> 0]

\* What is said of a field is what was said of it last: what a sequence of
\* dictionaries should come to, without the order in which they are merged.
Said(says) ==
    LET of(f) == {i \in DOMAIN says : f \in DOMAIN says[i]}
    IN  [f \in UNION {DOMAIN says[i] : i \in DOMAIN says} |->
           says[Max(of(f))][f]]

=============================================================================
