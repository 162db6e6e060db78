-------------------------- MODULE MCTableLifeCycle --------------------------
(***************************************************************************)
(* TableLifeCycle for TLC: a resident record and an ejected one of         *)
(* different sizes.                                                        *)
(***************************************************************************)
EXTENDS TableLifeCycle

MCRecords == {[size |-> 111, resident |-> TRUE],
              [size |-> 99, resident |-> FALSE]}

=============================================================================
