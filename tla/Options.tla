------------------------------- MODULE Options -------------------------------
(* An Option<T> of the source as a set of at most one value: {} is None and *)
(* {x} is Some(x).                                                          *)
Get(option) == CHOOSE x \in option : TRUE
GetOr(option, default) == IF option = {} THEN default ELSE Get(option)

(* The value, as a sequence of at most one, if the condition holds. *)
OneIf(condition, value) == IF condition THEN <<value>> ELSE <<>>
=============================================================================
