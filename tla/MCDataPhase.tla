------------------------------ MODULE MCDataPhase ------------------------------
(* Property lists of at most two properties, one of an object that has no  *)
(* value for it; a string with a terminator within, and one that is too    *)
(* long, which stay readable after the cut.                                *)
EXTENDS DataPhase

Values ==
    {[type |-> Integer(1), of |-> 7], [type |-> Integer(16), of |-> 8], [type |-> Array(2), of |-> <<>>],
     [type |-> Array(4), of |-> <<5, 6>>], [type |-> Array(16), of |-> <<5, 6>>],
     [type |-> String, of |-> <<>>], [type |-> String, of |-> <<4, 5, 6>>],
     [type |-> String, of |-> <<4, 0, 6>>], [type |-> String, of |-> <<4, 5, 6, 7>>]}

Property(handle, code, values, valid) ==
    [handle : {handle}, code : {code}, value : values, valid : {valid}]

MCLists ==
    LET settable(handle) == Property(handle, 11, Values, TRUE)
        fixed == Property(1, 12, {[type |-> Integer(8), of |-> 9]}, TRUE)
        absent == Property(1, 11, {[type |-> Integer(2), of |-> 3]}, FALSE)
    IN  {<<>>} \cup {<<p>> : p \in absent} \cup {<<p, q>> : p \in fixed \cup absent, q \in settable(2)}
            \cup {<<p, q>> : p \in settable(1), q \in settable(2) \cup fixed}
=============================================================================
