------------------------------ MODULE JsonArray ------------------------------
(***************************************************************************)
(* The text that the readers write under --as-json-array, read token by    *)
(* token: "{}" is a block, "hex" a line of packed data, "text" a line of   *)
(* another kind.                                                           *)
(***************************************************************************)
JsonMoves == { <<"start", "[", "open">>,  <<"open", "]", "closed">>,
               <<"open", "{}", "item">>,  <<"item", "]", "closed">>,
               <<"item", ",", "comma">>,  <<"comma", "{}", "item">> }

JsonStates == {"start", "open", "item", "comma", "closed", "bad"}

After(state, token) ==
    IF \E s \in JsonStates : <<state, token, s>> \in JsonMoves
    THEN CHOOSE s \in JsonStates : <<state, token, s>> \in JsonMoves
    ELSE "bad"

=============================================================================
