---------------------------- MODULE MCSqlComments ----------------------------
(* Every script of at most MaxPieces pieces, for TLC. *)
EXTENDS SqlComments

CONSTANT MaxPieces

Pieces == { <<"x">>, <<"space">>, <<"lf">>, <<"cr">>, <<"cr", "lf">>,
            <<"single">>, <<"backtick">>, <<"backslash">>,
            <<"dash">>, <<"dash", "dash">>, <<"hash">>,
            <<"slash", "star">>, <<"star", "slash">>, <<"slash">> }

MCContents == {FlattenSeq(p) : p \in UNION {[1..n -> Pieces] : n \in 0..MaxPieces}}
=============================================================================
