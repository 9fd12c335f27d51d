------------------------------- MODULE MCRows -------------------------------
(* Rows with limits of a few bytes and one digit on either side of ':'.    *)
(* Sequence numbers turn over after two rows.                              *)
EXTENDS RowsProperties

CONSTANTS zero, one, long, near, nan

MCKeys == {<<>>, <<"space">>, <<"space", "alpha">>, <<"digit", "alpha", "colon">>,
           <<"wide", "wide">>, <<"alpha", "space", "punct", "alpha">>}
MCValues == {<<>>, <<"alpha", "alpha", "alpha">>, <<"wide", "alpha">>, <<"alpha", "wide">>}

MCTimes == {-1, 0, 1, 2, 3, 5, 8}

(* Names with colons at both ends, and labels whose keys become equal: by  *)
(* the sanitizing, by the cut, and one behind the cap.                     *)
Label(k, v) == [key |-> k, value |-> v]
MCSamples ==
  {[name |-> <<"digit">>, kind |-> "counter", value |-> one,
    labels |-> <<Label(<<"wide">>, <<"alpha">>), Label(<<"space">>, <<>>),
                 Label(<<"punct">>, <<"digit">>)>>],
   [name |-> <<"colon", "alpha">>, kind |-> "gauge", value |-> nan,
    labels |-> <<Label(<<"alpha", "alpha", "alpha", "digit">>, <<"digit">>),
                 Label(<<"alpha", "alpha", "alpha", "alpha">>, <<"alpha">>),
                 Label(<<"alpha">>, <<>>)>>],
   [name |-> <<"alpha", "colon", "digit">>, kind |-> "histogram",
    value |-> long, labels |-> <<>>]}

(* A value of 17 digits that comes back as its neighbour.                  *)
MCParsed == [v \in {zero, one, long, near} |-> IF v = long THEN near ELSE v]
=============================================================================
