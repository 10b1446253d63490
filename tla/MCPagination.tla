---------------------------- MODULE MCPagination ----------------------------
(* Small instances of Pagination for TLC.                                     *)
EXTENDS Pagination, TLC

Filter(field, op, args, pos) ==
    [field |-> field, op |-> op, args |-> args, tagged |-> FALSE, pos |-> pos]

Query(directives, parameters) ==
    [directives |-> directives, elsewhere |-> {}, parameters |-> parameters,
     rest |-> [kind |-> "fractional", num |-> 1, den |-> 1],
     results_per_root |-> 1, linked_estimate |-> NoStatistics]

lo == <<"lo", 0>>
hi == <<"hi", 0>>
paged == <<"__paged_param", 0>>

(* Statistics of a class with an integer key and a uuid.                      *)
KeyFields == {"id", "uuid"}
KeyValues == [id |-> 0..5, uuid |-> 0..9]
Keys == <<"id", "uuid">>

Info(count, id, keys) ==
    [class_count |-> count, quantiles |-> [id |-> id, uuid |-> NoStatistics],
     pagination_keys |-> keys]

(* They may change in the middle of a call, the keys excepted.                *)
KeySchemaInfos ==
    { Info(8, <<0, 1, 2, 3, 5>>, Keys),
      Info(9, <<0, 2, 2, 2, 4, 5>>, Keys),
      Info(8, <<0, 1, 2, 3, 4, 5>>, Keys),
      Info(6, <<0, 3, 5>>, Keys),
      Info(6, NoStatistics, Keys),
      Info(NoStatistics, <<0, 1, 2, 3, 5>>, Keys),
      Info(9, <<0, 1, 2, 3, 5>>, <<"uuid", "id">>),
      Info(8, <<0, 1, 2, 3, 5>>, <<>>) }

IdQueries ==
    { Query({}, <<>>),
      Query({Filter("id", ">=", <<lo>>, 1)}, lo :> 1),
      Query({Filter("id", "between", <<lo, hi>>, 1)}, lo :> 1 @@ hi :> 4),
      Query({Filter("id", "<", <<hi>>, 1), Filter("id", ">", <<lo>>, 2)}, lo :> 0 @@ hi :> 5),
      Query({Filter("id", ">=", <<paged>>, 1), Filter("id", ">=", <<lo>>, 2)},
            lo :> 0 @@ paged :> 2),
      Query({Filter("id", "=", <<lo>>, 1)}, lo :> 1),
      [Query({[Filter("id", ">=", <<>>, 1) EXCEPT !.tagged = TRUE]}, <<>>)
          EXCEPT !.results_per_root = 2],
      [Query({Filter("id", "<=", <<hi>>, 1)}, hi :> 4) EXCEPT !.linked_estimate = 3],
      [Query({}, <<>>) EXCEPT !.linked_estimate = 1] }

(* At most three results by an indexed field, all past the last uuid.         *)
PastTheEnd ==
    [Query({Filter("uuid", ">", <<lo>>, 1)}, lo :> 9) EXCEPT !.rest = Absolute(3)]

(* At most three results by an indexed field, all with one uuid.              *)
FewByIndex ==
    [Query({Filter("uuid", "between", <<lo, hi>>, 1)}, lo :> 5 @@ hi :> 5)
        EXCEPT !.rest = Absolute(3)]

UuidQueries ==
    { Query({Filter("uuid", ">=", <<lo>>, 1)}, lo :> 3),
      Query({Filter("uuid", "between", <<lo, hi>>, 1)}, lo :> 2 @@ hi :> 8),
      Query({Filter("uuid", "<", <<hi>>, 1), Filter("uuid", ">", <<lo>>, 2)},
            lo :> 1 @@ hi :> 9),
      Query({Filter("uuid", "<", <<hi>>, 1)}, hi :> 0),
      Query({Filter("uuid", "=", <<lo>>, 1)}, lo :> 7),
      PastTheEnd, FewByIndex }

(* One parameter in two filters, on the same field or elsewhere in the query. *)
SharedQueries ==
    { [Query({Filter("id", ">=", <<lo>>, 1)}, lo :> 1) EXCEPT !.elsewhere = {lo}],
      Query({Filter("id", "<", <<hi>>, 1), Filter("uuid", "<", <<hi>>, 1)}, hi :> 5) }

(* Queries the caller should not have asked, or not so.                       *)
BadQueries ==
    SharedQueries \cup
    { Query({Filter("id", ">=", <<lo>>, 1)}, hi :> 1),
      Query({Filter("id", ">=", <<lo>>, 1), Filter("id", ">=", <<lo>>, 2)}, lo :> 1) }

KeyQueries == IdQueries \cup UuidQueries \cup BadQueries

KeyRow(i, u) == [id |-> i, uuid |-> u]

TwoRows == {"r1", "r2"}

(* Every value of either key in one row, beside one that may be updated.      *)
KeyTables == {[r1 |-> KeyRow(u % 6, u), r2 |-> KeyRow(4, 1)] : u \in 0..9}

(* Two integer keys, the second one coarse; one row beside and after another. *)
OrderedFields == {"id", "age"}
OrderedValues == [id |-> 0..5, age |-> 0..1]

OrderedInfo(count, id, age) ==
    [class_count |-> count, quantiles |-> [id |-> id, age |-> age],
     pagination_keys |-> <<"id", "age">>]

OrderedSchemaInfos ==
    { OrderedInfo(8, <<0, 1, 2, 3, 5>>, <<0, 0, 1, 1>>),
      OrderedInfo(9, <<0, 2, 2, 2, 4, 5>>, NoStatistics) }

OrderedQueries ==
    {q \in IdQueries : /\ q.linked_estimate = NoStatistics /\ q.results_per_root = 1
                       /\ Cardinality(q.directives) # 1}

Row(i, a) == [id |-> i, age |-> a]

OrderedTables == {[r1 |-> Row(i, 1), r2 |-> Row(3, 0)] : i \in {3, 5}}

=============================================================================
