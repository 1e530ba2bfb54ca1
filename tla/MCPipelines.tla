------------------------------- MODULE MCPipelines -------------------------------
(* Small inputs for each of the parts. *)
EXTENDS Pipelines

SeqUpTo(S, n) == UNION {[1..k -> S] : k \in 0..n}

\* Two books with a norm out of scope, one without an id, a text with lines
\* before its first Absatz and one without any; a third book is not there.
Norm(b, s, i, t) == [book |-> b, sec |-> s, id |-> i, text |-> t]
Laws ==
  [bgb |-> << <<Norm("bgb", 535, TRUE, <<"", "1", "", "2">>), Norm("bgb", 1, TRUE, <<"">>)>>,
              <<Norm("bgb", 577, TRUE, <<"">>)>> >>,
   betrkv |-> << <<Norm("betrkv", 0, FALSE, <<"1">>), Norm("betrkv", 2, TRUE, <<"1", "1a">>)>> >>,
   wistg |-> NoBook]
Slugs == <<"bgb", "betrkv", "wistg">>

Statute(n, s) == [id |-> n, tag |-> s, parent |-> NoParent]
Child(n, l, p) == [id |-> n, tag |-> l, parent |-> p]
Rows == [statutes |-> {Statute(1, "535"), Statute(2, "535"), Statute(3, "551")},
         case_law |-> {Child(4, "BGH", 1), Child(5, "BGH", 1), Child(6, "AG", 2),
                       Child(7, "AG", NoParent)}]
Ask(s, sec, level) == [says |-> s, tag |-> [statutes |-> sec, case_law |-> level]]
Questions == {Ask("a", sec, level) : sec \in {NoTag, "551", "999"}, level \in {NoTag, "BGH", "BFH"}}
Reworded == {<<Ask("a", NoTag, NoTag), Ask("b", NoTag, "AG"), Ask("b", NoTag, "AG")>>}
Lever(q, c, p, r) == [multiQuery |-> q, courtFilter |-> c, parents |-> p, parentRerank |-> r]
Switches == {Lever(FALSE, FALSE, TRUE, TRUE), Lever(TRUE, TRUE, TRUE, TRUE),
             Lever(FALSE, TRUE, TRUE, FALSE), Lever(TRUE, FALSE, FALSE, FALSE)}
Pages == SeqUpTo(SeqUpTo({"v", "w"}, 2), 3)

ContractTexts == SeqUpTo({"/", "Nr", "H", ".", "w"}, 6)
DecisionTexts == SeqUpTo({"/", "##", "w"}, 6)
AllDumps ==
  {[i \in DOMAIN d |-> [id |-> i, cites |-> d[i] = 9, hits |-> d[i], text |-> <<"w", "w", "w">>]] :
     d \in SeqUpTo({1, 2, 3, 9}, 5)}
AllGists == {[i \in 1..5 |-> g] : g \in {<<>>, <<"g">>}}

Evaluated == <<"statutes", "case_law">>

Notices ==
  [party : Party, type : TenancyType, years : {Missing, -1, 0, 4, 5, 7, 8, 9},
   interval : Interval \cup {Missing}, terms : {Missing, "agreed"}]
Rents == [rent : {0} \cup 95..125, local : {0, 9, 10, 11}, area : {0, 95, 100, 101},
          builtAfter : BOOLEAN, modernised : BOOLEAN]
=============================================================================
