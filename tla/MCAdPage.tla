------------------------------ MODULE MCAdPage -------------------------------
(* A small instance of AdPage: ads and arguments that meet in every way.   *)
EXTENDS AdPage

MCLetter == {"honda", "toyota", "mazda", "civic", "land", "cruiser", "wagon",
             "3", "200", "2005", "ex", "s"}

Honda == <<"honda">>
Toyota == <<"toyota">>
Mazda == <<"mazda">>
Civic == <<"civic">>
Land == <<"land">>
Cruiser == <<"cruiser">>
Wagon == <<"wagon">>
Three == <<"3">>
Ex == <<"ex">>

MCArg == {<<Honda>>, <<Honda, Civic>>, <<Mazda, Three>>,
          <<Toyota, Land, Cruiser>>, <<Toyota, Land, Cruiser, Wagon>>,
          <<Honda, <<"civic", "-", "ex">>>>, <<Honda, Ex>>}
MCMakeModels == {<<a>> : a \in MCArg} \cup (MCArg \X MCArg)

\* A model with and without a style, one with its hyphens or a letter more, one
\* behind another word, one in the year of its own ad or another's, and none.
MCDesc ==
  { <<<<"2005">>, Honda, Civic, Ex>>,
    <<<<"2005">>, Honda, <<"civic", "s">>>>,
    <<<<"200", "3">>, Mazda, Three, Ex>>,
    <<<<"2005">>, Toyota, Land, Cruiser, Wagon, Ex>>,
    <<<<"2005">>, Toyota, Land, Cruiser>>,
    <<<<"2005">>, Toyota, <<"land", "-", "cruiser">>, Ex>>,
    <<<<"200", "3">>, Honda, Ex, Civic>>,
    <<<<"2005">>, Honda, Ex>>,
    <<<<"2005">>, Honda>> }

MCPage ==
  [price : {None, <<>>, <<0>>, <<4, 5>>, <<4, 5, 0>>, <<0, 4, 5>>},
   odometer : {None, <<9>>, <<1, 5, 0>>, <<1, 5, 0, 0>>, <<0, 1, 5, 0>>, <<9, 5, 0>>},
   desc : MCDesc,
   broken : BOOLEAN]

MCStylePages == {<<>>, <<{Wagon}>>, <<{Wagon}, {Ex, Wagon}, {Ex}>>, <<{Ex}, {Wagon, <<"s">>}>>}

\* MySpider.kbb_models
MCKbbModels ==
  (<<"land", "-", "cruiser", "-", "wagon">> :> <<"land", "-", "cruiser">>)

=============================================================================
