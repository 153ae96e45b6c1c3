------------------------------ MODULE MCBundle ------------------------------
EXTENDS Bundle

\* Prices with and without minor units and grouping, both ways of writing them,
\* a refund, a currency without minor units, one that looks like a year, and one
\* that "order" follows.
WrittenPrices ==
    {[minor |-> 5, currency |-> "USD", group |-> "", point |-> ".", after |-> ""],
     [minor |-> -1050, currency |-> "USD", group |-> "", point |-> ".", after |-> ""],
     [minor |-> 123456, currency |-> "USD", group |-> ",", point |-> ".", after |-> ""],
     [minor |-> 123456, currency |-> "EUR", group |-> ".", point |-> ",", after |-> ""],
     [minor |-> 123400, currency |-> "EUR", group |-> ".", point |-> "", after |-> ""],
     [minor |-> 200000, currency |-> "USD", group |-> "", point |-> "", after |-> ""],
     [minor |-> 12345, currency |-> "JPY", group |-> ",", point |-> "", after |-> ""],
     [minor |-> 4500, currency |-> "USD", group |-> "", point |-> ".", after |-> "order"]}

MadeFiles == {<<".pdf">>, <<".pdf", ".jpg", ".pdf", ".pdf">>}
=============================================================================
