--------------------------- MODULE MCDataPlatform ---------------------------
(***************************************************************************)
(* The registry of src/app/main.py: the Yahoo adapter alone, which a quote *)
(* tries once for each asset class (two here).  Asked are a quote, prices  *)
(* of two symbols and, for one of them, of a second asset class, and line  *)
(* items.                                                                  *)
(***************************************************************************)
EXTENDS DataPlatform

MCCallers == {"a", "b"}
MCSources == {"yahoo"}
MCQuestions == {[about |-> "quote", of |-> "AAPL", detail |-> ""],
                [about |-> "prices", of |-> "AAPL", detail |-> "equity"],
                [about |-> "prices", of |-> "AAPL", detail |-> "crypto"],
                [about |-> "prices", of |-> "MSFT", detail |-> "equity"],
                [about |-> "items", of |-> "AAPL", detail |-> "4"]}
MCRegistry == [q \in MCQuestions |-> IF q.about = "quote" THEN <<"yahoo", "yahoo">>
                                                          ELSE <<"yahoo">>]
MCCategory == [quote |-> "prices", prices |-> "prices", items |-> "fundamentals"]
MCTtl == [prices |-> 1, fundamentals |-> 4]
=============================================================================
