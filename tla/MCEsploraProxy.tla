--------------------------- MODULE MCEsploraProxy ---------------------------
(* Every route once with good input and once with each kind of bad input,   *)
(* and the lists and the broadcast with two networks, arguments and pages.  *)
EXTENDS EsploraProxy, TLC

Ask(route, net, arg, last, form) ==
    [route |-> route, net |-> net, arg |-> arg, last |-> last, form |-> form]

\* Routes with an argument, routes of a network alone.
Argued == {"txStatus", "tx", "txHex", "txRaw", "addressUtxo", "scripthashUtxo",
           "addressTxs", "addressTxsConfirmed", "addressTxsMempool", "scripthashTxs",
           "scripthashTxsConfirmed", "scripthashTxsMempool", "blockHeader",
           "blockHeight", "waterfalls", "liquidWaterfallsV2"}
Plain == {"tipHeight", "tipHash", "feeEstimates", "stats", "liquidServerRecipient"}

MCQuestions ==
    {Ask(route, None, "a", None, "json") : route \in Argued \cup Plain}
    \cup {Ask(route, "testnet", "a", None, "json") :
              route \in {"addressTxs", "tipHeight"}}
    \cup {Ask("addressTxs", None, "b", None, "json"),
          Ask("addressTxs", None, "a", "t", "json"),
          Ask("broadcast", None, "a", None, "json"),
          Ask("broadcast", "testnet", "a", None, "text")}
    \cup {Ask(route, None, "invalid", None, "json") : route \in {"tx", "broadcast"}}
    \cup {Ask("addressTxs", None, "a", "invalid", "json"),
          Ask("tipHash", "invalid", "a", None, "json"),
          Ask("broadcast", None, "a", None, "other")}

Symmetry == Permutations(Requests)
=============================================================================
