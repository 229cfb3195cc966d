------------------------ MODULE EsploraProxy_proofs ------------------------
(***************************************************************************)
(* Proofs about EsploraProxy, for any set of requests and questions.       *)
(*                                                                         *)
(* The argument is about keys.  Every method asks at the URL that its key  *)
(* tells (PlansOK, with UrlOf the reading of a key), so what is stored or  *)
(* shared under a key is the answer to everybody who has that key.         *)
(* ProxyInv keeps this: a copy is from the URL of its key, whoever follows *)
(* a run or is in the map of runs has its key, and what was sent is right. *)
(* One lemma for each group of steps shows that it is kept.                *)
(***************************************************************************)
EXTENDS EsploraProxy, SequenceTheorems, TLAPS

-----------------------------------------------------------------------------
(* What a question is made into *)

\* The URL that what is cached under a key was asked at.
UrlOf(k) ==
    LET base == getBaseUrl(k[2])
        rest == IF Len(k) = 3 THEN <<>> ELSE <<"chain", k[4]>>
    IN  CASE k[1] = "tx" -> base \o <<"tx", k[3], "status">>
          [] k[1] = "txfull" -> base \o <<"tx", k[3]>>
          [] k[1] = "txhex" -> base \o <<"tx", k[3], "hex">>
          [] k[1] = "txraw" -> base \o <<"tx", k[3], "raw">>
          [] k[1] = "utxo" -> base \o <<"address", k[3], "utxo">>
          [] k[1] = "scripthash_utxo" -> base \o <<"scripthash", k[3], "utxo">>
          [] k[1] = "tip" -> base \o <<"blocks", "tip", "height">>
          [] k[1] = "tiphash" -> base \o <<"blocks", "tip", "hash">>
          [] k[1] = "block_height" -> base \o <<"block-height", k[3]>>
          [] k[1] = "addr_txs" -> base \o <<"address", k[3], "txs">> \o rest
          [] k[1] = "scripthash_txs" -> base \o <<"scripthash", k[3], "txs">> \o rest
          [] k[1] = "scripthash_txs_confirmed" -> base \o <<"scripthash", k[3], "txs", "chain">>
          [] k[1] = "scripthash_txs_mempool" -> base \o <<"scripthash", k[3], "txs", "mempool">>
          [] k[1] = "addr_txs_confirmed" -> base \o <<"address", k[3], "txs", "chain">>
          [] k[1] = "addr_txs_mempool" -> base \o <<"address", k[3], "txs", "mempool">>
          [] k[1] = "fees" -> base \o <<"fee-estimates">>
          [] k[1] = "block_header" -> base \o <<"block", k[3], "header">>
          [] k[1] = "server_recipient" ->
               getBreezLiquidRootUrl(k[2]) \o <<"v1", "server_recipient">>

FetchOK(p) ==
    /\ p.how \in {"json", "text", "buffer"}
    /\ p.tries \in 1..MaxRetries
    /\ p.url = UrlOf(p.key)

PlanOK(p) ==
    \/ p.how = "reply" /\ p.status \in {200, 400, 415}
    \/ FetchOK(p)
    \/ p.how = "forward"
    \/ p.how = "broadcast"

LEMMA StatKeyOf == ASSUME NEW k PROVE getStatKey(k) = <<k[1], k[2]>>
  <1> DEFINE S == {k[1], k[2]}
             s == SubSeq(k, 1, 2)
             t == <<k[1], k[2]>>
  <1>1. \A i \in 1..2 : k[i] \in S
    OBVIOUS
  <1> HIDE DEF S
  <1>2. s \in Seq(S) /\ Len(s) = 2 /\ \A i \in 1..2 : s[i] = k[i]
    <2>1. /\ SubSeq(k, 1, 2) \in Seq(S)
          /\ Len(SubSeq(k, 1, 2)) = IF 1 <= 2 THEN 2 - 1 + 1 ELSE 0
          /\ \A i \in 1..2 - 1 + 1 : SubSeq(k, 1, 2)[i] = k[1 + i - 1]
      BY <1>1, SubSeqProperties
    <2>2. QED  BY <2>1
  <1> HIDE DEF s
  <1>3. t \in Seq(S) /\ Len(t) = 2 /\ \A i \in 1..2 : t[i] = k[i]
    BY <1>1
  <1> HIDE DEF t
  <1>4. s = t
    BY <1>2, <1>3, SeqEqual
  <1>5. QED  BY <1>4 DEF s, t, getStatKey

LEMMA Paged ==
    ASSUME NEW kind, NEW net, NEW arg, NEW last
    PROVE  <<kind, net, arg>> \o Page(last) =
             IF last = None THEN <<kind, net, arg>> ELSE <<kind, net, arg, last>>
  <1> DEFINE S == {kind, net, arg, last}
             s == <<kind, net, arg>>
             t == <<kind, net, arg, last>>
  <1>1. s \in Seq(S) /\ Len(s) = 3 /\ t \in Seq(S) /\ Len(t) = 4 /\ <<last>> \in Seq(S)
        /\ \A i \in 1..3 : s[i] = t[i]
    OBVIOUS
  <1>2. t[4] = last /\ <<last>>[1] = last /\ Len(<<last>>) = 1
    OBVIOUS
  <1> HIDE DEF S, s, t
  <1>3. s \o <<>> = s
    BY <1>1, ConcatEmptySeq
  <1>4. s \o <<last>> = t
    <2>1. /\ s \o <<last>> \in Seq(S) /\ Len(s \o <<last>>) = Len(s) + Len(<<last>>)
          /\ \A i \in 1..Len(s) + Len(<<last>>) :
               (s \o <<last>>)[i] = IF i <= Len(s) THEN s[i] ELSE <<last>>[i - Len(s)]
      BY <1>1, ConcatProperties
    <2> DEFINE c == s \o <<last>>
    <2>2. c \in Seq(S) /\ Len(c) = 4 /\ \A i \in 1..4 : c[i] = t[i]
      BY <1>1, <1>2, <2>1
    <2> HIDE DEF c
    <2>3. c = t
      BY <1>1, <2>2, SeqEqual
    <2>4. QED  BY <2>3 DEF c
  <1>5. QED  BY <1>3, <1>4 DEF Page, s, t

\* A checked call is sound if it is for a network of the list.
LEMMA CheckedIsOK ==
    ASSUME NEW q, NEW fallback, NEW valid, NEW call, PlanOK(call)
    PROVE  PlanOK(Checked(q, fallback, valid, call))
  BY DEF Checked, PlanOK, Reply

LEMMA FetchedIsOK ==
    ASSUME NEW how \in {"json", "text", "buffer"}, NEW key, NEW url, url = UrlOf(key)
    PROVE  PlanOK(Fetch(how, key, url))
  BY ProxyAssumption DEF PlanOK, FetchOK, Fetch

\* Each method asks at the URL that its key tells.
LEMMA UrlOfArgued ==
    ASSUME NEW net, NEW arg
    PROVE  LET base == getBaseUrl(net)
           IN  /\ UrlOf(<<"tx", net, arg>>) = base \o <<"tx", arg, "status">>
               /\ UrlOf(<<"txfull", net, arg>>) = base \o <<"tx", arg>>
               /\ UrlOf(<<"txhex", net, arg>>) = base \o <<"tx", arg, "hex">>
               /\ UrlOf(<<"txraw", net, arg>>) = base \o <<"tx", arg, "raw">>
               /\ UrlOf(<<"utxo", net, arg>>) = base \o <<"address", arg, "utxo">>
               /\ UrlOf(<<"scripthash_utxo", net, arg>>) = base \o <<"scripthash", arg, "utxo">>
               /\ UrlOf(<<"addr_txs_confirmed", net, arg>>) = base \o <<"address", arg, "txs", "chain">>
               /\ UrlOf(<<"addr_txs_mempool", net, arg>>) = base \o <<"address", arg, "txs", "mempool">>
               /\ UrlOf(<<"scripthash_txs_confirmed", net, arg>>) = base \o <<"scripthash", arg, "txs", "chain">>
               /\ UrlOf(<<"scripthash_txs_mempool", net, arg>>) = base \o <<"scripthash", arg, "txs", "mempool">>
               /\ UrlOf(<<"block_header", net, arg>>) = base \o <<"block", arg, "header">>
               /\ UrlOf(<<"block_height", net, arg>>) = base \o <<"block-height", arg>>
  <1>1. UrlOf(<<"tx", net, arg>>) = getBaseUrl(net) \o <<"tx", arg, "status">>
    BY DEF UrlOf
  <1>2. UrlOf(<<"txfull", net, arg>>) = getBaseUrl(net) \o <<"tx", arg>>
    BY DEF UrlOf
  <1>3. UrlOf(<<"txhex", net, arg>>) = getBaseUrl(net) \o <<"tx", arg, "hex">>
    BY DEF UrlOf
  <1>4. UrlOf(<<"txraw", net, arg>>) = getBaseUrl(net) \o <<"tx", arg, "raw">>
    BY DEF UrlOf
  <1>5. UrlOf(<<"utxo", net, arg>>) = getBaseUrl(net) \o <<"address", arg, "utxo">>
    BY DEF UrlOf
  <1>6. UrlOf(<<"scripthash_utxo", net, arg>>) = getBaseUrl(net) \o <<"scripthash", arg, "utxo">>
    BY DEF UrlOf
  <1>7. UrlOf(<<"addr_txs_confirmed", net, arg>>) = getBaseUrl(net) \o <<"address", arg, "txs", "chain">>
    BY DEF UrlOf
  <1>8. UrlOf(<<"addr_txs_mempool", net, arg>>) = getBaseUrl(net) \o <<"address", arg, "txs", "mempool">>
    BY DEF UrlOf
  <1>9. UrlOf(<<"scripthash_txs_confirmed", net, arg>>) = getBaseUrl(net) \o <<"scripthash", arg, "txs", "chain">>
    BY DEF UrlOf
  <1>10. UrlOf(<<"scripthash_txs_mempool", net, arg>>) = getBaseUrl(net) \o <<"scripthash", arg, "txs", "mempool">>
    BY DEF UrlOf
  <1>11. UrlOf(<<"block_header", net, arg>>) = getBaseUrl(net) \o <<"block", arg, "header">>
    BY DEF UrlOf
  <1>12. UrlOf(<<"block_height", net, arg>>) = getBaseUrl(net) \o <<"block-height", arg>>
    BY DEF UrlOf
  <1>13. QED
    BY <1>1, <1>2, <1>3, <1>4, <1>5, <1>6, <1>7, <1>8, <1>9, <1>10, <1>11, <1>12

LEMMA UrlOfPlain ==
    ASSUME NEW kind, NEW net
    PROVE  LET url == UrlOf(<<kind, net>>)
               base == getBaseUrl(net)
           IN  /\ kind = "tip" => url = base \o <<"blocks", "tip", "height">>
               /\ kind = "tiphash" => url = base \o <<"blocks", "tip", "hash">>
               /\ kind = "fees" => url = base \o <<"fee-estimates">>
               /\ kind = "server_recipient" =>
                    url = getBreezLiquidRootUrl(net) \o <<"v1", "server_recipient">>
  <1> DEFINE k == <<kind, net>>
  <1>1. k[1] = kind /\ k[2] = net
    OBVIOUS
  <1> HIDE DEF k
  <1>2. kind = "tip" => UrlOf(k) = getBaseUrl(net) \o <<"blocks", "tip", "height">>
    BY <1>1 DEF UrlOf
  <1>3. kind = "tiphash" => UrlOf(k) = getBaseUrl(net) \o <<"blocks", "tip", "hash">>
    BY <1>1 DEF UrlOf
  <1>4. kind = "fees" => UrlOf(k) = getBaseUrl(net) \o <<"fee-estimates">>
    BY <1>1 DEF UrlOf
  <1>5. kind = "server_recipient" =>
          UrlOf(k) = getBreezLiquidRootUrl(net) \o <<"v1", "server_recipient">>
    BY <1>1 DEF UrlOf
  <1>6. QED  BY <1>2, <1>3, <1>4, <1>5 DEF k

LEMMA UrlOfPages ==
    ASSUME NEW kind \in {"addr_txs", "scripthash_txs"}, NEW net, NEW arg, NEW last
    PROVE  LET what == IF kind = "addr_txs" THEN "address" ELSE "scripthash"
           IN  UrlOf(<<kind, net, arg>> \o Page(last)) =
                 getBaseUrl(net) \o <<what, arg, "txs">> \o Chain(last)
  <1> DEFINE k == IF last = None THEN <<kind, net, arg>> ELSE <<kind, net, arg, last>>
             rest == IF Len(k) = 3 THEN <<>> ELSE <<"chain", k[4]>>
  <1>1. k[1] = kind /\ k[2] = net /\ k[3] = arg
    OBVIOUS
  <1>2. rest = Chain(last)
    BY DEF Chain
  <1>3. k = <<kind, net, arg>> \o Page(last)
    BY Paged
  <1> HIDE DEF k
  <1>4. CASE kind = "addr_txs"
    <2>1. UrlOf(k) = getBaseUrl(net) \o <<"address", arg, "txs">> \o rest
      BY <1>1, <1>4 DEF UrlOf
    <2>2. QED  BY <1>2, <1>3, <1>4, <2>1
  <1>5. CASE kind = "scripthash_txs"
    <2>1. UrlOf(k) = getBaseUrl(net) \o <<"scripthash", arg, "txs">> \o rest
      BY <1>1, <1>5 DEF UrlOf
    <2>2. QED  BY <1>2, <1>3, <1>5, <2>1
  <1>6. QED  BY <1>4, <1>5

\* Each method asks at the URL that its key tells.
LEMMA MethodsOK ==
    ASSUME NEW arg, NEW net, NEW last
    PROVE  /\ PlanOK(getTxStatus(arg, net))
           /\ PlanOK(getTx(arg, net))
           /\ PlanOK(getTxHex(arg, net))
           /\ PlanOK(getTxRaw(arg, net))
           /\ PlanOK(getAddressUtxos(arg, net))
           /\ PlanOK(getScripthashUtxos(arg, net))
           /\ PlanOK(getAddressTxsConfirmed(arg, net))
           /\ PlanOK(getAddressTxsMempool(arg, net))
           /\ PlanOK(getScripthashTxsConfirmed(arg, net))
           /\ PlanOK(getScripthashTxsMempool(arg, net))
           /\ PlanOK(getBlockHeader(arg, net))
           /\ PlanOK(getBlockHashByHeight(arg, net))
           /\ PlanOK(getTipHeight(net))
           /\ PlanOK(getTipHash(net))
           /\ PlanOK(getFeeEstimates(net))
           /\ PlanOK(getAddressTxs(arg, net, last))
           /\ PlanOK(getScripthashTxs(arg, net, last))
           /\ PlanOK(getLiquidServerRecipient(net))
           /\ PlanOK(broadcastTx(arg, net))
           /\ PlanOK(fetchWaterfalls(arg, net))
           /\ PlanOK(fetchLiquidWaterfallsV2(arg, net))
  <1>1. PlanOK(getTxStatus(arg, net))
    <2>1. UrlOf(<<"tx", net, arg>>) = getBaseUrl(net) \o <<"tx", arg, "status">>
      BY UrlOfArgued
    <2>2. QED  BY <2>1, FetchedIsOK DEF getTxStatus
  <1>2. PlanOK(getTx(arg, net))
    <2>1. UrlOf(<<"txfull", net, arg>>) = getBaseUrl(net) \o <<"tx", arg>>
      BY UrlOfArgued
    <2>2. QED  BY <2>1, FetchedIsOK DEF getTx
  <1>3. PlanOK(getTxHex(arg, net))
    <2>1. UrlOf(<<"txhex", net, arg>>) = getBaseUrl(net) \o <<"tx", arg, "hex">>
      BY UrlOfArgued
    <2>2. QED  BY <2>1, FetchedIsOK DEF getTxHex
  <1>4. PlanOK(getTxRaw(arg, net))
    <2>1. UrlOf(<<"txraw", net, arg>>) = getBaseUrl(net) \o <<"tx", arg, "raw">>
      BY UrlOfArgued
    <2>2. QED  BY <2>1, FetchedIsOK DEF getTxRaw
  <1>5. PlanOK(getAddressUtxos(arg, net))
    <2>1. UrlOf(<<"utxo", net, arg>>) = getBaseUrl(net) \o <<"address", arg, "utxo">>
      BY UrlOfArgued
    <2>2. QED  BY <2>1, FetchedIsOK DEF getAddressUtxos
  <1>6. PlanOK(getScripthashUtxos(arg, net))
    <2>1. UrlOf(<<"scripthash_utxo", net, arg>>) = getBaseUrl(net) \o <<"scripthash", arg, "utxo">>
      BY UrlOfArgued
    <2>2. QED  BY <2>1, FetchedIsOK DEF getScripthashUtxos
  <1>7. PlanOK(getAddressTxsConfirmed(arg, net))
    <2>1. UrlOf(<<"addr_txs_confirmed", net, arg>>) = getBaseUrl(net) \o <<"address", arg, "txs", "chain">>
      BY UrlOfArgued
    <2>2. QED  BY <2>1, FetchedIsOK DEF getAddressTxsConfirmed
  <1>8. PlanOK(getAddressTxsMempool(arg, net))
    <2>1. UrlOf(<<"addr_txs_mempool", net, arg>>) = getBaseUrl(net) \o <<"address", arg, "txs", "mempool">>
      BY UrlOfArgued
    <2>2. QED  BY <2>1, FetchedIsOK DEF getAddressTxsMempool
  <1>9. PlanOK(getScripthashTxsConfirmed(arg, net))
    <2>1. UrlOf(<<"scripthash_txs_confirmed", net, arg>>) = getBaseUrl(net) \o <<"scripthash", arg, "txs", "chain">>
      BY UrlOfArgued
    <2>2. QED  BY <2>1, FetchedIsOK DEF getScripthashTxsConfirmed
  <1>10. PlanOK(getScripthashTxsMempool(arg, net))
    <2>1. UrlOf(<<"scripthash_txs_mempool", net, arg>>) = getBaseUrl(net) \o <<"scripthash", arg, "txs", "mempool">>
      BY UrlOfArgued
    <2>2. QED  BY <2>1, FetchedIsOK DEF getScripthashTxsMempool
  <1>11. PlanOK(getBlockHeader(arg, net))
    <2>1. UrlOf(<<"block_header", net, arg>>) = getBaseUrl(net) \o <<"block", arg, "header">>
      BY UrlOfArgued
    <2>2. QED  BY <2>1, FetchedIsOK DEF getBlockHeader
  <1>12. PlanOK(getBlockHashByHeight(arg, net))
    <2>1. UrlOf(<<"block_height", net, arg>>) = getBaseUrl(net) \o <<"block-height", arg>>
      BY UrlOfArgued
    <2>2. QED  BY <2>1, FetchedIsOK DEF getBlockHashByHeight
  <1>13. PlanOK(getTipHeight(net))
    BY FetchedIsOK, UrlOfPlain DEF getTipHeight
  <1>14. PlanOK(getTipHash(net))
    BY FetchedIsOK, UrlOfPlain DEF getTipHash
  <1>15. PlanOK(getFeeEstimates(net))
    BY FetchedIsOK, UrlOfPlain DEF getFeeEstimates
  <1>16. PlanOK(getAddressTxs(arg, net, last))
    BY UrlOfPages, FetchedIsOK DEF getAddressTxs
  <1>17. PlanOK(getScripthashTxs(arg, net, last))
    BY UrlOfPages, FetchedIsOK DEF getScripthashTxs
  <1>18. PlanOK(getLiquidServerRecipient(net))
    <2> DEFINE p == getLiquidServerRecipient(net)
    <2>1. /\ p.how = "json" /\ p.tries = 1 /\ p.key = <<"server_recipient", net>>
          /\ p.url = getBreezLiquidRootUrl(net) \o <<"v1", "server_recipient">>
      BY DEF getLiquidServerRecipient, Fetch
    <2> HIDE DEF p
    <2>2. p.url = UrlOf(p.key)
      BY <2>1, UrlOfPlain
    <2>3. FetchOK(p)
      BY <2>1, <2>2, ProxyAssumption DEF FetchOK
    <2>4. QED  BY <2>3 DEF PlanOK, p
  <1>19. PlanOK(broadcastTx(arg, net))
    BY DEF broadcastTx, PlanOK
  <1>20. PlanOK(fetchWaterfalls(arg, net))
    BY DEF fetchWaterfalls, Forward, PlanOK
  <1>21. PlanOK(fetchLiquidWaterfallsV2(arg, net))
    BY DEF fetchLiquidWaterfallsV2, Forward, PlanOK
  <1>22. QED
    BY <1>1, <1>2, <1>3, <1>4, <1>5, <1>6, <1>7, <1>8, <1>9, <1>10, <1>11, <1>12, <1>13, <1>14, <1>15, <1>16, <1>17, <1>18, <1>19, <1>20, <1>21

LEMMA PlansOK == ASSUME NEW q \in Questions PROVE PlanOK(Handle(q))
  <1>0. q.route \in Routes
    BY ProxyAssumption
  <1>1. CASE q.route = "txStatus"
    <2>1. PlanOK(txStatus(q))
      BY MethodsOK, CheckedIsOK DEF txStatus
    <2>2. QED  BY <1>1, <2>1 DEF Handle
  <1>2. CASE q.route = "tx"
    <2>1. PlanOK(tx(q))
      BY MethodsOK, CheckedIsOK DEF tx
    <2>2. QED  BY <1>2, <2>1 DEF Handle
  <1>3. CASE q.route = "txHex"
    <2>1. PlanOK(txHex(q))
      BY MethodsOK, CheckedIsOK DEF txHex
    <2>2. QED  BY <1>3, <2>1 DEF Handle
  <1>4. CASE q.route = "txRaw"
    <2>1. PlanOK(txRaw(q))
      BY MethodsOK, CheckedIsOK DEF txRaw
    <2>2. QED  BY <1>4, <2>1 DEF Handle
  <1>5. CASE q.route = "addressUtxo"
    <2>1. PlanOK(addressUtxo(q))
      BY MethodsOK, CheckedIsOK DEF addressUtxo
    <2>2. QED  BY <1>5, <2>1 DEF Handle
  <1>6. CASE q.route = "scripthashUtxo"
    <2>1. PlanOK(scripthashUtxo(q))
      BY MethodsOK, CheckedIsOK DEF scripthashUtxo
    <2>2. QED  BY <1>6, <2>1 DEF Handle
  <1>7. CASE q.route = "tipHeight"
    <2>1. PlanOK(tipHeight(q))
      BY MethodsOK, CheckedIsOK DEF tipHeight
    <2>2. QED  BY <1>7, <2>1 DEF Handle
  <1>8. CASE q.route = "tipHash"
    <2>1. PlanOK(tipHash(q))
      BY MethodsOK, CheckedIsOK DEF tipHash
    <2>2. QED  BY <1>8, <2>1 DEF Handle
  <1>9. CASE q.route = "addressTxs"
    <2>1. PlanOK(addressTxs(q))
      BY MethodsOK, CheckedIsOK DEF addressTxs
    <2>2. QED  BY <1>9, <2>1 DEF Handle
  <1>10. CASE q.route = "addressTxsConfirmed"
    <2>1. PlanOK(addressTxsConfirmed(q))
      BY MethodsOK, CheckedIsOK DEF addressTxsConfirmed
    <2>2. QED  BY <1>10, <2>1 DEF Handle
  <1>11. CASE q.route = "addressTxsMempool"
    <2>1. PlanOK(addressTxsMempool(q))
      BY MethodsOK, CheckedIsOK DEF addressTxsMempool
    <2>2. QED  BY <1>11, <2>1 DEF Handle
  <1>12. CASE q.route = "scripthashTxs"
    <2>1. PlanOK(scripthashTxs(q))
      BY MethodsOK, CheckedIsOK DEF scripthashTxs
    <2>2. QED  BY <1>12, <2>1 DEF Handle
  <1>13. CASE q.route = "scripthashTxsConfirmed"
    <2>1. PlanOK(scripthashTxsConfirmed(q))
      BY MethodsOK, CheckedIsOK DEF scripthashTxsConfirmed
    <2>2. QED  BY <1>13, <2>1 DEF Handle
  <1>14. CASE q.route = "scripthashTxsMempool"
    <2>1. PlanOK(scripthashTxsMempool(q))
      BY MethodsOK, CheckedIsOK DEF scripthashTxsMempool
    <2>2. QED  BY <1>14, <2>1 DEF Handle
  <1>15. CASE q.route = "blockHeader"
    <2>1. PlanOK(blockHeader(q))
      BY MethodsOK, CheckedIsOK DEF blockHeader
    <2>2. QED  BY <1>15, <2>1 DEF Handle
  <1>16. CASE q.route = "blockHeight"
    <2>1. PlanOK(blockHeight(q))
      BY MethodsOK, CheckedIsOK DEF blockHeight
    <2>2. QED  BY <1>16, <2>1 DEF Handle
  <1>17. CASE q.route = "broadcast"
    <2>1. PlanOK(broadcast(q))
      BY MethodsOK, CheckedIsOK DEF broadcast, Reply, PlanOK
    <2>2. QED  BY <1>17, <2>1 DEF Handle
  <1>18. CASE q.route = "feeEstimates"
    <2>1. PlanOK(feeEstimates(q))
      BY MethodsOK, CheckedIsOK DEF feeEstimates
    <2>2. QED  BY <1>18, <2>1 DEF Handle
  <1>19. CASE q.route = "stats"
    <2>1. PlanOK(stats(q))
      BY DEF stats, Reply, PlanOK
    <2>2. QED  BY <1>19, <2>1 DEF Handle
  <1>20. CASE q.route = "waterfalls"
    <2>1. PlanOK(waterfalls(q))
      BY MethodsOK, CheckedIsOK DEF waterfalls
    <2>2. QED  BY <1>20, <2>1 DEF Handle
  <1>21. CASE q.route = "liquidServerRecipient"
    <2>1. PlanOK(liquidServerRecipient(q))
      BY MethodsOK, CheckedIsOK DEF liquidServerRecipient
    <2>2. QED  BY <1>21, <2>1 DEF Handle
  <1>22. CASE q.route = "liquidWaterfallsV2"
    <2>1. PlanOK(liquidWaterfallsV2(q))
      BY MethodsOK, CheckedIsOK DEF liquidWaterfallsV2
    <2>2. QED  BY <1>22, <2>1 DEF Handle
  <1>23. QED
    BY <1>0, <1>1, <1>2, <1>3, <1>4, <1>5, <1>6, <1>7, <1>8, <1>9, <1>10, <1>11, <1>12, <1>13, <1>14, <1>15, <1>16, <1>17, <1>18, <1>19, <1>20, <1>21, <1>22
       DEF Routes

-----------------------------------------------------------------------------
(* The requests *)

Places == {"new", "lookup", "gate", "decide", "backoff", "call", "limited", "follow",
           "after", "post", "forward", "end"}
InFetch == {"lookup", "gate", "decide", "backoff", "call", "limited", "follow", "after"}
Running == {"call", "limited"}

Answers == [status : Nat, body : Body \cup {None}, limited : BOOLEAN]

\* What was sent is right, as far as it can be told from the request.
RightlyAnswered(r) ==
    /\ answer[r] \in Answers
    /\ answer[r].limited => Endpoint(r) \in limited
    /\ answer[r].status = 200 /\ plan[r].how # "reply" =>
         /\ answer[r].body.url = plan[r].url
         /\ plan[r].how = "text" /\ plan[r].key[1] = "tip" => answer[r].body.sound

RequestInv(r) ==
    /\ pc[r] \in Places
    /\ ask[r] \in Questions \cup {None}
    /\ pc[r] = "new" <=> ask[r] = None
    /\ plan[r] = IF ask[r] = None THEN None ELSE Handle(ask[r])
    /\ leader[r] \in Requests \cup {None}
    /\ IF pc[r] \in Running THEN attempt[r] \in 0..plan[r].tries - 1 ELSE attempt[r] = 0
    /\ got[r] \in Body \cup {None}
    /\ answer[r] \in Answers \cup {None}
    /\ pc[r] \in InFetch => plan[r].how \in {"json", "text", "buffer"}
    /\ pc[r] = "forward" => plan[r].how = "forward"
    /\ pc[r] = "post" => plan[r].how = "broadcast"
    /\ pc[r] \in {"backoff", "limited"} => Endpoint(r) \in limited
    /\ pc[r] = "after" => got[r] \in Body /\ got[r].url = plan[r].url
    /\ pc[r] = "end" => RightlyAnswered(r)
    /\ r \in accepted =>
         pc[r] = "end" /\ ~answer[r].limited /\ answer[r].status \in {200, 500}

\* x is under way with a run for k.
RunsFor(x, k) == x \in Requests /\ pc[x] \in Running /\ plan[x].key = k

\* Whoever is followed or in the map is under way for that key.
RunsAgree ==
    /\ \A r \in Requests : pc[r] = "follow" => RunsFor(leader[r], plan[r].key)
    /\ \A k \in DOMAIN inFlight : RunsFor(inFlight[k], k)

\* A copy is what was sent to the URL of its key.
CopiesOK(f) ==
    /\ DOMAIN f \subseteq Keys
    /\ \A k \in DOMAIN f : f[k] \in Body /\ f[k].url = UrlOf(k)

Shape ==
    /\ pc = [r \in Requests |-> pc[r]]
    /\ ask = [r \in Requests |-> ask[r]]
    /\ plan = [r \in Requests |-> plan[r]]
    /\ leader = [r \in Requests |-> leader[r]]
    /\ attempt = [r \in Requests |-> attempt[r]]
    /\ got = [r \in Requests |-> got[r]]
    /\ answer = [r \in Requests |-> answer[r]]

SharedInv ==
    /\ CopiesOK(fresh) /\ CopiesOK(stale)
    /\ DOMAIN inFlight \subseteq Keys
    /\ backedOff \subseteq limited
    /\ limited \subseteq Classes
    /\ accepted \subseteq Requests

ProxyInv ==
    /\ Shape
    /\ SharedInv
    /\ RunsAgree
    /\ \A r \in Requests : RequestInv(r)

\* What is known of a request within a fetch.
LEMMA FetchFacts ==
    ASSUME NEW r \in Requests, RequestInv(r), pc[r] \in InFetch
    PROVE  /\ ask[r] \in Fetched /\ plan[r] = Handle(ask[r])
           /\ plan[r].key \in Keys /\ Endpoint(r) \in Classes
           /\ Class(r) = Endpoint(r)
           /\ plan[r].tries \in 1..MaxRetries
           /\ plan[r].url = UrlOf(plan[r].key)
           /\ \A sound \in BOOLEAN : [url |-> plan[r].url, sound |-> sound] \in Body
  <1>1. ask[r] \in Questions /\ plan[r] = Handle(ask[r])
    BY DEF RequestInv, InFetch
  <1>2. Handle(ask[r]).how \in {"json", "text", "buffer"}
    BY <1>1 DEF RequestInv
  <1>3. FetchOK(plan[r])
    BY <1>1, <1>2, PlansOK DEF PlanOK
  <1>4. ask[r] \in Fetched
    BY <1>1, <1>2 DEF Fetched
  <1>5. plan[r].key \in Keys
    BY <1>1, <1>4 DEF Keys
  <1>6. plan[r].key \in Limitable
    BY <1>1, <1>2 DEF Limitable
  <1>7. Class(r) = Endpoint(r)
    BY StatKeyOf DEF Class, Endpoint
  <1>8. Endpoint(r) \in Classes
    BY <1>6, <1>7 DEF Class, Classes
  <1>9. \A sound \in BOOLEAN : [url |-> plan[r].url, sound |-> sound] \in Body
    BY <1>1, <1>2 DEF Body
  <1>10. QED  BY <1>1, <1>3, <1>4, <1>5, <1>7, <1>8, <1>9 DEF FetchOK

\* The URL of a plan that is no reply.
LEMMA SentOnFacts ==
    ASSUME NEW r \in Requests, RequestInv(r), pc[r] # "new", plan[r].how # "reply"
    PROVE  \A sound \in BOOLEAN : [url |-> plan[r].url, sound |-> sound] \in Body
  <1>1. ask[r] \in Questions /\ plan[r] = Handle(ask[r])
    BY DEF RequestInv
  <1>2. QED  BY <1>1 DEF Body

LEMMA BroadcastFacts ==
    ASSUME NEW r \in Requests, RequestInv(r), pc[r] = "post"
    PROVE  Class(r) = Endpoint(r) /\ Endpoint(r) \in Classes
  <1>1. ask[r] \in Questions /\ plan[r] = Handle(ask[r]) /\ plan[r].how = "broadcast"
    BY DEF RequestInv
  <1>2. plan[r].key \in Limitable
    BY <1>1 DEF Limitable
  <1>3. QED  BY <1>2, StatKeyOf DEF Class, Classes, Endpoint

\* Errors are no 200, and only a 429 says that it was limited.
LEMMA ErrorsAre ==
    ASSUME NEW q
    PROVE  /\ TooMany \in Answers /\ TooMany.limited /\ TooMany.status = 503
           /\ handleEsploraError(RateLimit) = TooMany
           /\ BroadcastError(q, RateLimit) = TooMany
           /\ \A e \in HttpErrors \cup {Other} :
                /\ handleEsploraError(e) \in Answers /\ BroadcastError(q, e) \in Answers
                /\ ~handleEsploraError(e).limited /\ ~BroadcastError(q, e).limited
                /\ handleEsploraError(e).status # 200 /\ BroadcastError(q, e).status # 200
           /\ BroadcastError(q, Other).status = 500
  <1>1. /\ TooMany \in Answers /\ TooMany.limited /\ TooMany.status = 503
        /\ \A s \in Nat : /\ Sent(s, None) \in Answers
                          /\ Sent(s, None).limited = FALSE /\ Sent(s, None).status = s
    BY DEF TooMany, Answers, Sent
  <1>2. handleEsploraError(RateLimit) = TooMany
    BY DEF handleEsploraError, RateLimit
  <1>3. BroadcastError(q, RateLimit) = TooMany
    BY <1>2 DEF BroadcastError, RateLimit, HttpErrors
  <1>4. ASSUME NEW e \in HttpErrors \cup {Other}
        PROVE  \E s \in Nat \ {200} : handleEsploraError(e) = Sent(s, None)
    BY <1>4 DEF handleEsploraError, HttpErrors, Other, RateLimit
  <1>5. ASSUME NEW e \in HttpErrors \cup {Other}
        PROVE  \E s \in Nat \ {200} : BroadcastError(q, e) = Sent(s, None)
    BY <1>4, <1>5 DEF BroadcastError, HttpErrors, Other, RateLimit
  <1>6. BroadcastError(q, Other) = Sent(500, None)
    BY DEF BroadcastError, handleEsploraError, HttpErrors, Other, RateLimit
  <1>7. QED  BY <1>1, <1>2, <1>3, <1>4, <1>5, <1>6

LEMMA SentIs ==
    ASSUME NEW body \in Body
    PROVE  /\ Sent(200, body) \in Answers /\ Sent(200, body).status = 200
           /\ Sent(200, body).body = body /\ ~Sent(200, body).limited
  BY DEF Sent, Answers

\* A request whose entries are left alone.
Unmoved(r) ==
    /\ pc'[r] = pc[r] /\ ask'[r] = ask[r] /\ plan'[r] = plan[r]
    /\ leader'[r] = leader[r] /\ attempt'[r] = attempt[r]
    /\ got'[r] = got[r] /\ answer'[r] = answer[r]
    /\ r \in accepted' => r \in accepted

LEMMA UnmovedKeeps ==
    ASSUME NEW r \in Requests, RequestInv(r), Unmoved(r), limited \subseteq limited'
    PROVE  RequestInv(r)'
  BY DEF RequestInv, Unmoved, RightlyAnswered, Endpoint

\* Nobody follows or tracks a request that has no run, so that one which moves
\* on alone, and keeps its run if it has one, leaves the runs as they are.
LEMMA MovesAlone ==
    ASSUME ProxyInv, NEW r \in Requests, Shape', SharedInv', RequestInv(r)',
           \A d \in Requests \ {r} : Unmoved(d),
           limited \subseteq limited',
           pc[r] \in Running => pc'[r] \in Running,
           plan'[r] = plan[r] \/ pc[r] = "new",
           pc'[r] = "follow" => RunsFor(leader[r], plan[r].key)',
           \A k \in DOMAIN inFlight' :
             \/ k \in DOMAIN inFlight /\ inFlight'[k] = inFlight[k]
             \/ RunsFor(inFlight[k], k)'
    PROVE  ProxyInv'
  <1>1. \A d \in Requests : RequestInv(d)'
    BY UnmovedKeeps DEF ProxyInv
  <1>2. \A x, k : RunsFor(x, k) => RunsFor(x, k)'
    BY DEF RunsFor, Unmoved, Running
  <1>3. RunsAgree'
    <2>1. ASSUME NEW d \in Requests, pc'[d] = "follow"
          PROVE  RunsFor(leader[d], plan[d].key)'
      <3>1. CASE d # r
        <4>1. pc[d] = "follow" /\ leader'[d] = leader[d] /\ plan'[d] = plan[d]
          BY <2>1, <3>1 DEF Unmoved
        <4>2. RunsFor(leader[d], plan[d].key)
          BY <4>1 DEF ProxyInv, RunsAgree
        <4>3. QED  BY <1>2, <4>1, <4>2 DEF RunsFor
      <3>2. QED  BY <2>1, <3>1
    <2>2. ASSUME NEW k \in DOMAIN inFlight' PROVE RunsFor(inFlight[k], k)'
      <3>1. CASE k \in DOMAIN inFlight /\ inFlight'[k] = inFlight[k]
        <4>1. RunsFor(inFlight[k], k)
          BY <3>1 DEF ProxyInv, RunsAgree
        <4>2. QED  BY <1>2, <3>1, <4>1 DEF RunsFor
      <3>2. QED  BY <2>2, <3>1
    <2>3. QED  BY <2>1, <2>2 DEF RunsAgree
  <1>4. QED  BY <1>1, <1>3 DEF ProxyInv

-----------------------------------------------------------------------------
(* The steps *)

LEMMA ProxyStarts == Init => ProxyInv
  <1> SUFFICES ASSUME Init PROVE ProxyInv
    OBVIOUS
  <1>1. Shape /\ SharedInv /\ RunsAgree
    BY DEF Init, Shape, SharedInv, RunsAgree, CopiesOK
  <1>2. \A r \in Requests : RequestInv(r)
    BY DEF Init, RequestInv, Places, Running, InFetch
  <1>3. QED  BY <1>1, <1>2 DEF ProxyInv

\* A request that arrives, whatever comes of it at once.
LEMMA ArrivalKeeps ==
    ASSUME ProxyInv, NEW r \in Requests, NEW q \in Questions,
           AnsweredAtOnce(r, q) \/ StartsFetch(r, q) \/ StartsForward(r, q)
             \/ StartsBroadcast(r, q)
    PROVE  ProxyInv'
  <1>0. RequestInv(r) /\ Shape /\ SharedInv
    BY DEF ProxyInv
  <1>1. /\ pc[r] = "new" /\ ask[r] = None /\ q # None
        /\ ask' = [ask EXCEPT ![r] = q] /\ plan' = [plan EXCEPT ![r] = Handle(q)]
        /\ UNCHANGED <<leader, attempt, got, copies, inFlight, backedOff, ghosts>>
    BY <1>0, ProxyAssumption
       DEF RequestInv, AnsweredAtOnce, StartsFetch, StartsForward, StartsBroadcast, Asks
  <1>2. /\ ask'[r] = q /\ plan'[r] = Handle(q)
        /\ \A d \in Requests \ {r} : ask'[d] = ask[d] /\ plan'[d] = plan[d]
        /\ ask' = [d \in Requests |-> ask'[d]] /\ plan' = [d \in Requests |-> plan'[d]]
    BY <1>0, <1>1 DEF Shape
  <1>3. /\ pc' = [pc EXCEPT ![r] = pc'[r]]
        /\ answer' = [answer EXCEPT ![r] = answer'[r]]
    BY <1>0 DEF Shape, AnsweredAtOnce, StartsFetch, StartsForward, StartsBroadcast, End, Go
  <1>4. /\ \A d \in Requests \ {r} : Unmoved(d)
        /\ Shape'
    BY <1>0, <1>1, <1>2, <1>3 DEF Unmoved, Shape, ghosts
  <1>5. SharedInv'
    BY <1>0, <1>1 DEF SharedInv, CopiesOK, copies, ghosts
  <1>6. r \notin accepted' /\ limited' = limited /\ inFlight' = inFlight
    BY <1>0, <1>1 DEF RequestInv, ghosts
  <1>7. /\ pc'[r] \in {"lookup", "forward", "post", "end"}
        /\ pc'[r] = "lookup" => Handle(q).how \in {"json", "text", "buffer"}
        /\ pc'[r] = "forward" => Handle(q).how = "forward"
        /\ pc'[r] = "post" => Handle(q).how = "broadcast"
        /\ answer'[r] \in Answers \cup {None}
        /\ pc'[r] = "end" => /\ answer'[r] \in Answers
                             /\ answer'[r].status = 200 => Handle(q).how = "reply"
                             /\ answer'[r].limited => getStatKey(Handle(q).key) \in backedOff
    <2>0. /\ pc' = [d \in Requests |-> IF d = r THEN pc'[r] ELSE pc[d]]
          /\ r \in DOMAIN pc /\ r \in DOMAIN answer /\ answer[r] \in Answers \cup {None}
      BY <1>0, <1>3 DEF Shape, RequestInv
    <2>1. CASE AnsweredAtOnce(r, q)
      <3>1. pc'[r] = "end" /\ answer'[r] = Sent(Handle(q).status, None) /\ Handle(q).how = "reply"
        BY <2>0, <2>1 DEF AnsweredAtOnce, End, Go
      <3>2. Handle(q).status \in Nat
        BY <3>1, PlansOK DEF PlanOK, FetchOK
      <3>3. QED  BY <3>1, <3>2 DEF Sent, Answers
    <2>2. CASE StartsFetch(r, q)
      BY <2>0, <2>2 DEF StartsFetch, Go, Fetched
    <2>3. CASE StartsForward(r, q)
      BY <2>0, <2>3 DEF StartsForward, Go
    <2>4. CASE StartsBroadcast(r, q)
      BY <2>0, <2>4, ErrorsAre DEF StartsBroadcast, End, Go
    <2>5. QED
      BY <2>1, <2>2, <2>3, <2>4
  <1>8. pc'[r] = "end" => RightlyAnswered(r)'
    <2>1. getStatKey(Handle(q).key) = Endpoint(r)'
      BY <1>2, StatKeyOf DEF Endpoint
    <2>2. QED  BY <1>0, <1>2, <1>6, <1>7, <2>1 DEF RightlyAnswered, SharedInv
  <1>9. RequestInv(r)'
    BY <1>0, <1>1, <1>2, <1>6, <1>7, <1>8 DEF RequestInv, Places, InFetch, Running
  <1>10. QED
    BY <1>1, <1>4, <1>5, <1>6, <1>7, <1>9, MovesAlone DEF Running

-----------------------------------------------------------------------------
\* A step that names the entries of r touches no other request.
LEMMA OnlyOne ==
    ASSUME Shape, NEW r \in Requests,
           ask' = ask, plan' = plan,
           pc' = [pc EXCEPT ![r] = pc'[r]],
           leader' = [leader EXCEPT ![r] = leader'[r]],
           attempt' = [attempt EXCEPT ![r] = attempt'[r]],
           got' = [got EXCEPT ![r] = got'[r]],
           answer' = [answer EXCEPT ![r] = answer'[r]],
           accepted' \in {accepted, accepted \cup {r}}
    PROVE  Shape' /\ \A d \in Requests \ {r} : Unmoved(d)
  BY DEF Shape, Unmoved

\* An entry that is written is the entry written.
LEMMA SetAt ==
    ASSUME Shape, NEW r \in Requests, NEW v
    PROVE  /\ [pc EXCEPT ![r] = v][r] = v /\ [got EXCEPT ![r] = v][r] = v
           /\ [answer EXCEPT ![r] = v][r] = v /\ [attempt EXCEPT ![r] = v][r] = v
           /\ [leader EXCEPT ![r] = v][r] = v
           /\ pc = [pc EXCEPT ![r] = pc[r]] /\ got = [got EXCEPT ![r] = got[r]]
           /\ answer = [answer EXCEPT ![r] = answer[r]]
           /\ attempt = [attempt EXCEPT ![r] = attempt[r]]
           /\ leader = [leader EXCEPT ![r] = leader[r]]
  BY DEF Shape

\* A request without a run gets its answer.
LEMMA EndKeeps ==
    ASSUME ProxyInv, NEW r \in Requests, NEW a \in Answers, End(r, a),
           pc[r] \notin Running \cup {"new"},
           UNCHANGED <<ask, plan, leader, attempt, got, inFlight>>,
           SharedInv', limited \subseteq limited',
           accepted' \in {accepted, accepted \cup {r}},
           r \in accepted' => ~a.limited /\ a.status \in {200, 500},
           a.limited => Endpoint(r) \in limited',
           a.status = 200 /\ plan[r].how # "reply" =>
             /\ a.body.url = plan[r].url
             /\ plan[r].how = "text" /\ plan[r].key[1] = "tip" => a.body.sound
    PROVE  ProxyInv'
  <1>0. RequestInv(r) /\ Shape
    BY DEF ProxyInv
  <1>1. pc'[r] = "end" /\ answer'[r] = a
    BY <1>0, SetAt DEF End, Go
  <1>2. Shape' /\ \A d \in Requests \ {r} : Unmoved(d)
    BY <1>0, <1>1, SetAt, OnlyOne DEF End, Go
  <1>3. RightlyAnswered(r)'
    BY <1>1 DEF RightlyAnswered, Endpoint
  <1>4. RequestInv(r)'
    BY <1>0, <1>1, <1>3 DEF RequestInv, Places, InFetch, Running
  <1>5. QED  BY <1>1, <1>2, <1>4, MovesAlone

\* A request takes a body that is what it asked for.
LEMMA ServeKeeps ==
    ASSUME ProxyInv, NEW r \in Requests, NEW body \in Body, body.url = plan[r].url,
           pc[r] \in {"lookup", "gate", "backoff"}, Serve(r, body),
           UNCHANGED <<ask, plan, leader, attempt, copies, inFlight, backedOff, ghosts>>
    PROVE  ProxyInv'
  <1>0. RequestInv(r) /\ Shape /\ SharedInv
    BY DEF ProxyInv
  <1>1. SharedInv'
    BY <1>0 DEF SharedInv, CopiesOK, copies, ghosts
  <1>2. r \notin accepted /\ accepted' = accepted /\ limited' = limited
    BY <1>0 DEF RequestInv, ghosts
  <1>3. CASE GoesOn(r)
    <2>1. pc'[r] = "after" /\ got'[r] = body /\ answer' = answer
      BY <1>0, <1>3, SetAt DEF Serve, Go
    <2>2. Shape' /\ \A d \in Requests \ {r} : Unmoved(d)
      BY <1>0, <1>2, <1>3, <2>1, SetAt, OnlyOne DEF Serve, Go
    <2>3. RequestInv(r)'
      BY <1>0, <1>2, <2>1 DEF RequestInv, Places, InFetch, Running
    <2>4. QED  BY <1>1, <1>2, <2>1, <2>2, <2>3, MovesAlone DEF Running
  <1>4. CASE ~GoesOn(r)
    <2>1. End(r, Sent(200, body)) /\ got' = got
      BY <1>4 DEF Serve
    <2>2. plan[r].key[1] # "tip"
      BY <1>4 DEF GoesOn
    <2>3. QED  BY <1>1, <1>2, <2>1, <2>2, SentIs, EndKeeps DEF Running
  <1>5. QED  BY <1>3, <1>4

\* A copy is what was asked for, whoever fetched it.
LEMMA HitKeeps ==
    ASSUME ProxyInv, NEW r \in Requests, NEW f, CopiesOK(f), Hit(r, f),
           pc[r] \in {"lookup", "gate", "backoff"},
           UNCHANGED <<ask, plan, leader, attempt, copies, inFlight, backedOff, ghosts>>
    PROVE  ProxyInv'
  <1>1. RequestInv(r) /\ pc[r] \in InFetch
    BY DEF ProxyInv, InFetch
  <1>2. plan[r].url = UrlOf(plan[r].key)
    BY <1>1, FetchFacts
  <1>3. f[plan[r].key] \in Body /\ f[plan[r].key].url = plan[r].url
    BY <1>2 DEF CopiesOK, Hit
  <1>4. QED  BY <1>3, ServeKeeps DEF Hit

\* A request goes to another place of its fetch, and nothing else happens.
LEMMA GoKeeps ==
    ASSUME ProxyInv, NEW r \in Requests,
           NEW where \in {"gate", "decide", "backoff", "call", "follow"},
           Go(r, where), pc[r] \in {"lookup", "gate", "decide"},
           leader' = [leader EXCEPT ![r] = leader'[r]],
           leader'[r] \in Requests \cup {None},
           where = "follow" => RunsFor(leader'[r], plan[r].key) /\ leader'[r] # r,
           where = "backoff" => Endpoint(r) \in limited,
           \/ inFlight' = inFlight
           \/ where = "call" /\ inFlight' = With(inFlight, plan[r].key, r),
           UNCHANGED <<ask, plan, attempt, got, answer, copies, backedOff, ghosts>>
    PROVE  ProxyInv'
  <1>0. RequestInv(r) /\ Shape /\ SharedInv /\ pc[r] \in InFetch
    BY DEF ProxyInv, InFetch
  <1>1. pc'[r] = where
    BY <1>0, SetAt DEF Go
  <1>2. Shape' /\ \A d \in Requests \ {r} : Unmoved(d)
    BY <1>0, <1>1, SetAt, OnlyOne DEF Go, ghosts
  <1>3. plan[r].key \in Keys /\ plan[r].tries \in 1..MaxRetries
    BY <1>0, FetchFacts
  <1>4. attempt[r] = 0 /\ r \notin accepted
    BY <1>0 DEF RequestInv, Running
  <1>5. 0 \in 0..plan[r].tries - 1
    BY <1>3, ProxyAssumption
  <1>6. RequestInv(r)'
    BY <1>0, <1>1, <1>4, <1>5
       DEF RequestInv, Places, InFetch, Running, Endpoint, ghosts
  <1>7. /\ DOMAIN inFlight' \subseteq Keys
        /\ \A k \in DOMAIN inFlight' :
             \/ k \in DOMAIN inFlight /\ inFlight'[k] = inFlight[k]
             \/ where = "call" /\ k = plan[r].key /\ inFlight'[k] = r
    BY <1>0, <1>3 DEF With, SharedInv
  <1>8. SharedInv'
    BY <1>0, <1>7 DEF SharedInv, CopiesOK, copies, ghosts
  <1>9. \A k \in DOMAIN inFlight' :
          \/ k \in DOMAIN inFlight /\ inFlight'[k] = inFlight[k]
          \/ RunsFor(inFlight[k], k)'
    BY <1>1, <1>7 DEF RunsFor, Running
  <1>10. pc'[r] = "follow" => RunsFor(leader[r], plan[r].key)'
    BY <1>0, <1>1, <1>2 DEF RunsFor, Unmoved
  <1>11. QED
    BY <1>0, <1>1, <1>2, <1>6, <1>8, <1>9, <1>10, MovesAlone DEF Running, ghosts

-----------------------------------------------------------------------------
(* A run that is settled *)

\* Those who take the outcome of a run asked what it asks.
LEMMA PartyAsksTheSame ==
    ASSUME ProxyInv, NEW r \in Requests, pc[r] \in Running, NEW x \in Party(r)
    PROVE  /\ x \in Requests /\ RequestInv(x)
           /\ pc[x] \in Running \cup {"follow"} /\ pc[x] \in InFetch
           /\ plan[x].key = plan[r].key /\ plan[x].url = plan[r].url
           /\ Endpoint(x) = Endpoint(r) /\ GoesOn(x) = GoesOn(r)
           /\ (x # r => attempt[x] = 0) /\ x \notin accepted
  <1>1. x \in Requests /\ RequestInv(x) /\ RequestInv(r)
    BY DEF Party, ProxyInv
  <1>2. /\ pc[x] \in Running \cup {"follow"} /\ plan[x].key = plan[r].key
        /\ x # r => pc[x] = "follow"
    BY DEF Party, ProxyInv, RunsAgree, RunsFor
  <1>3. pc[x] \in InFetch /\ pc[r] \in InFetch
    BY <1>2 DEF Running, InFetch
  <1>4. plan[x].url = plan[r].url
    BY <1>1, <1>2, <1>3, FetchFacts
  <1>5. (x # r => attempt[x] = 0) /\ x \notin accepted
    BY <1>1, <1>2 DEF RequestInv, Running
  <1>6. QED  BY <1>1, <1>2, <1>3, <1>4, <1>5 DEF Endpoint, GoesOn

\* Once its party has moved on, nobody follows the run and no entry tracks it.
LEMMA SettledRuns ==
    ASSUME ProxyInv, NEW r \in Requests, pc[r] \in Running,
           UNCHANGED <<ask, plan, leader>>,
           inFlight' = Others(inFlight, plan[r].key),
           \A x \in Requests : x \notin Party(r) => pc'[x] = pc[x],
           \A x \in Party(r) : pc'[x] # "follow"
    PROVE  RunsAgree'
  <1>1. ASSUME NEW x, NEW k, RunsFor(x, k), x # r PROVE RunsFor(x, k)'
    BY <1>1 DEF RunsFor, Party, Running
  <1>2. ASSUME NEW d \in Requests, pc'[d] = "follow"
        PROVE  RunsFor(leader[d], plan[d].key)'
    <2>1. pc[d] = "follow" /\ leader[d] # r
      BY <1>2 DEF Party
    <2>2. RunsFor(leader[d], plan[d].key)
      BY <2>1 DEF ProxyInv, RunsAgree
    <2>3. QED  BY <1>1, <2>1, <2>2 DEF RunsFor
  <1>3. ASSUME NEW k \in DOMAIN inFlight' PROVE RunsFor(inFlight[k], k)'
    <2>1. k \in DOMAIN inFlight /\ k # plan[r].key /\ inFlight'[k] = inFlight[k]
      BY <1>3 DEF Others
    <2>2. RunsFor(inFlight[k], k) /\ inFlight[k] # r
      BY <2>1 DEF ProxyInv, RunsAgree, RunsFor
    <2>3. QED  BY <1>1, <2>1, <2>2 DEF RunsFor
  <1>4. QED  BY <1>2, <1>3 DEF RunsAgree

\* Resolved with what was asked for.
LEMMA ResolveKeeps ==
    ASSUME ProxyInv, NEW r \in Requests, pc[r] \in Running,
           NEW body \in Body, body.url = plan[r].url, Resolve(r, body),
           CopiesOK(fresh'), CopiesOK(stale'),
           UNCHANGED <<ask, plan, leader, backedOff, ghosts>>
    PROVE  ProxyInv'
  <1>0. Shape /\ SharedInv /\ \A x \in Requests : RequestInv(x)
    BY DEF ProxyInv
  <1>1. /\ \A x \in Requests :
             /\ pc'[x] = IF x \notin Party(r) THEN pc[x]
                         ELSE IF GoesOn(x) THEN "after" ELSE "end"
             /\ got'[x] = IF x \in Party(r) /\ GoesOn(x) THEN body ELSE got[x]
             /\ answer'[x] = IF x \in Party(r) /\ ~GoesOn(x) THEN Sent(200, body)
                             ELSE answer[x]
             /\ attempt'[x] = IF x = r THEN 0 ELSE attempt[x]
        /\ Shape'
    BY <1>0 DEF Resolve, Shape
  <1>2. RunsAgree'
    BY <1>1, SettledRuns DEF Resolve, Party
  <1>3. SharedInv'
    BY <1>0 DEF SharedInv, CopiesOK, Resolve, Others, ghosts
  <1>4. r \in Party(r)
    BY DEF Party
  <1>5. ASSUME NEW x \in Requests PROVE RequestInv(x)'
    <2>1. CASE x \notin Party(r)
      BY <1>0, <1>1, <1>4, <2>1, UnmovedKeeps DEF Unmoved, ghosts
    <2>2. CASE x \in Party(r)
      <3>1. /\ RequestInv(x) /\ pc[x] \in InFetch /\ plan[x].url = plan[r].url
            /\ attempt'[x] = 0 /\ x \notin accepted' /\ limited' = limited
            /\ pc[x] # "new"
        BY <1>1, <2>2, PartyAsksTheSame DEF ghosts, InFetch
      <3>2. CASE GoesOn(x)
        <4>1. pc'[x] = "after" /\ got'[x] = body /\ answer'[x] = answer[x]
          BY <1>1, <2>2, <3>2
        <4>2. QED  BY <3>1, <4>1 DEF RequestInv, Places, InFetch, Running
      <3>3. CASE ~GoesOn(x)
        <4>1. pc'[x] = "end" /\ got'[x] = got[x] /\ answer'[x] = Sent(200, body)
          BY <1>1, <2>2, <3>3
        <4>2. RightlyAnswered(x)'
          BY <3>1, <3>3, <4>1, SentIs DEF RightlyAnswered, GoesOn
        <4>3. QED
          BY <3>1, <4>1, <4>2, SentIs DEF RequestInv, Places, InFetch, Running
      <3>4. QED  BY <3>2, <3>3
    <2>3. QED  BY <2>1, <2>2
  <1>6. QED  BY <1>1, <1>2, <1>3, <1>5 DEF ProxyInv

\* Rejected, with a 429 only if its class was limited.
LEMMA RejectKeeps ==
    ASSUME ProxyInv, NEW r \in Requests, pc[r] \in Running,
           NEW e \in HttpErrors \cup {Other, RateLimit}, Reject(r, e),
           e = RateLimit => Endpoint(r) \in limited,
           UNCHANGED <<ask, plan, leader, copies, backedOff, ghosts>>
    PROVE  ProxyInv'
  <1>0. Shape /\ SharedInv /\ \A x \in Requests : RequestInv(x)
    BY DEF ProxyInv
  <1>1. /\ \A x \in Requests :
             /\ pc'[x] = IF x \in Party(r) THEN "end" ELSE pc[x]
             /\ answer'[x] = IF x \in Party(r) THEN handleEsploraError(e) ELSE answer[x]
             /\ attempt'[x] = IF x = r THEN 0 ELSE attempt[x]
             /\ got'[x] = got[x]
        /\ Shape'
    BY <1>0 DEF Reject, Shape
  <1>2. RunsAgree'
    BY <1>1, SettledRuns DEF Reject, Party
  <1>3. SharedInv'
    BY <1>0 DEF SharedInv, CopiesOK, Reject, Others, copies, ghosts
  <1>4. r \in Party(r)
    BY DEF Party
  <1>5. /\ handleEsploraError(e) \in Answers /\ handleEsploraError(e).status # 200
        /\ handleEsploraError(e).limited => Endpoint(r) \in limited
    BY ErrorsAre
  <1>6. ASSUME NEW x \in Requests PROVE RequestInv(x)'
    <2>1. CASE x \notin Party(r)
      BY <1>0, <1>1, <1>4, <2>1, UnmovedKeeps DEF Unmoved, ghosts
    <2>2. CASE x \in Party(r)
      <3>1. /\ RequestInv(x) /\ pc[x] \in InFetch /\ Endpoint(x) = Endpoint(r)
            /\ attempt'[x] = 0 /\ x \notin accepted' /\ limited' = limited
            /\ pc[x] # "new"
        BY <1>1, <2>2, PartyAsksTheSame DEF ghosts, InFetch
      <3>2. pc'[x] = "end" /\ got'[x] = got[x] /\ answer'[x] = handleEsploraError(e)
        BY <1>1, <2>2
      <3>3. RightlyAnswered(x)'
        BY <1>5, <3>1, <3>2 DEF RightlyAnswered, Endpoint
      <3>4. QED
        BY <1>5, <3>1, <3>2, <3>3 DEF RequestInv, Places, InFetch, Running
    <2>3. QED  BY <2>1, <2>2
  <1>7. QED  BY <1>1, <1>2, <1>3, <1>6 DEF ProxyInv

-----------------------------------------------------------------------------
(* Up to the upstream *)

LEMMA MissKeeps ==
    ASSUME ProxyInv, NEW r \in Requests, NEW where \in {"gate", "decide", "backoff"},
           Go(r, where), pc[r] \in {"lookup", "gate", "decide"},
           where = "backoff" => Endpoint(r) \in limited,
           UNCHANGED <<ask, plan, leader, attempt, got, answer, copies, inFlight,
                       backedOff, ghosts>>
    PROVE  ProxyInv'
  <1>1. leader' = [leader EXCEPT ![r] = leader'[r]] /\ leader'[r] \in Requests \cup {None}
    BY SetAt DEF ProxyInv, RequestInv
  <1>2. /\ where \in {"gate", "decide", "backoff", "call", "follow"}
        /\ where # "follow" /\ inFlight' = inFlight
        /\ UNCHANGED <<ask, plan, attempt, got, answer, copies, backedOff, ghosts>>
    OBVIOUS
  <1>3. QED  BY <1>1, <1>2, GoKeeps

LEMMA LookupKeeps ==
    ASSUME ProxyInv, NEW r \in Requests,
           Lookup(r) \/ Gate(r) \/ InBackoff(r) \/ StaleInBackoff(r)
    PROVE  ProxyInv'
  <1>0. RequestInv(r) /\ Shape /\ SharedInv
    BY DEF ProxyInv
  <1>1. CASE Lookup(r)
    <2>1. CASE Hit(r, fresh)
      BY <1>0, <1>1, <2>1, HitKeeps DEF Lookup, SharedInv
    <2>2. CASE Miss(r, IF plan[r].key[1] \in Gated THEN "gate" ELSE "decide")
      <3>1. PICK where \in {"gate", "decide"} : Go(r, where)
        BY <2>2 DEF Miss
      <3>2. /\ pc[r] = "lookup"
            /\ UNCHANGED <<ask, plan, leader, attempt, got, answer, copies, inFlight,
                           backedOff, ghosts>>
        BY <1>1, <2>2 DEF Lookup, Miss
      <3>3. QED  BY <3>1, <3>2, MissKeeps
    <2>3. QED  BY <1>1, <2>1, <2>2 DEF Lookup
  <1>2. CASE Gate(r)
    <2>1. CASE Hit(r, stale)
      BY <1>0, <1>2, <2>1, HitKeeps DEF Gate, SharedInv
    <2>2. CASE Miss(r, "decide")
      <3>1. /\ Go(r, "decide") /\ pc[r] = "gate"
            /\ UNCHANGED <<ask, plan, leader, attempt, got, answer, copies, inFlight,
                           backedOff, ghosts>>
        BY <1>2, <2>2 DEF Gate, Miss
      <3>2. QED  BY <3>1, MissKeeps
    <2>3. QED  BY <1>2, <2>1, <2>2 DEF Gate
  <1>3. CASE InBackoff(r)
    <2>1. pc[r] \in InFetch /\ Class(r) \in limited
      BY <1>0, <1>3 DEF InBackoff, InFetch, SharedInv
    <2>2. Endpoint(r) \in limited
      BY <1>0, <2>1, FetchFacts
    <2>3. QED  BY <1>3, <2>2, MissKeeps DEF InBackoff
  <1>4. CASE StaleInBackoff(r)
    <2>1. CASE Hit(r, stale)
      BY <1>0, <1>4, <2>1, HitKeeps DEF StaleInBackoff, SharedInv
    <2>2. CASE End(r, TooMany) /\ UNCHANGED got
      <3>1. Endpoint(r) \in limited /\ r \notin accepted
        BY <1>0, <1>4 DEF RequestInv, StaleInBackoff
      <3>2. SharedInv'
        BY <1>0, <1>4 DEF StaleInBackoff, SharedInv, CopiesOK, copies, ghosts
      <3>3. /\ UNCHANGED <<ask, plan, leader, attempt, got, inFlight>>
            /\ limited' = limited /\ accepted' = accepted
            /\ pc[r] \notin Running \cup {"new"}
        BY <1>4, <2>2 DEF StaleInBackoff, ghosts, Running
      <3>4. QED  BY <2>2, <3>1, <3>2, <3>3, ErrorsAre, EndKeeps
    <2>3. QED  BY <1>4, <2>1, <2>2 DEF StaleInBackoff
  <1>5. QED  BY <1>1, <1>2, <1>3, <1>4

LEMMA JoinKeeps ==
    ASSUME ProxyInv, NEW r \in Requests, Joins(r) \/ Leads(r)
    PROVE  ProxyInv'
  <1>0. RequestInv(r) /\ Shape
    BY DEF ProxyInv
  <1>1. CASE Joins(r)
    <2>1. RunsFor(inFlight[plan[r].key], plan[r].key)
      BY <1>1 DEF Joins, ProxyInv, RunsAgree
    <2>2. leader'[r] = inFlight[plan[r].key]
      BY <1>0, <1>1, SetAt DEF Joins
    <2>3. leader'[r] \in Requests /\ leader'[r] # r
      BY <1>1, <2>1, <2>2 DEF RunsFor, Joins, Running
    <2>4. /\ leader' = [leader EXCEPT ![r] = leader'[r]]
          /\ leader'[r] \in Requests \cup {None} /\ pc[r] = "decide" /\ Go(r, "follow")
          /\ RunsFor(leader'[r], plan[r].key) /\ inFlight' = inFlight
          /\ UNCHANGED <<ask, plan, attempt, got, answer, copies, backedOff, ghosts>>
      BY <1>0, <1>1, <2>1, <2>2, <2>3, SetAt DEF Joins
    <2>5. QED  BY <2>3, <2>4, GoKeeps
  <1>2. CASE Leads(r)
    <2>1. leader' = [leader EXCEPT ![r] = leader'[r]] /\ leader'[r] \in Requests \cup {None}
      BY <1>0, <1>2, SetAt DEF Leads, RequestInv
    <2>2. QED  BY <1>2, <2>1, GoKeeps DEF Leads
  <1>3. QED  BY <1>1, <1>2

-----------------------------------------------------------------------------
(* The run *)

\* A run that goes on.
LEMMA RunGoesOn ==
    ASSUME ProxyInv, NEW r \in Requests, pc[r] \in Running,
           NEW where \in Running, NEW n \in 0..plan[r].tries - 1,
           pc' = [pc EXCEPT ![r] = where], attempt' = [attempt EXCEPT ![r] = n],
           limited' \in {limited, limited \cup {Endpoint(r)}},
           backedOff' \in {backedOff, backedOff \cup {Endpoint(r)}},
           backedOff' # backedOff \/ where = "limited" => Endpoint(r) \in limited',
           UNCHANGED <<ask, plan, leader, got, answer, copies, inFlight, accepted>>
    PROVE  ProxyInv'
  <1>0. RequestInv(r) /\ Shape /\ SharedInv /\ pc[r] \in InFetch
    BY DEF ProxyInv, InFetch, Running
  <1>1. pc'[r] = where /\ attempt'[r] = n
    BY <1>0, SetAt
  <1>2. Shape' /\ \A d \in Requests \ {r} : Unmoved(d)
    BY <1>0, <1>1, SetAt, OnlyOne
  <1>3. Endpoint(r) \in Classes
    BY <1>0, FetchFacts
  <1>4. SharedInv' /\ limited \subseteq limited'
    BY <1>0, <1>3 DEF SharedInv, CopiesOK, copies
  <1>5. r \notin accepted
    BY <1>0 DEF RequestInv, Running
  <1>6. RequestInv(r)'
    BY <1>0, <1>1, <1>5 DEF RequestInv, Places, InFetch, Running, Endpoint
  <1>7. QED  BY <1>1, <1>2, <1>4, <1>6, MovesAlone DEF Running

\* One more try is within what the method allows.
LEMMA TryAgain ==
    ASSUME ProxyInv, NEW r \in Requests, pc[r] \in Running
    PROVE  /\ attempt[r] \in 0..plan[r].tries - 1
           /\ ~LastTry(r) => Tries(r) \in 0..plan[r].tries - 1
  <1>0. RequestInv(r) /\ pc[r] \in InFetch
    BY DEF ProxyInv, InFetch, Running
  <1>1. plan[r].tries \in Nat
    BY <1>0, FetchFacts, ProxyAssumption
  <1>2. attempt[r] \in 0..plan[r].tries - 1
    BY <1>0 DEF RequestInv
  <1>3. QED  BY <1>1, <1>2 DEF LastTry, Tries

LEMMA AnswersKeep ==
    ASSUME ProxyInv, NEW r \in Requests, CallAnswers(r)
    PROVE  ProxyInv'
  <1>0. RequestInv(r) /\ SharedInv /\ pc[r] \in InFetch /\ pc[r] \in Running
    BY DEF ProxyInv, InFetch, Running, CallAnswers
  <1>1. PICK body \in [url : {plan[r].url},
                       sound : IF plan[r].key[1] = "tip" THEN BOOLEAN ELSE {TRUE}] :
          setCache(plan[r].key, body) /\ Resolve(r, body)
    BY DEF CallAnswers
  <1>2. body = [url |-> plan[r].url, sound |-> body.sound] /\ body.sound \in BOOLEAN
    OBVIOUS
  <1>3. body \in Body /\ body.url = plan[r].url
    BY <1>0, <1>2, FetchFacts
  <1>4. plan[r].key \in Keys /\ body.url = UrlOf(plan[r].key)
    BY <1>0, <1>3, FetchFacts
  <1>5. CopiesOK(fresh') /\ CopiesOK(stale')
    BY <1>0, <1>1, <1>3, <1>4 DEF setCache, With, CopiesOK, copies, SharedInv
  <1>6. QED  BY <1>0, <1>1, <1>3, <1>5, ResolveKeeps DEF CallAnswers

LEMMA LimitedKeeps ==
    ASSUME ProxyInv, NEW r \in Requests, CallLimited(r)
    PROVE  ProxyInv'
  <1>0. RequestInv(r) /\ Shape /\ pc[r] \in InFetch /\ pc[r] \in Running
    BY DEF ProxyInv, InFetch, Running, CallLimited
  <1>1. Class(r) = Endpoint(r)
    BY <1>0, FetchFacts
  <1>2. attempt[r] \in 0..plan[r].tries - 1
    BY <1>0, TryAgain
  <1>3. attempt' = [attempt EXCEPT ![r] = attempt[r]]
    BY <1>0, SetAt DEF CallLimited
  <1>4. "limited" \in Running
    BY DEF Running
  <1>5. /\ backedOff' = backedOff \cup {Endpoint(r)} /\ limited' = limited \cup {Endpoint(r)}
        /\ pc' = [pc EXCEPT ![r] = "limited"]
        /\ UNCHANGED <<ask, plan, leader, got, answer, copies, inFlight, accepted>>
    BY <1>1 DEF CallLimited, Go
  <1>6. QED  BY <1>0, <1>2, <1>3, <1>4, <1>5, RunGoesOn

LEMMA TryKeeps ==
    ASSUME ProxyInv, NEW r \in Requests, pc[r] \in Running, ~LastTry(r), Counts(r),
           Go(r, "call"),
           UNCHANGED <<ask, plan, leader, got, answer, copies, inFlight, backedOff, ghosts>>
    PROVE  ProxyInv'
  <1>1. Tries(r) \in 0..plan[r].tries - 1
    BY TryAgain
  <1>2. /\ "call" \in Running
        /\ UNCHANGED <<ask, plan, leader, got, answer, copies, inFlight, accepted>>
        /\ limited' = limited /\ backedOff' = backedOff
    BY DEF Running, ghosts
  <1>3. QED  BY <1>1, <1>2, RunGoesOn DEF Counts, Go

LEMMA FailureKeeps ==
    ASSUME ProxyInv, NEW r \in Requests, StaleAfterLimit(r) \/ CallFails(r)
    PROVE  ProxyInv'
  <1>0. /\ RequestInv(r) /\ SharedInv /\ Shape /\ pc[r] \in InFetch /\ pc[r] \in Running
        /\ UNCHANGED <<ask, plan, leader, copies, backedOff, ghosts>>
    BY DEF ProxyInv, InFetch, Running, StaleAfterLimit, CallFails
  <1>1. CASE StaleAfterLimit(r)
    <2>1. Endpoint(r) \in limited
      BY <1>0, <1>1 DEF RequestInv, StaleAfterLimit
    <2>2. CASE plan[r].key \in DOMAIN stale /\ Resolve(r, stale[plan[r].key])
      <3>1. stale[plan[r].key] \in Body /\ stale[plan[r].key].url = plan[r].url
        BY <1>0, <2>2, FetchFacts DEF SharedInv, CopiesOK
      <3>2. CopiesOK(fresh') /\ CopiesOK(stale')
        BY <1>0 DEF SharedInv, copies
      <3>3. QED  BY <1>0, <2>2, <3>1, <3>2, ResolveKeeps
    <2>3. CASE Reject(r, RateLimit)
      BY <1>0, <2>1, <2>3, RejectKeeps
    <2>4. CASE /\ ~LastTry(r) /\ Counts(r) /\ Go(r, "call")
               /\ UNCHANGED <<got, answer, inFlight>>
      BY <1>0, <2>4, TryKeeps
    <2>5. QED  BY <1>1, <2>2, <2>3, <2>4 DEF StaleAfterLimit
  <1>2. CASE CallFails(r)
    <2>1. CASE /\ ~LastTry(r) /\ Counts(r)
               /\ UNCHANGED <<pc, got, answer, inFlight>>
      <3>1. Go(r, "call")
        BY <1>0, <1>2, <2>1, SetAt DEF CallFails, Go
      <3>2. QED  BY <1>0, <2>1, <3>1, TryKeeps
    <2>2. ASSUME NEW e \in HttpErrors \cup {Other}, Reject(r, e) PROVE ProxyInv'
      <3>1. e # RateLimit
        BY <2>2 DEF HttpErrors, Other, RateLimit
      <3>2. QED  BY <1>0, <2>2, <3>1, RejectKeeps
    <2>3. QED  BY <1>2, <2>1, <2>2 DEF CallFails
  <1>3. QED  BY <1>1, <1>2

-----------------------------------------------------------------------------
(* After the fetch *)

LEMMA AfterKeeps ==
    ASSUME ProxyInv, NEW r \in Requests, Recache(r) \/ ParseTip(r) \/ RejectTip(r)
    PROVE  ProxyInv'
  <1>0. /\ RequestInv(r) /\ SharedInv /\ pc[r] = "after" /\ pc[r] \in InFetch
        /\ UNCHANGED <<ask, plan, leader, attempt, got, inFlight>>
        /\ backedOff' = backedOff /\ limited' = limited /\ accepted' = accepted
    BY DEF ProxyInv, InFetch, Recache, ParseTip, RejectTip, ghosts
  <1>1. got[r] \in Body /\ got[r].url = plan[r].url /\ r \notin accepted
    BY <1>0 DEF RequestInv
  <1>2. plan[r].key \in Keys /\ plan[r].url = UrlOf(plan[r].key)
    BY <1>0, FetchFacts
  <1>3. pc[r] \notin Running \cup {"new"}
    BY <1>0 DEF Running
  <1>4. CASE Recache(r)
    <2>1. CopiesOK(fresh') /\ CopiesOK(stale')
      BY <1>0, <1>1, <1>2, <1>4 DEF Recache, setCache, With, CopiesOK, copies, SharedInv
    <2>2. plan[r].key[1] # "tip"
      BY <1>4 DEF Recache, Recaches
    <2>3. SharedInv'
      BY <1>0, <2>1 DEF SharedInv
    <2>4. End(r, Sent(200, got[r]))
      BY <1>4 DEF Recache
    <2>5. QED  BY <1>0, <1>1, <1>3, <2>2, <2>3, <2>4, SentIs, EndKeeps
  <1>5. CASE ParseTip(r)
    <2>1. SharedInv'
      BY <1>0, <1>5 DEF ParseTip, SharedInv, CopiesOK, copies
    <2>2. End(r, Sent(200, got[r])) /\ got[r].sound
      BY <1>5 DEF ParseTip
    <2>3. QED  BY <1>0, <1>1, <1>3, <2>1, <2>2, SentIs, EndKeeps
  <1>6. CASE RejectTip(r)
    <2>1. CopiesOK(fresh') /\ CopiesOK(stale')
      BY <1>0, <1>6 DEF RejectTip, Others, CopiesOK, copies, SharedInv
    <2>2. SharedInv'
      BY <1>0, <2>1 DEF SharedInv
    <2>3. End(r, handleEsploraError(Other))
      BY <1>6 DEF RejectTip
    <2>4. QED  BY <1>0, <1>1, <1>3, <2>2, <2>3, ErrorsAre, EndKeeps
  <1>7. QED  BY <1>4, <1>5, <1>6

-----------------------------------------------------------------------------
(* Calls that are sent on *)

LEMMA PostKeeps ==
    ASSUME ProxyInv, NEW r \in Requests,
           PostAnswers(r) \/ PostLimited(r) \/ PostRefused(r) \/ PostLost(r)
    PROVE  ProxyInv'
  <1>0. /\ RequestInv(r) /\ SharedInv /\ pc[r] = "post"
        /\ UNCHANGED <<ask, plan, leader, attempt, got, copies, inFlight>>
    BY DEF ProxyInv, PostAnswers, PostLimited, PostRefused, PostLost, ghosts
  <1>1. /\ pc[r] \notin Running \cup {"new"} /\ r \notin accepted
        /\ UNCHANGED <<ask, plan, leader, attempt, got, inFlight>>
        /\ plan[r].how = "broadcast"
    BY <1>0 DEF RequestInv, Running
  <1>2. Class(r) = Endpoint(r) /\ Endpoint(r) \in Classes
    BY <1>0, BroadcastFacts
  <1>3. CASE PostAnswers(r)
    <2>1. /\ SharedInv' /\ limited' = limited
          /\ accepted' \in {accepted, accepted \cup {r}}
      BY <1>0, <1>3 DEF PostAnswers, SharedInv, CopiesOK, copies
    <2>2. PICK sound \in BOOLEAN :
            End(r, IF sound THEN Sent(200, [url |-> plan[r].url, sound |-> TRUE])
                   ELSE BroadcastError(ask[r], Other))
      BY <1>3 DEF PostAnswers
    <2>3. CASE sound
      <3>1. [url |-> plan[r].url, sound |-> TRUE] \in Body
        BY <1>0, <1>1, SentOnFacts
      <3>2. End(r, Sent(200, [url |-> plan[r].url, sound |-> TRUE]))
        BY <2>2, <2>3
      <3>3. QED  BY <1>1, <2>1, <3>1, <3>2, SentIs, EndKeeps
    <2>4. CASE ~sound
      <3>1. End(r, BroadcastError(ask[r], Other))
        BY <2>2, <2>4
      <3>2. QED  BY <1>1, <2>1, <3>1, ErrorsAre, EndKeeps
    <2>5. QED  BY <2>3, <2>4
  <1>4. CASE PostLimited(r)
    <2>1. /\ SharedInv' /\ limited \subseteq limited' /\ Endpoint(r) \in limited'
          /\ accepted' = accepted
      BY <1>0, <1>2, <1>4 DEF PostLimited, SharedInv, CopiesOK, copies
    <2>2. End(r, TooMany)
      BY <1>4, ErrorsAre DEF PostLimited
    <2>3. QED  BY <1>1, <2>1, <2>2, ErrorsAre, EndKeeps
  <1>5. CASE PostRefused(r)
    <2>1. SharedInv' /\ limited' = limited /\ accepted' = accepted
      BY <1>0, <1>5 DEF PostRefused, SharedInv, CopiesOK, copies, ghosts
    <2>2. PICK e \in HttpErrors : End(r, BroadcastError(ask[r], e))
      BY <1>5 DEF PostRefused
    <2>3. QED  BY <1>1, <2>1, <2>2, ErrorsAre, EndKeeps
  <1>6. CASE PostLost(r)
    <2>1. /\ SharedInv' /\ limited' = limited
          /\ accepted' \in {accepted, accepted \cup {r}}
      BY <1>0, <1>6 DEF PostLost, SharedInv, CopiesOK, copies
    <2>2. End(r, BroadcastError(ask[r], Other))
      BY <1>6 DEF PostLost
    <2>3. QED  BY <1>1, <2>1, <2>2, ErrorsAre, EndKeeps
  <1>7. QED  BY <1>3, <1>4, <1>5, <1>6

LEMMA ForwardKeeps ==
    ASSUME ProxyInv, NEW r \in Requests, Forwarded(r)
    PROVE  ProxyInv'
  <1>0. /\ RequestInv(r) /\ SharedInv /\ pc[r] = "forward"
        /\ UNCHANGED <<ask, plan, leader, attempt, got, inFlight>>
        /\ limited' = limited /\ accepted' = accepted
    BY DEF ProxyInv, Forwarded, ghosts
  <1>1. /\ pc[r] \notin Running \cup {"new"} /\ r \notin accepted
        /\ plan[r].how = "forward"
    BY <1>0 DEF RequestInv, Running
  <1>2. SharedInv'
    BY <1>0 DEF Forwarded, SharedInv, CopiesOK, copies, ghosts
  <1>3. CASE End(r, Sent(200, [url |-> plan[r].url, sound |-> TRUE]))
    <2>1. [url |-> plan[r].url, sound |-> TRUE] \in Body
      BY <1>0, <1>1, SentOnFacts
    <2>2. QED  BY <1>0, <1>1, <1>2, <1>3, <2>1, SentIs, EndKeeps
  <1>4. ASSUME NEW status \in HttpErrors \cup {RateLimit}, End(r, Sent(status, None))
        PROVE  ProxyInv'
    <2>1. /\ Sent(status, None) \in Answers /\ ~Sent(status, None).limited
          /\ Sent(status, None).status # 200
      BY <1>4 DEF Sent, Answers, HttpErrors, RateLimit
    <2>2. QED  BY <1>0, <1>1, <1>2, <1>4, <2>1, EndKeeps
  <1>5. CASE End(r, handleEsploraError(Other))
    BY <1>0, <1>1, <1>2, <1>5, ErrorsAre, EndKeeps
  <1>6. QED  BY <1>3, <1>4, <1>5 DEF Forwarded

-----------------------------------------------------------------------------
(* All steps *)

\* A back-off ends, an entry is given up, or nothing happens.
LEMMA TimeKeeps ==
    ASSUME ProxyInv,
           UNCHANGED <<pc, ask, plan, leader, attempt, got, answer, copies, ghosts>>,
           backedOff' \subseteq backedOff,
           \A k \in DOMAIN inFlight' : k \in DOMAIN inFlight /\ inFlight'[k] = inFlight[k]
    PROVE  ProxyInv'
  <1>1. Shape' /\ SharedInv'
    BY DEF ProxyInv, Shape, SharedInv, CopiesOK, copies, ghosts
  <1>2. RunsAgree'
    BY DEF ProxyInv, RunsAgree, RunsFor
  <1>3. \A r \in Requests : RequestInv(r)'
    BY UnmovedKeeps DEF ProxyInv, Unmoved, ghosts
  <1>4. QED  BY <1>1, <1>2, <1>3 DEF ProxyInv

LEMMA ProxyKeeps == ProxyInv /\ [Next]_vars => ProxyInv'
  <1> SUFFICES ASSUME ProxyInv, [Next]_vars PROVE ProxyInv'
    OBVIOUS
  <1>1. CASE UNCHANGED vars
    BY <1>1, TimeKeeps DEF vars, copies, ghosts
  <1>2. ASSUME NEW r \in Requests, NEW q \in Questions,
               AnsweredAtOnce(r, q) \/ StartsFetch(r, q) \/ StartsForward(r, q)
                 \/ StartsBroadcast(r, q)
        PROVE  ProxyInv'
    BY <1>2, ArrivalKeeps
  <1>3. ASSUME NEW r \in Requests,
               \/ Lookup(r) \/ Gate(r) \/ InBackoff(r) \/ StaleInBackoff(r)
               \/ Joins(r) \/ Leads(r)
        PROVE  ProxyInv'
    BY <1>3, LookupKeeps, JoinKeeps
  <1>4. ASSUME NEW r \in Requests,
               \/ CallAnswers(r) \/ CallLimited(r) \/ StaleAfterLimit(r) \/ CallFails(r)
        PROVE  ProxyInv'
    BY <1>4, AnswersKeep, LimitedKeeps, FailureKeeps
  <1>5. ASSUME NEW r \in Requests,
               \/ Recache(r) \/ ParseTip(r) \/ RejectTip(r) \/ Forwarded(r)
               \/ PostAnswers(r) \/ PostLimited(r) \/ PostRefused(r) \/ PostLost(r)
        PROVE  ProxyInv'
    BY <1>5, AfterKeeps, PostKeeps, ForwardKeeps
  <1>6. ASSUME NEW c \in backedOff, BackoffEnds(c) PROVE ProxyInv'
    BY <1>6, TimeKeeps DEF BackoffEnds
  <1>7. ASSUME NEW k \in DOMAIN inFlight, EntryGivenUp(k) PROVE ProxyInv'
    BY <1>7, TimeKeeps DEF EntryGivenUp, Others
  <1>8. QED  BY <1>1, <1>2, <1>3, <1>4, <1>5, <1>6, <1>7 DEF Next

\* The inductive invariant holds in every state: whoever awaits a run asked what
\* the run asks, the copies are what was sent to the URL of their key, a back-off
\* follows a 429, and a transaction is taken only in its own broadcast.
THEOREM ProxyInvariance == Spec => []ProxyInv
  BY ProxyStarts, ProxyKeeps, PTL DEF Spec

\* The types of EsploraProxy: the places of a request in its route, its question
\* and what the service made of it, its attempts, the copies, the map of runs in
\* flight and the back-offs.
THEOREM ProxyTypeCorrect == Spec => []TypeOK
  <1>1. ProxyInv => TypeOK
    <2> SUFFICES ASSUME ProxyInv PROVE TypeOK
      OBVIOUS
    <2>1. /\ pc \in [Requests -> Places] /\ ask \in [Requests -> Questions \cup {None}]
          /\ \A r \in Requests : plan[r] = IF ask[r] = None THEN None ELSE Handle(ask[r])
          /\ leader \in [Requests -> Requests \cup {None}]
          /\ got \in [Requests -> Body \cup {None}]
          /\ answer \in [Requests -> Answers \cup {None}]
      BY DEF ProxyInv, Shape, RequestInv
    <2>2. attempt \in [Requests -> 0..MaxRetries - 1]
      <3>1. ASSUME NEW r \in Requests PROVE attempt[r] \in 0..MaxRetries - 1
        <4>1. CASE pc[r] \in Running
          <5>1. attempt[r] \in 0..plan[r].tries - 1 /\ plan[r].tries \in 1..MaxRetries
            BY <4>1, FetchFacts DEF ProxyInv, RequestInv, Running, InFetch
          <5>2. QED  BY <5>1, ProxyAssumption
        <4>2. CASE pc[r] \notin Running
          BY <4>2, ProxyAssumption DEF ProxyInv, RequestInv
        <4>3. QED  BY <4>1, <4>2
      <3>2. QED  BY <3>1 DEF ProxyInv, Shape
    <2>3. /\ DOMAIN fresh \subseteq Keys /\ \A k \in DOMAIN fresh : fresh[k] \in Body
          /\ DOMAIN stale \subseteq Keys /\ \A k \in DOMAIN stale : stale[k] \in Body
          /\ DOMAIN inFlight \subseteq Keys /\ \A k \in DOMAIN inFlight : inFlight[k] \in Requests
      BY DEF ProxyInv, SharedInv, CopiesOK, RunsAgree, RunsFor
    <2>4. Classes \subseteq {<<k[1], k[2]>> : k \in Limitable}
      BY StatKeyOf DEF Classes
    <2>5. backedOff \subseteq Classes /\ limited \subseteq Classes /\ accepted \subseteq Requests
      BY DEF ProxyInv, SharedInv
    <2>6. QED  BY <2>1, <2>2, <2>3, <2>4, <2>5 DEF TypeOK, Places, Answers
  <1>2. QED  BY <1>1, ProxyInvariance, PTL

\* A client that gets a 200 gets the answer to its own question, whether it comes
\* from the upstream, a copy or the run of another request.
THEOREM ClientsGetTheirAnswer == Spec => []AnswersTheQuestion
  <1>1. ProxyInv => AnswersTheQuestion
    BY DEF ProxyInv, RequestInv, RightlyAnswered, AnswersTheQuestion
  <1>2. QED  BY <1>1, ProxyInvariance, PTL

\* Whoever is told of a rate limit asked for a class of endpoints that the
\* upstream did answer with a 429.
THEOREM NoForeignRateLimit == Spec => []RateLimitedIsTrue
  <1>1. ProxyInv => RateLimitedIsTrue
    BY DEF ProxyInv, RequestInv, RightlyAnswered, RateLimitedIsTrue
  <1>2. QED  BY <1>1, ProxyInvariance, PTL

\* A transaction whose broadcast was refused was not taken by the upstream.
THEOREM RefusalsAreSafe == Spec => []RefusedIsNotAccepted
  <1>1. ProxyInv => RefusedIsNotAccepted
    BY DEF ProxyInv, RequestInv, RefusedIsNotAccepted
  <1>2. QED  BY <1>1, ProxyInvariance, PTL
=============================================================================
