-------------------------------- MODULE MCReads --------------------------------
EXTENDS PublicNumbers

CONSTANTS ann, bob, cem, hal, b1, nul, bread, rice, soap, mop, mart

MCWording == [i \in {bread, rice, soap, mop} |-> IF i = bread THEN {"sliced"} ELSE {}]
MCWallet == {ann, bob, cem}

Line(item, label, quantity, unit, total) ==
    [item |-> item, label |-> label, quantity |-> quantity, unit |-> unit, total |-> total]
Loaf(total) == Line(bread, "bread", 6, "loaf", total)
Rice(kilos, total) == Line(rice, "rice", kilos, "kg", total)
Soap(total) == Line(soap, "soap", nul, nul, total)
Coupon(off) == Line(mop, "other", nul, nul, -off)
Mop(total) == Line(mop, "other", 1, "piece", total)

Bought(image, wallet, currency, total, age, verdict, lines) ==
    [image |-> image, wallet |-> wallet, shop |-> mart, country |-> "JP", currency |-> currency, total |-> total,
     age |-> age, verdict |-> verdict, lines |-> lines]

MCPaper ==
    {Bought(1, ann, "JPY", 32, 0, "claimable", <<Loaf(12), Rice(2, 14), Soap(8), Coupon(2)>>),
     Bought(2, bob, "JPY", 38, 1, "claimable", <<Loaf(12), Rice(1, 10), Rice(1, 8), Soap(8)>>),
     Bought(3, cem, "JPY", 20, 0, "claimable", <<Loaf(15), Mop(5)>>),
     Bought(4, cem, "JPY", 20, 0, "rejected", <<Rice(1, 20)>>),
     Bought(5, ann, "USD", 9, 1, "claimable", <<Rice(3, 9)>>)}
ASSUME MCPricesDivide == PricesDivide
MCCurrencies == <<"JPY", "USD">>
MCMonthStart == <<0, 1, 3>>
=============================================================================
