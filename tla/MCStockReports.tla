--------------------------- MODULE MCStockReports ---------------------------
EXTENDS StockReports, TLC
CONSTANTS l1, l2

MCLots == <<l1, l2>>
=============================================================================
