------------------------------- MODULE Registers -------------------------------
(***************************************************************************)
(* The two registers an entry is posted from at the year's end.  They      *)
(* share no state, so a behaviour keeps only one of them.                  *)
(***************************************************************************)
EXTENDS Assets, Stock

RegistersInit == AssetsInit /\ StockInit

RegistersNext ==
  \/ StockInit /\ AssetsNext /\ UNCHANGED stockVars
  \/ AssetsInit /\ StockNext /\ UNCHANGED assetVars

RegistersSpec == RegistersInit /\ [][RegistersNext]_<<assetVars, stockVars>>

\* Both registers keep their types: every movement, count, valuation, charge
\* and transfer is one the tables take.
RegistersTypeOK == AssetsTypeOK /\ StockTypeOK
=============================================================================
