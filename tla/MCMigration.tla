------------------------------ MODULE MCMigration ------------------------------
EXTENDS MigrationCoordinator

\* Two streams and the migration that integrates them; the next build has one
\* migration more.
Release == <<"execution", "effects", "receipts", "integration">>
NextRelease == Append(Release, "later")
Releases == {Release, NextRelease}
BuildsUpon == [execution |-> {}, effects |-> {}, receipts |-> {"effects"},
               integration |-> {"execution", "effects"}, later |-> {"integration"}, alien |-> {}]
InCatalog == {"execution", "effects", "integration"}

Database(rows, made, others) == [ledger |-> rows, schema |-> made, foreign |-> others]
Whole == Range(Release)
\* Empty; someone else's; with a lost table that the catalog check knows, or one
\* that it does not; with lost rows; with a row too many.
Found == {Database(NoLedger, {}, FALSE), Database(NoLedger, {}, TRUE),
          Database(Whole, Whole \ {"effects"}, FALSE), Database(Whole, Whole \ {"receipts"}, FALSE),
          Database({"integration"}, Whole, FALSE),
          Database({"execution", "effects", "integration"}, Whole \ {"receipts"}, FALSE),
          Database({"alien"}, {"alien"}, FALSE)}
=============================================================================
