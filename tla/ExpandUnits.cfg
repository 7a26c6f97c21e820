SPECIFICATION UnitsSpec
CONSTANTS
  PackageSets <- MCPackageSets
  Subst <- MCSubst
  Catalog <- MCCatalog
  Bindings <- MCBindings
INVARIANTS BindingsOrdered ReposReconciled DirsDistinct
CHECK_DEADLOCK FALSE
