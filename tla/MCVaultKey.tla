----------------------------- MODULE MCVaultKey -----------------------------
EXTENDS VaultKey
=============================================================================
