-------------------------- MODULE MCManifestCache --------------------------
EXTENDS ManifestCache
=============================================================================
