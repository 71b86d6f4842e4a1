----------------------------- MODULE MCLifecycle ------------------------------
EXTENDS Lifecycle

AllKinds == {"prompt", "ctx", "hung", "nil"}
===============================================================================
