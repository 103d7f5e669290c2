---------------------------- MODULE MCJyAttribute ----------------------------
EXTENDS JyAttribute, TLC

\* JAVA_PROXY_ATTR, WEAK_REF_ATTR and GC_CYCLE_MARK_ATTR
MCTypes == {-128, 0, 5}
==============================================================================
