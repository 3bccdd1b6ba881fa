---------------------------- MODULE MCProxyEvents ----------------------------
EXTENDS ProxyEvents
CONSTANTS a, b, l, s
=============================================================================
