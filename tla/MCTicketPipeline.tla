-------------------------- MODULE MCTicketPipeline --------------------------
EXTENDS TicketPipeline
=============================================================================
